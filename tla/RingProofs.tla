----------------------------- MODULE RingProofs -----------------------------
(***************************************************************************)
(* What Ring.tla promises for every set of requests, sizes and arena.      *)
(***************************************************************************)
EXTENDS Ring, SequenceTheorems, WellFoundedInduction, TLAPS

-----------------------------------------------------------------------------
(* Slots. *)

\* A non-empty set of naturals has a least element.
LEMMA Least ==
    ASSUME NEW S \in SUBSET Nat, S # {}
    PROVE  \E i \in S : \A j \in S : i <= j
<1>1. PICK i \in S : \A j \in S : ~ (<<j, i>> \in OpToRel(<, Nat))
    BY NatLessThanWellFounded, WFMin
<1>2. \A j \in S : ~ (j < i)
    BY <1>1 DEF OpToRel
<1> QED BY <1>2

\* What is smaller than the divisor is its own remainder.
LEMMA SmallMod ==
    ASSUME NEW a \in Nat \ {0}, NEW n \in 0..(a - 1)
    PROVE  n % a = n
OBVIOUS

\* What is missing to the next multiple makes a multiple.
LEMMA NextMultiple ==
    ASSUME NEW a \in Nat \ {0}, NEW n \in Nat
    PROVE  (n + (a - (n % a))) % a = 0
BY Z3

\* Up rounds up to a multiple of Align.
LEMMA UpAligned ==
    ASSUME NEW n \in Nat
    PROVE  Up(n) \in Nat /\ Up(n) >= n /\ Up(n) % Align = 0
<1>1. Align \in Nat \ {0} /\ n % Align \in 0..(Align - 1)
    BY ArenaAssumption
<1>2. CASE n % Align = 0
    <2>1. Up(n) = n
        BY <1>1, <1>2 DEF Up
    <2> QED BY <2>1, <1>2
<1>3. CASE n % Align # 0
    <2>1. (Align - (n % Align)) % Align = Align - (n % Align)
        BY <1>1, <1>3, SmallMod
    <2>2. Up(n) = n + (Align - (n % Align))
        BY <2>1 DEF Up
    <2>3. Up(n) % Align = 0
        BY <1>1, <2>2, NextMultiple
    <2> QED BY <1>1, <2>2, <2>3
<1> QED BY <1>2, <1>3

\* What inserting into a sequence makes.
LEMMA Inserted ==
    ASSUME NEW S, NEW s \in Seq(S), NEW e \in S, NEW i \in 1..(Len(s) + 1)
    PROVE  /\ InsertAt(s, i, e) \in Seq(S)
           /\ Len(InsertAt(s, i, e)) = Len(s) + 1
           /\ \A j \in 1..(Len(s) + 1) :
                 /\ j < i => InsertAt(s, i, e)[j] = s[j]
                 /\ j = i => InsertAt(s, i, e)[j] = e
                 /\ j > i => InsertAt(s, i, e)[j] = s[j - 1]
<1> DEFINE a == SubSeq(s, 1, i - 1)
           b == SubSeq(s, i, Len(s))
           one == <<e>>
           c == a \o one
<1>1. /\ a \in Seq(S) /\ Len(a) = i - 1
      /\ \A j \in 1..(i - 1) : a[j] = s[j]
    <2>1. \A j \in 1..(i - 1) : s[j] \in S
        OBVIOUS
    <2> QED BY <2>1, SubSeqProperties
<1>2. /\ b \in Seq(S) /\ Len(b) = Len(s) - i + 1
      /\ \A j \in 1..(Len(s) - i + 1) : b[j] = s[i + j - 1]
    <2>1. \A j \in i..Len(s) : s[j] \in S
        OBVIOUS
    <2> QED BY <2>1, SubSeqProperties
<1>3. one \in Seq(S) /\ Len(one) = 1 /\ one[1] = e
    OBVIOUS
<1> HIDE DEF a, b, one
<1>4. /\ c \in Seq(S) /\ Len(c) = i
      /\ \A j \in 1..i : c[j] = IF j < i THEN s[j] ELSE e
    <2>1. /\ c \in Seq(S) /\ Len(c) = Len(a) + Len(one)
          /\ \A j \in 1..(Len(a) + Len(one)) :
                c[j] = IF j <= Len(a) THEN a[j] ELSE one[j - Len(a)]
        BY <1>1, <1>3, ConcatProperties
    <2> QED BY <1>1, <1>3, <2>1
<1> HIDE DEF c
<1>5. /\ c \o b \in Seq(S) /\ Len(c \o b) = Len(c) + Len(b)
      /\ \A j \in 1..(Len(c) + Len(b)) :
            (c \o b)[j] = IF j <= Len(c) THEN c[j] ELSE b[j - Len(c)]
    BY <1>2, <1>4, ConcatProperties
<1>6. InsertAt(s, i, e) = c \o b
    BY DEF InsertAt, a, b, c, one
<1> QED BY <1>2, <1>4, <1>5, <1>6

\* What removing from one leaves.
LEMMA Removed ==
    ASSUME NEW S, NEW s \in Seq(S), NEW i \in 1..Len(s)
    PROVE  /\ RemoveAt(s, i) \in Seq(S)
           /\ Len(RemoveAt(s, i)) = Len(s) - 1
           /\ \A j \in 1..(Len(s) - 1) :
                 /\ j < i => RemoveAt(s, i)[j] = s[j]
                 /\ j >= i => RemoveAt(s, i)[j] = s[j + 1]
<1> DEFINE a == SubSeq(s, 1, i - 1)
           b == SubSeq(s, i + 1, Len(s))
<1>1. /\ a \in Seq(S) /\ Len(a) = i - 1
      /\ \A j \in 1..(i - 1) : a[j] = s[j]
    <2>1. \A j \in 1..(i - 1) : s[j] \in S
        OBVIOUS
    <2> QED BY <2>1, SubSeqProperties
<1>2. /\ b \in Seq(S) /\ Len(b) = Len(s) - i
      /\ \A j \in 1..(Len(s) - i) : b[j] = s[i + j]
    <2>1. \A j \in (i + 1)..Len(s) : s[j] \in S
        OBVIOUS
    <2>2. /\ b \in Seq(S)
          /\ Len(b) = IF i + 1 <= Len(s) THEN Len(s) - (i + 1) + 1 ELSE 0
          /\ \A j \in 1..(Len(s) - (i + 1) + 1) : b[j] = s[i + 1 + j - 1]
        BY <2>1, SubSeqProperties
    <2> HIDE DEF b
    <2> QED BY <2>2
<1> HIDE DEF a, b
<1>3. /\ a \o b \in Seq(S) /\ Len(a \o b) = Len(a) + Len(b)
      /\ \A j \in 1..(Len(a) + Len(b)) :
            (a \o b)[j] = IF j <= Len(a) THEN a[j] ELSE b[j - Len(a)]
    BY <1>1, <1>2, ConcatProperties
<1>4. RemoveAt(s, i) = a \o b
    BY DEF RemoveAt, a, b
<1>5. ASSUME NEW j \in 1..(Len(s) - 1)
      PROVE  (j < i => (a \o b)[j] = s[j]) /\ (j >= i => (a \o b)[j] = s[j + 1])
    <2>1. ASSUME j < i PROVE (a \o b)[j] = s[j]
        BY <1>1, <1>2, <1>3, <2>1
    <2>2. ASSUME j >= i PROVE (a \o b)[j] = s[j + 1]
        <3>1. j - Len(a) \in 1..(Len(s) - i) /\ i + (j - Len(a)) = j + 1
            BY <1>1, <2>2
        <3>2. (a \o b)[j] = b[j - Len(a)]
            BY <1>1, <1>2, <1>3, <2>2
        <3> QED BY <1>2, <2>2, <3>1, <3>2
    <2> QED BY <2>1, <2>2
<1>6. Len(a) + Len(b) = Len(s) - 1
    BY <1>1, <1>2
<1> QED BY <1>3, <1>4, <1>5, <1>6

\* Regions in order, in the arena, sharing no byte; and each with its owner's bytes.
Apart(s) ==
    /\ \A i \in 1..Len(s) : s[i].at + s[i].size <= ArenaLen
    /\ \A i, j \in 1..Len(s) : i < j => s[i].at + s[i].size <= s[j].at
Owned(s, bytes) ==
    \A i \in 1..Len(s) : \A b \in s[i].at..(s[i].at + s[i].size - 1) : bytes[b] = s[i].id
HasRegion(s, id, size) == \E i \in 1..Len(s) : s[i].id = id /\ s[i].size = size

\* What a region in use is made of.
LEMMA RegionType ==
    ASSUME NEW s \in Seq(Regions), NEW j \in 1..Len(s)
    PROVE  /\ s[j].at \in Nat /\ s[j].size \in Nat \ {0}
           /\ s[j].at < ArenaLen /\ s[j].id \in Ids
<1> DEFINE Starts == {n \in 0..(ArenaLen - 1) : n % Align = 0}
<1>1. Starts \subseteq 0..(ArenaLen - 1)
    OBVIOUS
<1> HIDE DEF Starts
<1>2. s \in Seq([at : Starts, size : 1..ArenaLen, id : Ids])
    BY DEF Regions, Starts
<1>3. s[j] \in [at : Starts, size : 1..ArenaLen, id : Ids]
    BY <1>2, ElementOfSeq
<1>4. s[j].at \in Starts /\ s[j].size \in 1..ArenaLen /\ s[j].id \in Ids
    BY <1>3
<1>5. s[j].at \in 0..(ArenaLen - 1)
    BY <1>1, <1>4
<1>6. s[j].at \in Nat /\ s[j].at < ArenaLen
    BY <1>5, ArenaAssumption
<1>7. s[j].size \in Nat \ {0}
    BY <1>4, ArenaAssumption
<1> QED BY <1>4, <1>6, <1>7

\* A region is placed where there is room: after all before it, before all after it.
LEMMA FirstFits ==
    ASSUME used \in Seq(Regions), Apart(used), NEW size \in Nat \ {0}, Places(size) # {},
           NEW i, i = FirstFit(size)
    PROVE  /\ i \in 1..(Len(used) + 1)
           /\ Offset(i) \in Nat /\ Offset(i) % Align = 0
           /\ Offset(i) + size <= ArenaLen
           /\ \A j \in 1..Len(used) :
                 /\ j < i => used[j].at + used[j].size <= Offset(i)
                 /\ j >= i => Offset(i) + size <= used[j].at
<1>1. i \in Places(size)
    <2>1. Places(size) \in SUBSET Nat
        BY DEF Places
    <2> QED BY <2>1, Least DEF FirstFit
<1>2. i \in 1..(Len(used) + 1) /\ Gap(i, Offset(i)) >= size
    BY <1>1 DEF Places, Fits
<1>3. \A j \in 1..Len(used) : used[j].at \in Nat /\ used[j].size \in Nat /\ used[j].at < ArenaLen
    BY RegionType
<1>4. /\ Offset(i) \in Nat /\ Offset(i) % Align = 0
      /\ i # 1 => Offset(i) >= used[i - 1].at + used[i - 1].size
    <2>1. CASE i = 1
        BY <2>1, ArenaAssumption, SmallMod DEF Offset
    <2>2. CASE i # 1
        <3>1. i - 1 \in 1..Len(used)
            BY <1>2, <2>2
        <3>2. used[i - 1].at + used[i - 1].size \in Nat
            BY <1>3, <3>1
        <3> QED BY <2>2, <3>2, UpAligned DEF Offset
    <2> QED BY <2>1, <2>2
<1>5. Offset(i) + size <= ArenaLen
    BY <1>2, <1>3, <1>4, ArenaAssumption DEF Gap
<1>6. ASSUME NEW j \in 1..Len(used), j < i
      PROVE  used[j].at + used[j].size <= Offset(i)
    <2>1. i - 1 \in 1..Len(used) /\ i # 1 /\ j <= i - 1
        BY <1>2, <1>6
    <2>2. used[j].at + used[j].size <= used[i - 1].at + used[i - 1].size
        <3>1. CASE j = i - 1
            BY <1>3, <2>1, <3>1
        <3>2. CASE j < i - 1
            <4>1. used[j].at + used[j].size <= used[i - 1].at
                BY <2>1, <3>2 DEF Apart
            <4>2. used[j].at + used[j].size \in Nat
                BY <1>3
            <4>3. used[i - 1].at \in Nat /\ used[i - 1].size \in Nat
                BY <1>3, <2>1
            <4> QED BY ONLY <4>1, <4>2, <4>3
        <3> QED BY <1>2, <2>1, <3>1, <3>2
    <2>3. Offset(i) >= used[i - 1].at + used[i - 1].size /\ Offset(i) \in Nat
        BY <1>4, <2>1
    <2>4. used[i - 1].at \in Nat /\ used[i - 1].size \in Nat
        BY <1>3, <2>1
    <2>5. used[j].at \in Nat /\ used[j].size \in Nat
        BY <1>3
    <2> QED BY ONLY <2>2, <2>3, <2>4, <2>5
<1>7. ASSUME NEW j \in 1..Len(used), j >= i
      PROVE  Offset(i) + size <= used[j].at
    <2>1. i \in 1..Len(used)
        BY <1>2, <1>7
    <2>2. Offset(i) + size <= used[i].at
        BY <1>2, <1>3, <1>4, <2>1 DEF Gap
    <2>3. used[i].at <= used[j].at
        <3>1. CASE i = j
            BY <1>3, <3>1
        <3>2. CASE i < j
            <4>1. used[i].at + used[i].size <= used[j].at
                BY <2>1, <3>2 DEF Apart
            <4>2. used[j].at \in Nat
                BY <1>3
            <4>3. used[i].at \in Nat /\ used[i].size \in Nat
                BY <1>3, <2>1
            <4> QED BY ONLY <4>1, <4>2, <4>3
        <3> QED BY <1>7, <2>1, <3>1, <3>2
    <2> QED BY <1>3, <1>4, <2>1, <2>2, <2>3
<1> QED BY <1>2, <1>4, <1>5, <1>6, <1>7

\* A payload written where there is room spoils no other.
LEMMA WrittenKeeps ==
    ASSUME used \in Seq(Regions), Apart(used), Owned(used, arena),
           arena \in [0..(ArenaLen - 1) -> Nat],
           NEW size \in Nat \ {0}, Places(size) # {}, NEW id \in Ids,
           NEW bytes, bytes = Written(Offset(FirstFit(size)), size, id)
    PROVE  /\ bytes \in [0..(ArenaLen - 1) -> Nat]
           /\ \A b \in 0..(ArenaLen - 1) :
                 b \in Offset(FirstFit(size))..(Offset(FirstFit(size)) + size - 1) => bytes[b] = id
           /\ Owned(used, bytes)
<1> DEFINE i == FirstFit(size)
<1>1. /\ i \in 1..(Len(used) + 1)
      /\ Offset(i) \in Nat
      /\ \A j \in 1..Len(used) :
            /\ j < i => used[j].at + used[j].size <= Offset(i)
            /\ j >= i => Offset(i) + size <= used[j].at
    BY FirstFits
<1>2. bytes = [b \in 0..(ArenaLen - 1) |->
                  IF b \in Offset(i)..(Offset(i) + size - 1) THEN id ELSE arena[b]]
    BY DEF Written
<1> HIDE DEF i
<1>3. \A j \in 1..Len(used) : used[j].at \in Nat /\ used[j].size \in Nat \ {0}
    BY RegionType
<1>4. ASSUME NEW k \in 1..Len(used), NEW b \in used[k].at..(used[k].at + used[k].size - 1)
      PROVE  bytes[b] = used[k].id
    <2>1. used[k].at + used[k].size <= ArenaLen
        BY DEF Apart
    <2>0. used[k].at \in Nat /\ used[k].size \in Nat /\ ArenaLen \in Nat
        BY <1>3, ArenaAssumption
    <2>2. b \in 0..(ArenaLen - 1)
        BY ONLY <2>0, <2>1, b \in used[k].at..(used[k].at + used[k].size - 1)
    <2>3. ~ (b \in Offset(i)..(Offset(i) + size - 1))
        <3>1. CASE k < i
            <4>1. used[k].at + used[k].size <= Offset(i)
                BY <1>1, <3>1
            <4>2. used[k].at \in Nat /\ used[k].size \in Nat /\ Offset(i) \in Nat
                BY <1>1, <1>3
            <4>3. b \in used[k].at..(used[k].at + used[k].size - 1)
                OBVIOUS
            <4>4. b < Offset(i)
                BY ONLY <4>1, <4>2, <4>3
            <4> QED BY <1>1, <2>2, <4>4
        <3>2. CASE k >= i
            BY <1>1, <1>3, <2>2, <3>2
        <3> QED BY <1>1, <3>1, <3>2
    <2>4. arena[b] = used[k].id
        BY DEF Owned
    <2> QED BY <1>2, <2>2, <2>3, <2>4
<1>5. bytes \in [0..(ArenaLen - 1) -> Nat]
    BY <1>2 DEF Ids
<1> QED BY <1>2, <1>4, <1>5 DEF Owned, i

\* Slots::take, and the payload written: the regions stay apart, each with its
\* owner's bytes, and id has one of its size.
LEMMA TakenKeeps ==
    ASSUME used \in Seq(Regions), Apart(used), Owned(used, arena),
           arena \in [0..(ArenaLen - 1) -> Nat],
           NEW size \in Nat \ {0}, Places(size) # {}, NEW id \in Ids,
           NEW t, t = Taken(size, id),
           NEW bytes, bytes = Written(Offset(FirstFit(size)), size, id)
    PROVE  /\ t \in Seq(Regions) /\ Apart(t) /\ Owned(t, bytes)
           /\ bytes \in [0..(ArenaLen - 1) -> Nat]
           /\ HasRegion(t, id, size)
           /\ \A x, n : HasRegion(used, x, n) => HasRegion(t, x, n)
<1> DEFINE i == FirstFit(size)
           r == [at |-> Offset(i), size |-> size, id |-> id]
<1>1. /\ i \in 1..(Len(used) + 1)
      /\ Offset(i) \in Nat /\ Offset(i) % Align = 0
      /\ Offset(i) + size <= ArenaLen
      /\ \A j \in 1..Len(used) :
            /\ j < i => used[j].at + used[j].size <= Offset(i)
            /\ j >= i => Offset(i) + size <= used[j].at
    BY FirstFits
<1>2. r \in Regions /\ r.at = Offset(i) /\ r.size = size /\ r.id = id
    BY <1>1, ArenaAssumption DEF Regions
<1>3. t = InsertAt(used, i, r)
    BY DEF Taken
<1> HIDE DEF i, r
<1>4. /\ t \in Seq(Regions) /\ Len(t) = Len(used) + 1
      /\ \A j \in 1..(Len(used) + 1) :
            /\ j < i => t[j] = used[j]
            /\ j = i => t[j] = r
            /\ j > i => t[j] = used[j - 1]
    <2>1. r \in Regions /\ i \in 1..(Len(used) + 1)
        BY <1>1, <1>2
    <2>2. /\ InsertAt(used, i, r) \in Seq(Regions)
          /\ Len(InsertAt(used, i, r)) = Len(used) + 1
        BY <2>1, Inserted
    <2>3. \A j \in 1..(Len(used) + 1) :
                 /\ j < i => InsertAt(used, i, r)[j] = used[j]
                 /\ j = i => InsertAt(used, i, r)[j] = r
                 /\ j > i => InsertAt(used, i, r)[j] = used[j - 1]
        BY <2>1, Inserted
    <2> QED BY <1>3, <2>2, <2>3
<1>5. \A j \in 1..Len(used) : used[j].at \in Nat /\ used[j].size \in Nat \ {0}
    BY RegionType
<1>6. Apart(t)
    <2>1. ASSUME NEW j \in 1..Len(t)
          PROVE  t[j].at + t[j].size <= ArenaLen
        <3>1. CASE j < i
            <4>1. t[j] = used[j] /\ j \in 1..Len(used)
                BY <1>1, <1>4, <3>1
            <4> QED BY <4>1 DEF Apart
        <3>2. CASE j = i
            BY <1>1, <1>2, <1>4, <3>2
        <3>3. CASE j > i
            <4>1. t[j] = used[j - 1] /\ j - 1 \in 1..Len(used)
                BY <1>1, <1>4, <3>3
            <4> QED BY <4>1 DEF Apart
        <3> QED BY <1>1, <1>4, <3>1, <3>2, <3>3
    <2>2. ASSUME NEW j \in 1..Len(t), NEW k \in 1..Len(t), j < k
          PROVE  t[j].at + t[j].size <= t[k].at
        <3>1. CASE k < i
            <4>1. t[j] = used[j] /\ t[k] = used[k] /\ j \in 1..Len(used) /\ k \in 1..Len(used)
                BY <1>1, <1>4, <2>2, <3>1
            <4> QED BY <2>2, <4>1 DEF Apart
        <3>2. CASE k = i
            <4>1. t[j] = used[j] /\ t[k] = r /\ j \in 1..Len(used) /\ j < i
                BY <1>1, <1>4, <2>2, <3>2
            <4> QED BY <1>1, <1>2, <4>1
        <3>3. CASE k > i
            <4>1. t[k] = used[k - 1] /\ k - 1 \in 1..Len(used) /\ k - 1 >= i
                BY <1>1, <1>4, <3>3
            <4>2. CASE j < i
                <5>1. t[j] = used[j] /\ j \in 1..Len(used) /\ j < k - 1
                    BY <1>1, <1>4, <3>3, <4>2
                <5> QED BY <4>1, <5>1 DEF Apart
            <4>3. CASE j = i
                BY <1>1, <1>2, <1>4, <4>1, <4>3
            <4>4. CASE j > i
                <5>1. t[j] = used[j - 1] /\ j - 1 \in 1..Len(used) /\ j - 1 < k - 1
                    BY <1>1, <1>4, <2>2, <4>4
                <5> QED BY <4>1, <5>1 DEF Apart
            <4> QED BY <1>1, <1>4, <4>2, <4>3, <4>4
        <3> QED BY <1>1, <1>4, <3>1, <3>2, <3>3
    <2> QED BY <2>1, <2>2 DEF Apart
<1>7. /\ bytes \in [0..(ArenaLen - 1) -> Nat] /\ Owned(used, bytes)
      /\ \A b \in 0..(ArenaLen - 1) :
            b \in Offset(i)..(Offset(i) + size - 1) => bytes[b] = id
    BY WrittenKeeps DEF i
<1>8. Owned(t, bytes)
    <2> SUFFICES ASSUME NEW j \in 1..(Len(used) + 1),
                        NEW b \in t[j].at..(t[j].at + t[j].size - 1)
                 PROVE  bytes[b] = t[j].id
        BY <1>4 DEF Owned
    <2>1. CASE j = i
        <3>1. t[j] = r /\ b \in Offset(i)..(Offset(i) + size - 1)
            BY <1>2, <1>4, <2>1
        <3>2. b \in 0..(ArenaLen - 1)
            BY <1>1, <3>1, ArenaAssumption
        <3> QED BY <1>2, <1>7, <3>1, <3>2
    <2>2. CASE j # i
        <3>1. PICK k \in 1..Len(used) : t[j] = used[k]
            <4>1. CASE j < i
                BY <1>1, <1>4, <4>1
            <4>2. CASE j > i
                BY <1>1, <1>4, <4>2
            <4> QED BY <1>1, <2>2, <4>1, <4>2
        <3> QED BY <1>7, <3>1 DEF Owned
    <2> QED BY <2>1, <2>2
<1>10. HasRegion(t, id, size)
    BY <1>1, <1>2, <1>4 DEF HasRegion
<1>11. ASSUME NEW x, NEW n, HasRegion(used, x, n)
       PROVE  HasRegion(t, x, n)
    <2>1. PICK k \in 1..Len(used) : used[k].id = x /\ used[k].size = n
        BY <1>11 DEF HasRegion
    <2>2. CASE k < i
        BY <1>1, <1>4, <2>1, <2>2 DEF HasRegion
    <2>3. CASE k >= i
        <3>1. t[k + 1] = used[k] /\ k + 1 \in 1..Len(t)
            BY <1>1, <1>4, <2>3
        <3> QED BY <2>1, <3>1 DEF HasRegion
    <2> QED BY <1>1, <2>2, <2>3
<1> QED BY <1>4, <1>6, <1>7, <1>8, <1>10, <1>11

\* Slots::free: what is left stays apart and owned; only id's region is gone.
LEMMA FreedKeeps ==
    ASSUME used \in Seq(Regions), Apart(used), Owned(used, arena), NEW id,
           NEW t, t = Freed(id)
    PROVE  /\ t \in Seq(Regions) /\ Apart(t) /\ Owned(t, arena)
           /\ \A x, n : x # id /\ HasRegion(used, x, n) => HasRegion(t, x, n)
<1>1. CASE HolderAt(id) = {}
    BY <1>1 DEF Freed
<1>2. CASE HolderAt(id) # {}
    <2>1. PICK h \in 1..Len(used) : used[h].id = id /\ t = RemoveAt(used, h)
        BY <1>2 DEF Freed, HolderAt
    <2>2. /\ t \in Seq(Regions) /\ Len(t) = Len(used) - 1
          /\ \A j \in 1..(Len(used) - 1) :
                (j < h => t[j] = used[j]) /\ (j >= h => t[j] = used[j + 1])
        BY <2>1, Removed
    <2>3. Apart(t)
        <3>1. ASSUME NEW j \in 1..Len(t)
              PROVE  \E m \in 1..Len(used) : t[j] = used[m] /\ m \in {j, j + 1}
                                             /\ (m = j <=> j < h)
            <4>1. CASE j < h
                BY <2>2, <4>1
            <4>2. CASE j >= h
                BY <2>2, <4>2
            <4> QED BY <2>2, <4>1, <4>2
        <3>2. ASSUME NEW j \in 1..Len(t)
              PROVE  t[j].at + t[j].size <= ArenaLen
            BY <3>1 DEF Apart
        <3>3. ASSUME NEW j \in 1..Len(t), NEW k \in 1..Len(t), j < k
              PROVE  t[j].at + t[j].size <= t[k].at
            <4>1. PICK m \in 1..Len(used) : t[j] = used[m] /\ m \in {j, j + 1} /\ (m = j <=> j < h)
                BY <3>1
            <4>2. PICK n \in 1..Len(used) : t[k] = used[n] /\ n \in {k, k + 1} /\ (n = k <=> k < h)
                BY <3>1
            <4>3. m < n
                BY <2>2, <3>3, <4>1, <4>2
            <4> QED BY <4>1, <4>2, <4>3 DEF Apart
        <3> QED BY <3>2, <3>3 DEF Apart
    <2>4. Owned(t, arena)
        BY <2>2 DEF Owned
    <2>5. ASSUME NEW x, NEW n, x # id, HasRegion(used, x, n)
          PROVE  HasRegion(t, x, n)
        <3>1. PICK k \in 1..Len(used) : used[k].id = x /\ used[k].size = n
            BY <2>5 DEF HasRegion
        <3>2. CASE k < h
            BY <2>2, <3>1, <3>2 DEF HasRegion
        <3>3. CASE k > h
            <4>1. t[k - 1] = used[k] /\ k - 1 \in 1..Len(t)
                BY <2>2, <3>3
            <4> QED BY <3>1, <4>1 DEF HasRegion
        <3> QED BY <2>1, <2>5, <3>1, <3>2, <3>3
    <2> QED BY <2>2, <2>3, <2>4, <2>5
<1> QED BY <1>1, <1>2

-----------------------------------------------------------------------------
(* Types, and the arena. *)

CallerType == /\ status \in [Callers -> {"idle", "waiting", "ok", "failed", "full", "timeout"}]
              /\ age \in [Callers -> {"fresh", "late", "over"}]
              /\ waiter \in [Callers -> {"none", "waiting", "heard"}]
QueueType == /\ recent \in Seq(Callers) /\ queue \in Seq(Callers) /\ parked \in Seq(Callers)
             /\ later \in [Callers -> Nat]
             /\ at \in Steps /\ left \in Nat /\ nextId \in Ids
Undos == [op : {"Stop", "Release"}, h : Callers, signal : Callers \cup {Nobody}]
BookType == /\ live \in SUBSET [id : Ids, who : Callers]
            /\ abandoned \in SUBSET [id : Ids, op : Ops \cup {"Stop", "Release"},
                                     signal : Callers \cup {Nobody}]
            /\ orphans \in SUBSET Callers /\ undo \in Seq(Undos)
SlotType == used \in Seq(Regions) /\ arena \in [0..(ArenaLen - 1) -> Nat]
Completions == [id : Nat, ok : BOOLEAN, h : Callers]
EngineType == /\ sq \in Seq(Entries) /\ work \in SUBSET Entries /\ cq \in Seq(Completions)
              /\ made \in [Callers -> {"none", "up", "stopping", "exited", "gone", "kept"}]

\* The type invariant, part by part.
LEMMA TypeParts ==
    TypeOK <=> CallerType /\ QueueType /\ BookType /\ SlotType /\ EngineType
BY DEF TypeOK, CallerType, QueueType, BookType, SlotType, EngineType, Undos, Completions

\* The arena is shared out soundly, and to whom its bytes say.
ArenaOK == SlotType /\ Apart(used) /\ Owned(used, arena)
\* A round over the parked requests ends before they do.
Rounds == at \in {"parked", "retain"} => left <= Len(parked)
Sound == CallerType /\ QueueType /\ BookType /\ EngineType /\ ArenaOK /\ Rounds

\* An answer leaves the callers' types alone.
LEMMA ReplyType ==
    ASSUME CallerType, NEW c \in Callers, NEW answer \in {"ok", "failed", "full", "timeout"},
           Reply(c, answer), UNCHANGED <<age, waiter>>
    PROVE  CallerType'
BY DEF CallerType, Reply

\* place keeps the types of all it changes, and the arena sound.
LEMMA PlaceSound ==
    ASSUME Sound, NEW c \in Callers, NEW rest \in Seq(Callers), Place(c, rest), PlaceOnly
    PROVE  /\ CallerType' /\ BookType' /\ EngineType' /\ ArenaOK'
           /\ parked' \in Seq(Callers) /\ nextId' \in Ids
           /\ Len(parked') >= Len(rest)
<1> USE DEF Sound
<1>1. SizeOf[c] \in Nat /\ OpOf[c] \in Ops /\ nextId + 1 \in Ids
    BY SizeAssumption, OpAssumption DEF QueueType, Ids
<1>2. CASE SizeOf[c] > ArenaLen /\ Reply(c, "failed") /\ parked' = rest
           /\ UNCHANGED <<nextId, used, arena, sq, live>>
    <2>1. CallerType'
        BY <1>2, ReplyType DEF PlaceOnly
    <2> QED BY <1>2, <2>1 DEF PlaceOnly, BookType, EngineType, ArenaOK, SlotType, QueueType
<1>3. CASE NoRoom(c) /\ parked' = Append(rest, c)
           /\ UNCHANGED <<status, nextId, used, arena, sq, live>>
    BY <1>3 DEF PlaceOnly, CallerType, BookType, EngineType, ArenaOK, SlotType, QueueType
<1>4. CASE /\ ~ NoRoom(c)
           /\ arena' = IF SizeOf[c] > 0
                         THEN Written(Offset(FirstFit(SizeOf[c])), SizeOf[c], nextId) ELSE arena
           /\ Submitted(c) \/ QueueFull(c)
           /\ nextId' = nextId + 1
           /\ parked' = rest
    <2>1. CallerType'
        BY <1>4, ReplyType DEF PlaceOnly, Submitted, QueueFull, CallerType
    <2>2. [id |-> nextId, op |-> OpOf[c], h |-> c] \in Entries
        BY <1>1 DEF Entries, QueueType
    <2>3. EngineType'
        <3>1. sq' \in Seq(Entries)
            <4>1. sq \in Seq(Entries)
                BY DEF EngineType
            <4>2. CASE Submitted(c)
                BY <2>2, <4>1, <4>2, AppendProperties DEF Submitted
            <4>3. CASE QueueFull(c)
                BY <4>1, <4>3 DEF QueueFull
            <4> QED BY <1>4, <4>2, <4>3
        <3> QED BY <3>1 DEF EngineType, PlaceOnly
    <2>4. BookType'
        BY <1>4 DEF BookType, QueueType, PlaceOnly, Submitted, QueueFull
    <2>5. ArenaOK'
        <3>1. CASE SizeOf[c] = 0
            BY <1>4, <3>1 DEF Submitted, QueueFull, ArenaOK, SlotType
        <3>2. CASE SizeOf[c] > 0
            <4>1. SizeOf[c] \in Nat \ {0} /\ Places(SizeOf[c]) # {} /\ nextId \in Ids
                BY <1>1, <1>4, <3>2 DEF NoRoom, QueueType
            <4>2. CASE Submitted(c)
                <5>1. used' = Taken(SizeOf[c], nextId)
                      /\ arena' = Written(Offset(FirstFit(SizeOf[c])), SizeOf[c], nextId)
                    BY <1>4, <3>2, <4>2 DEF Submitted
                <5> QED BY <4>1, <5>1, TakenKeeps DEF ArenaOK, SlotType
            <4>3. CASE QueueFull(c)
                <5>1. used' = used /\ arena' = Written(Offset(FirstFit(SizeOf[c])), SizeOf[c], nextId)
                    BY <1>4, <3>2, <4>3 DEF QueueFull
                <5>2. arena' \in [0..(ArenaLen - 1) -> Nat] /\ Owned(used, arena')
                    BY <4>1, <5>1, WrittenKeeps DEF ArenaOK, SlotType
                <5> QED BY <5>1, <5>2 DEF ArenaOK, SlotType
            <4> QED BY <1>4, <4>2, <4>3
        <3> QED BY <1>1, <3>1, <3>2
    <2> QED BY <1>1, <1>4, <2>1, <2>3, <2>4, <2>5
<1> QED BY <1>2, <1>3, <1>4 DEF Place

\* Every step keeps the types and the arena sound.
LEMMA SoundStep ==
    ASSUME Sound, [Next]_vars
    PROVE  Sound'
<1> USE DEF Sound
<1>1. ASSUME NEW c \in Callers, Send(c) \/ Ageing(c) \/ StopWaiting(c)
      PROVE  Sound'
    <2>1. CASE Send(c)
        BY <2>1, AppendProperties
        DEF Send, CallerType, QueueType, BookType, EngineType, ArenaOK, SlotType, Rounds, engineVars
    <2>2. CASE Ageing(c)
        BY <2>2 DEF Ageing, CallerType, QueueType, BookType, EngineType, ArenaOK, SlotType, Rounds,
                    threadVars, engineVars
    <2>3. CASE StopWaiting(c)
        BY <2>3 DEF StopWaiting, CallerType, QueueType, BookType, EngineType, ArenaOK, SlotType, Rounds,
                    threadVars, engineVars
    <2> QED BY <1>1, <2>1, <2>2, <2>3
<1>2. ASSUME NEW c \in Callers, WaitExit(c)
      PROVE  Sound'
    <2>1. recent' \in Seq(Callers)
        <3>1. recent \in Seq(Callers)
            BY DEF QueueType
        <3>2. \A i \in 1..Len(recent) : RemoveAt(recent, i) \in Seq(Callers)
            BY <3>1, Removed
        <3> QED BY <1>2, <3>1, <3>2 DEF WaitExit
    <2>2. CallerType'
        BY <1>2 DEF WaitExit, CallerType
    <2> QED BY <1>2, <2>1, <2>2
        DEF WaitExit, QueueType, BookType, EngineType, ArenaOK, SlotType, Rounds, engineVars
<1>3. ASSUME NEW h \in Callers, Exit(h)
      PROVE  Sound'
    <2>1. [id |-> 0, ok |-> TRUE, h |-> h] \in Completions
        BY DEF Completions
    <2>2. EngineType'
        BY <1>3, <2>1, AppendProperties DEF Exit, EngineType
    <2> QED BY <1>3, <2>2
        DEF Exit, CallerType, QueueType, BookType, ArenaOK, SlotType, Rounds, callerVars, threadVars
<1>4. CASE SubmitUndo
    <2>1. Head(undo) \in Undos /\ Tail(undo) \in Seq(Undos)
        BY <1>4, HeadTailProperties DEF SubmitUndo, BookType
    <2>2. nextId \in Ids /\ nextId + 1 \in Ids
        BY DEF QueueType, Ids
    <2>3. [id |-> nextId, op |-> Head(undo).op, h |-> Head(undo).h] \in Entries
        BY <2>1, <2>2 DEF Entries, Undos
    <2>4. EngineType'
        BY <1>4, <2>3, AppendProperties DEF SubmitUndo, EngineType
    <2>5. BookType'
        BY <1>4, <2>1, <2>2 DEF SubmitUndo, BookType, Undos
    <2> QED BY <1>4, <2>2, <2>4, <2>5
        DEF SubmitUndo, CallerType, QueueType, ArenaOK, SlotType, Rounds, callerVars
<1>5. CASE UndoneForNow \/ RetriedAll \/ NothingReceived \/ Drained \/ RetainedAll
    <2>1. Len(parked) \in Nat
        BY DEF QueueType
    <2>2. QueueType'
        BY <1>5, <2>1
        DEF UndoneForNow, RetriedAll, NothingReceived, Drained, RetainedAll, QueueType, Steps
    <2>3. UNCHANGED <<callerVars, live, abandoned, orphans, undo, used, engineVars>>
        BY <1>5 DEF UndoneForNow, RetriedAll, NothingReceived, Drained, RetainedAll
    <2>4. Rounds'
        BY <1>5, <2>1
        DEF UndoneForNow, RetriedAll, NothingReceived, Drained, RetainedAll, Rounds, QueueType
    <2> QED BY <2>2, <2>3, <2>4
        DEF CallerType, BookType, EngineType, ArenaOK, SlotType, Rounds, callerVars, engineVars
<1>6. CASE RetryParked
    <2>1. parked # <<>> /\ parked \in Seq(Callers) /\ left \in Nat /\ left <= Len(parked)
        BY <1>6 DEF RetryParked, Rounds, QueueType
    <2>2. /\ Head(parked) \in Callers /\ Tail(parked) \in Seq(Callers)
          /\ Len(Tail(parked)) = Len(parked) - 1
        BY <2>1, HeadTailProperties
    <2>3. /\ CallerType' /\ BookType' /\ EngineType' /\ ArenaOK'
          /\ parked' \in Seq(Callers) /\ nextId' \in Ids
          /\ Len(parked') >= Len(Tail(parked))
        BY <1>6, <2>2, PlaceSound DEF RetryParked
    <2>4. QueueType'
        BY <1>6, <2>1, <2>3 DEF RetryParked, QueueType, PlaceOnly
    <2>5. left' <= Len(parked')
        <3>1. left' = left - 1
            BY <1>6 DEF RetryParked
        <3> QED BY <2>1, <2>2, <2>3, <3>1, LenProperties
    <2> QED BY <2>3, <2>4, <2>5 DEF Rounds
<1>7. CASE Receive
    <2>1. queue # <<>> /\ queue \in Seq(Callers)
        BY <1>7 DEF Receive, QueueType
    <2>2. Head(queue) \in Callers /\ Tail(queue) \in Seq(Callers)
        BY <2>1, HeadTailProperties
    <2>3. CallerType' /\ BookType' /\ EngineType' /\ ArenaOK' /\ parked' \in Seq(Callers)
          /\ nextId' \in Ids
        <3>1. CASE Place(Head(queue), parked)
            BY <1>7, <2>2, <3>1, PlaceSound DEF Receive, QueueType
        <3>2. CASE /\ Reply(Head(queue), "timeout")
                   /\ UNCHANGED <<parked, nextId, used, arena, sq, live>>
            <4>1. CallerType'
                BY <1>7, <2>2, <3>2, ReplyType DEF Receive, PlaceOnly
            <4> QED BY <1>7, <3>2, <4>1
                DEF Receive, PlaceOnly, BookType, EngineType, ArenaOK, SlotType, QueueType
        <3> QED BY <1>7, <3>1, <3>2 DEF Receive
    <2>4. QueueType'
        BY <1>7, <2>2, <2>3 DEF Receive, QueueType, Steps, PlaceOnly
    <2> QED BY <1>7, <2>3, <2>4 DEF Receive, Rounds
<1>8. CASE Complete
    <2> DEFINE e == Head(cq)
    <2>1. e \in Completions /\ cq' \in Seq(Completions)
        BY <1>8, HeadTailProperties DEF Complete, EngineType
    <2>2. ArenaOK'
        BY <1>8, FreedKeeps DEF Complete, ArenaOK, SlotType
    <2>3. CallerType' /\ BookType'
        <3>1. CASE Answered(e)
            <4>1. PICK l \in live : /\ live' = live \ {l}
                                    /\ Reply(l.who, IF e.ok THEN "ok" ELSE "failed")
                                    /\ UNCHANGED <<abandoned, undo, orphans>>
                BY <3>1 DEF Answered
            <4>2. l.who \in Callers
                BY DEF BookType
            <4>3. CallerType'
                BY <1>8, <4>1, <4>2, ReplyType DEF Complete
            <4> QED BY <4>1, <4>3 DEF BookType
        <3>2. CASE AnsweredLate(e)
            <4>1. PICK a \in abandoned : /\ abandoned' = abandoned \ {a}
                                         /\ undo' = undo \o LateUndo(a, e)
                                         /\ orphans' = OrphansWith(a, e)
                                         /\ UNCHANGED <<status, live>>
                BY <3>2 DEF AnsweredLate
            <4>2. LateUndo(a, e) \in Seq(Undos)
                <5>1. [op |-> UndoOf(a.op), h |-> e.h, signal |-> a.signal] \in Undos
                    BY <2>1 DEF UndoOf, Undos, BookType, Completions
                <5> HIDE DEF e
                <5> QED BY <5>1 DEF LateUndo
            <4>3. undo' \in Seq(Undos)
                BY <4>1, <4>2, ConcatProperties DEF BookType
            <4>4. orphans' \in SUBSET Callers
                BY <2>1, <4>1 DEF OrphansWith, BookType, Completions
            <4> QED BY <1>8, <4>1, <4>3, <4>4 DEF Complete, BookType, CallerType
        <3> QED BY <1>8, <3>1, <3>2 DEF Complete
    <2>4. EngineType'
        BY <1>8, <2>1 DEF Complete, EngineType
    <2> QED BY <1>8, <2>2, <2>3, <2>4 DEF Complete, QueueType, Rounds
<1>9. CASE ExitReported
    <2> DEFINE h == Head(cq).h
    <2>1. h \in Callers /\ cq' \in Seq(Completions)
        <3>1. cq \in Seq(Completions) /\ cq # <<>> /\ cq' = Tail(cq)
            BY <1>9 DEF ExitReported, EngineType
        <3>2. Head(cq) \in Completions /\ Tail(cq) \in Seq(Completions)
            BY <3>1, HeadTailProperties
        <3> QED BY <3>1, <3>2 DEF Completions
    <2>2. BookType'
        <3>1. [op |-> "Release", h |-> h, signal |-> Nobody] \in Undos
            BY <2>1 DEF Undos
        <3>2. undo' \in Seq(Undos)
            BY <1>9, <3>1, AppendProperties DEF ExitReported, BookType
        <3> QED BY <1>9, <3>2 DEF ExitReported, BookType
    <2>3. Remember(h) \in Seq(Callers)
        <3>1. Len(recent) = RecentMax => Tail(recent) \in Seq(Callers)
            BY RingAssumption, HeadTailProperties DEF QueueType
        <3> QED BY <2>1, <3>1, AppendProperties DEF Remember, QueueType
    <2>4. CallerType' /\ recent' \in Seq(Callers) /\ later' \in [Callers -> Nat]
        <3>1. CallerType'
            BY <1>9, <2>1 DEF ExitReported, CallerType
        <3>2. recent' \in Seq(Callers)
            BY <1>9, <2>3 DEF ExitReported, QueueType
        <3>3. later' \in [Callers -> Nat]
            <4>1. later \in [Callers -> Nat]
                BY DEF QueueType
            <4>2. [c \in Callers |-> IF c = h THEN 0 ELSE later[c] + 1] \in [Callers -> Nat]
                BY <4>1
            <4> QED BY <1>9, <4>1, <4>2 DEF ExitReported
        <3> QED BY <3>1, <3>2, <3>3
    <2>5. EngineType'
        BY <1>9, <2>1 DEF ExitReported, EngineType
    <2> QED BY <1>9, <2>2, <2>4, <2>5 DEF ExitReported, QueueType, Rounds, ArenaOK, SlotType
<1>10. CASE Expire
    <2>1. CallerType'
        BY <1>10 DEF Expire, CallerType
    <2>2. \A l \in LateLive : GivenUp(l) \in [id : Ids, op : Ops \cup {"Stop", "Release"},
                                              signal : Callers \cup {Nobody}]
        BY OpAssumption DEF LateLive, GivenUp, BookType
    <2>3. BookType'
        BY <1>10, <2>2 DEF Expire, BookType
    <2>4. Len(parked) \in Nat
        BY DEF QueueType
    <2> QED BY <1>10, <2>1, <2>3, <2>4
        DEF Expire, QueueType, Steps, Rounds, ArenaOK, SlotType, EngineType, engineVars
<1>11. CASE Retain
    <2> DEFINE c == Head(parked)
    <2>1. parked # <<>> /\ parked \in Seq(Callers) /\ left \in Nat /\ left <= Len(parked)
        BY <1>11 DEF Retain, Rounds, QueueType
    <2>2. c \in Callers /\ Tail(parked) \in Seq(Callers) /\ Len(Tail(parked)) = Len(parked) - 1
        BY <2>1, HeadTailProperties
    <2>4. left' = left - 1 /\ left' \in Nat /\ UNCHANGED <<age, waiter>>
        BY <1>11, <2>1 DEF Retain
    <2> HIDE DEF c
    <2>3. /\ CallerType' /\ parked' \in Seq(Callers)
          /\ Len(parked') >= Len(Tail(parked))
        <3>1. CASE Reply(c, "timeout") /\ parked' = Tail(parked)
            BY <2>2, <2>4, <3>1, ReplyType
        <3>2. CASE parked' = Append(Tail(parked), c) /\ UNCHANGED status
            <4>1. CallerType'
                BY <2>4, <3>2 DEF CallerType
            <4>2. parked' \in Seq(Callers) /\ Len(parked') = Len(Tail(parked)) + 1
                BY <2>2, <3>2, AppendProperties
            <4>3. Len(Tail(parked)) \in Nat
                BY <2>2
            <4> QED BY <4>1, <4>2, <4>3
        <3> QED BY <1>11, <3>1, <3>2 DEF Retain, c
    <2>5. left' <= Len(parked')
        BY <2>1, <2>2, <2>3, <2>4, LenProperties
    <2> QED BY <1>11, <2>3, <2>4, <2>5
        DEF Retain, QueueType, Rounds, BookType, ArenaOK, SlotType, EngineType, engineVars
<1>12. CASE Dispatch
    <2>1. Head(sq) \in Entries /\ Tail(sq) \in Seq(Entries)
        BY <1>12, HeadTailProperties DEF Dispatch, EngineType
    <2>2. EngineType'
        BY <1>12, <2>1 DEF Dispatch, EngineType
    <2> QED BY <1>12, <2>2 DEF Dispatch, callerVars, threadVars, CallerType, QueueType, BookType,
                               ArenaOK, SlotType, Rounds
<1>13. ASSUME NEW e \in work, Answer(e)
       PROVE  Sound'
    <2>1. PICK ok \in BOOLEAN :
            /\ made' = [made EXCEPT ![e.h] = IF ok THEN Done(e) ELSE Declined(e)]
            /\ cq' = Append(cq, [id |-> e.id, ok |-> ok, h |-> e.h])
        BY <1>13 DEF Answer
    <2>2. e.h \in Callers /\ e.id \in Nat
        BY DEF EngineType, Entries, Ids
    <2>3. cq' \in Seq(Completions)
        BY <2>1, <2>2, AppendProperties DEF EngineType, Completions
    <2>4. made' \in [Callers -> {"none", "up", "stopping", "exited", "gone", "kept"}]
        BY <2>1, <2>2 DEF EngineType, Done, Declined
    <2>5. EngineType'
        BY <1>13, <2>3, <2>4 DEF Answer, EngineType
    <2> QED BY <1>13, <2>5 DEF Answer, callerVars, threadVars, CallerType, QueueType, BookType,
                               ArenaOK, SlotType, Rounds
<1>14. CASE UNCHANGED vars
    BY <1>14 DEF vars, callerVars, threadVars, engineVars, CallerType, QueueType, BookType,
                 EngineType, ArenaOK, SlotType, Rounds
<1> QED BY <1>1, <1>2, <1>3, <1>4, <1>5, <1>6, <1>7, <1>8, <1>9, <1>10, <1>11, <1>12, <1>13, <1>14
        DEF Next, Thread, Engine

-----------------------------------------------------------------------------
(* Ids, and who holds a region. *)

\* An id is never used twice: those in use are behind the next.
FreshRing ==
    /\ \A i \in 1..Len(sq) : sq[i].id < nextId
    /\ \A e \in work : e.id < nextId
    /\ \A i \in 1..Len(cq) : cq[i].id < nextId
FreshBooks ==
    /\ \A l \in live : l.id < nextId
    /\ \A a \in abandoned : a.id < nextId
Fresh == FreshRing /\ FreshBooks

\* An entry is in one place, and so is what the thread knows of it.
OnceRing ==
    /\ \A i, j \in 1..Len(sq) : sq[i].id = sq[j].id => i = j
    /\ \A e, f \in work : e.id = f.id => e = f
    /\ \A i, j \in 1..Len(cq) : cq[i].id = cq[j].id /\ cq[i].id # 0 => i = j
    /\ \A i \in 1..Len(sq), e \in work : sq[i].id # e.id
    /\ \A i \in 1..Len(sq), j \in 1..Len(cq) : sq[i].id # cq[j].id
    /\ \A e \in work, j \in 1..Len(cq) : e.id # cq[j].id
OnceBooks ==
    /\ \A l, m \in live : l.id = m.id => l = m
    /\ \A l \in live, a \in abandoned : l.id # a.id
OnceEach == OnceRing /\ OnceBooks

\* A request with a payload has its region while it is in flight or awaited.
Carries(e) == e.op \in Ops /\ SizeOf[e.h] > 0
Pending ==
    /\ \A i \in 1..Len(sq) : Carries(sq[i]) => HasRegion(used, sq[i].id, SizeOf[sq[i].h])
    /\ \A e \in work : Carries(e) => HasRegion(used, e.id, SizeOf[e.h])
    /\ \A l \in live : SizeOf[l.who] > 0 => HasRegion(used, l.id, SizeOf[l.who])

IInv == Sound /\ Fresh /\ OnceEach /\ Pending

\* Ids are positive, but for an exit's, which is 0.
LEMMA IdTypes ==
    ASSUME Sound
    PROVE  /\ \A i \in 1..Len(sq) : sq[i] \in Entries /\ sq[i].id \in Nat \ {0}
           /\ \A e \in work : e \in Entries /\ e.id \in Nat \ {0}
           /\ \A i \in 1..Len(cq) : cq[i] \in Completions /\ cq[i].id \in Nat
           /\ \A l \in live : l.id \in Nat \ {0}
           /\ \A a \in abandoned : a.id \in Nat \ {0}
           /\ nextId \in Nat \ {0}
<1>1. \A i \in 1..Len(sq) : sq[i] \in Entries /\ sq[i].id \in Nat \ {0}
    <2>1. sq \in Seq(Entries)
        BY DEF Sound, EngineType
    <2>2. \A i \in 1..Len(sq) : sq[i] \in Entries
        BY <2>1, ElementOfSeq
    <2> QED BY <2>2 DEF Entries, Ids
<1>2. \A i \in 1..Len(cq) : cq[i] \in Completions /\ cq[i].id \in Nat
    <2>1. cq \in Seq(Completions)
        BY DEF Sound, EngineType
    <2>2. \A i \in 1..Len(cq) : cq[i] \in Completions
        BY <2>1, ElementOfSeq
    <2> QED BY <2>2 DEF Completions
<1>3. \A e \in work : e \in Entries /\ e.id \in Nat \ {0}
    BY DEF Sound, EngineType, Entries, Ids
<1> QED BY <1>1, <1>2, <1>3 DEF Sound, BookType, QueueType, Ids

\* A new entry on the ring has a new id.
LEMMA SubmittedOrderly ==
    ASSUME Sound, FreshRing, OnceRing, NEW new \in Entries, new.id = nextId,
           sq' = Append(sq, new), nextId' = nextId + 1, UNCHANGED <<work, cq>>
    PROVE  /\ FreshRing' /\ OnceRing'
           /\ Len(sq') = Len(sq) + 1 /\ Len(sq) \in Nat
           /\ \A i \in 1..Len(sq) : sq'[i] = sq[i]
           /\ sq'[Len(sq) + 1] = new
<1>1. /\ Len(sq') = Len(sq) + 1 /\ Len(sq) \in Nat
      /\ \A i \in 1..Len(sq) : sq'[i] = sq[i]
      /\ sq'[Len(sq) + 1] = new
    BY AppendProperties DEF Sound, EngineType
<1>2. ASSUME NEW i \in 1..Len(sq')
      PROVE  \/ i \in 1..Len(sq) /\ sq'[i] = sq[i] /\ sq'[i].id < nextId
             \/ i = Len(sq) + 1 /\ sq'[i].id = nextId
    BY <1>1 DEF FreshRing
<1>3. FreshRing'
    <2>1. \A i \in 1..Len(sq') : sq'[i].id < nextId'
        BY <1>1, <1>2, IdTypes
    <2>2. \A e \in work : e.id < nextId'
        BY IdTypes DEF FreshRing
    <2>3. \A i \in 1..Len(cq) : cq[i].id < nextId'
        BY IdTypes DEF FreshRing
    <2> QED BY <2>1, <2>2, <2>3 DEF FreshRing
<1>4. OnceRing'
    <2>1. ASSUME NEW i \in 1..Len(sq'), NEW j \in 1..Len(sq'), sq'[i].id = sq'[j].id
          PROVE  i = j
        BY <1>2, <2>1, IdTypes DEF OnceRing
    <2>2. ASSUME NEW i \in 1..Len(sq'), NEW e \in work
          PROVE  sq'[i].id # e.id
        BY <1>2, IdTypes DEF OnceRing, FreshRing
    <2>3. ASSUME NEW i \in 1..Len(sq'), NEW j \in 1..Len(cq)
          PROVE  sq'[i].id # cq[j].id
        BY <1>2, IdTypes DEF OnceRing, FreshRing
    <2> QED BY <2>1, <2>2, <2>3 DEF OnceRing
<1> QED BY <1>1, <1>3, <1>4

\* What place puts on the ring has a new id, and its region.
LEMMA PlaceOrderly ==
    ASSUME IInv, NEW c \in Callers, NEW rest, Place(c, rest), PlaceOnly
    PROVE  Fresh' /\ OnceEach' /\ Pending'
<1> USE DEF IInv, Sound
<1>1. SizeOf[c] \in Nat /\ OpOf[c] \in Ops /\ nextId \in Ids
    BY SizeAssumption, OpAssumption DEF QueueType
<1>2. /\ sq \in Seq(Entries) /\ work \in SUBSET Entries /\ cq \in Seq(Completions)
      /\ live \in SUBSET [id : Ids, who : Callers]
    BY DEF EngineType, BookType
<1>3. CASE UNCHANGED <<nextId, used, sq, live>>
    BY <1>3 DEF PlaceOnly, Fresh, FreshRing, FreshBooks, OnceEach, OnceRing, OnceBooks, Pending
<1>4. CASE QueueFull(c) /\ nextId' = nextId + 1
    <2>1. UNCHANGED <<used, sq, live, abandoned, work, cq>>
        BY <1>4 DEF QueueFull, PlaceOnly
    <2>2. Fresh'
        BY <1>4, <2>1, IdTypes DEF Fresh, FreshRing, FreshBooks
    <2> QED BY <2>1, <2>2 DEF OnceEach, OnceRing, OnceBooks, Pending
<1>5. CASE Submitted(c) /\ nextId' = nextId + 1 /\ ~ NoRoom(c)
    <2> DEFINE new == [id |-> nextId, op |-> OpOf[c], h |-> c]
               one == [id |-> nextId, who |-> c]
    <2>1. sq' = Append(sq, new) /\ live' = live \cup {one} /\ UNCHANGED <<work, cq, abandoned>>
        BY <1>5 DEF Submitted, PlaceOnly
    <2>2. new \in Entries /\ new.id = nextId /\ new.h = c /\ one.id = nextId /\ one.who = c
        BY <1>1 DEF Entries
    <2> HIDE DEF new, one
    <2>3. /\ Len(sq') = Len(sq) + 1 /\ Len(sq) \in Nat
          /\ \A i \in 1..Len(sq) : sq'[i] = sq[i]
          /\ sq'[Len(sq) + 1] = new
          /\ FreshRing' /\ OnceRing'
        BY <1>5, <2>1, <2>2, SubmittedOrderly DEF Fresh, OnceEach
    <2>4. Fresh'
        BY <1>5, <2>1, <2>2, <2>3, IdTypes DEF Fresh, FreshBooks
    <2>5. OnceEach'
        BY <2>1, <2>2, <2>3, IdTypes DEF OnceEach, OnceBooks, Fresh, FreshBooks
    <2>6. /\ \A x, n : HasRegion(used, x, n) => HasRegion(used', x, n)
          /\ SizeOf[c] > 0 => HasRegion(used', nextId, SizeOf[c])
        <3>1. CASE SizeOf[c] = 0
            BY <1>5, <3>1 DEF Submitted
        <3>2. CASE SizeOf[c] > 0
            <4>1. SizeOf[c] \in Nat \ {0} /\ Places(SizeOf[c]) # {}
                BY <1>1, <1>5, <3>2 DEF NoRoom
            <4>2. used' = Taken(SizeOf[c], nextId)
                BY <1>5, <3>2 DEF Submitted
            <4> QED BY <1>1, <4>1, <4>2, TakenKeeps DEF ArenaOK, SlotType
        <3> QED BY <1>1, <3>1, <3>2
    <2>7. Pending'
        BY <1>2, <2>1, <2>2, <2>3, <2>6 DEF Pending, Carries
    <2> QED BY <2>4, <2>5, <2>7
<1> QED BY <1>3, <1>4, <1>5 DEF Place

\* What popping a queue leaves.
LEMMA PoppedHead ==
    ASSUME NEW S, NEW s \in Seq(S), s # <<>>
    PROVE  /\ Len(Tail(s)) = Len(s) - 1 /\ Len(s) \in Nat \ {0}
           /\ \A i \in 1..Len(Tail(s)) :
                 Tail(s)[i] = s[i + 1] /\ i + 1 \in 1..Len(s) /\ i + 1 # 1
           /\ s[1] = Head(s) /\ 1 \in 1..Len(s)
BY HeadTailProperties, LenProperties, EmptySeq

\* The same of the completion queue.
LEMMA PopCompletion ==
    ASSUME Sound, cq # <<>>, cq' = Tail(cq)
    PROVE  /\ Len(cq') = Len(cq) - 1 /\ Len(cq) \in Nat \ {0}
           /\ \A i \in 1..Len(cq') : cq'[i] = cq[i + 1] /\ i + 1 \in 1..Len(cq) /\ i + 1 # 1
           /\ cq[1] = Head(cq) /\ 1 \in 1..Len(cq)
BY PoppedHead DEF Sound, EngineType

\* With the oldest completion read, the entries left are still in one place each.
LEMMA OnceWithoutHead ==
    ASSUME OnceRing, UNCHANGED <<sq, work>>,
           \A i \in 1..Len(cq') : cq'[i] = cq[i + 1] /\ i + 1 \in 1..Len(cq),
           Len(cq') \in Nat
    PROVE  OnceRing'
<1>1. ASSUME NEW i \in 1..Len(cq'), NEW j \in 1..Len(cq'), cq'[i].id = cq'[j].id, cq'[i].id # 0
      PROVE  i = j
    <2>1. i + 1 = j + 1
        BY <1>1 DEF OnceRing
    <2> QED BY <2>1
<1>2. ASSUME NEW j \in 1..Len(cq')
      PROVE  /\ \A i \in 1..Len(sq) : sq[i].id # cq'[j].id
             /\ \A e \in work : e.id # cq'[j].id
    BY DEF OnceRing
<1> QED BY <1>1, <1>2 DEF OnceRing

\* Every step keeps ids and regions in order.
LEMMA OrderlyStep ==
    ASSUME IInv, [Next]_vars
    PROVE  Fresh' /\ OnceEach' /\ Pending'
<1> USE DEF IInv, Sound
<1>1. /\ sq \in Seq(Entries) /\ work \in SUBSET Entries /\ cq \in Seq(Completions)
      /\ live \in SUBSET [id : Ids, who : Callers] /\ nextId \in Ids
    BY DEF EngineType, BookType, QueueType
<1>2. CASE UNCHANGED <<nextId, live, abandoned, used, sq, work, cq>>
    BY <1>2 DEF Fresh, FreshRing, FreshBooks, OnceEach, OnceRing, OnceBooks, Pending
<1>3. ASSUME NEW h \in Callers, Exit(h)
      PROVE  Fresh' /\ OnceEach' /\ Pending'
    <2> DEFINE new == [id |-> 0, ok |-> TRUE, h |-> h]
    <2>1. cq' = Append(cq, new) /\ UNCHANGED <<nextId, live, abandoned, used, sq, work>>
        BY <1>3 DEF Exit, threadVars
    <2>2. new \in Completions /\ new.id = 0
        BY DEF Completions
    <2> HIDE DEF new
    <2>3. /\ Len(cq') = Len(cq) + 1 /\ Len(cq) \in Nat
          /\ \A i \in 1..Len(cq) : cq'[i] = cq[i]
          /\ cq'[Len(cq) + 1] = new
        BY <1>1, <2>1, <2>2, AppendProperties
    <2>4. ASSUME NEW i \in 1..Len(cq')
          PROVE  \/ i \in 1..Len(cq) /\ cq'[i] = cq[i]
                 \/ i = Len(cq) + 1 /\ cq'[i].id = 0
        BY <2>2, <2>3
    <2>5. Fresh'
        BY <2>1, <2>4, IdTypes DEF Fresh, FreshRing, FreshBooks
    <2>6. OnceEach'
        <3>1. ASSUME NEW i \in 1..Len(cq'), NEW j \in 1..Len(cq'),
                     cq'[i].id = cq'[j].id, cq'[i].id # 0
              PROVE  i = j
            BY <2>4, <3>1 DEF OnceEach, OnceRing
        <3>2. ASSUME NEW j \in 1..Len(cq')
              PROVE  /\ \A i \in 1..Len(sq) : sq[i].id # cq'[j].id
                     /\ \A e \in work : e.id # cq'[j].id
            BY <2>4, IdTypes DEF OnceEach, OnceRing
        <3> QED BY <2>1, <3>1, <3>2 DEF OnceEach, OnceRing, OnceBooks
    <2> QED BY <2>1, <2>5, <2>6 DEF Pending
<1>4. CASE SubmitUndo
    <2> DEFINE u == Head(undo)
               new == [id |-> nextId, op |-> u.op, h |-> u.h]
               one == [id |-> nextId, op |-> u.op, signal |-> u.signal]
    <2>1. /\ sq' = Append(sq, new) /\ abandoned' = abandoned \cup {one}
          /\ nextId' = nextId + 1 /\ UNCHANGED <<live, used, work, cq>>
        BY <1>4 DEF SubmitUndo
    <2>2. u \in Undos
        BY <1>4, HeadTailProperties DEF SubmitUndo, BookType
    <2>3. new \in Entries /\ new.id = nextId /\ one.id = nextId /\ ~ Carries(new)
        BY <1>1, <2>2 DEF Entries, Undos, Carries, Ops, Creating
    <2> HIDE DEF new, one
    <2>4. /\ Len(sq') = Len(sq) + 1 /\ Len(sq) \in Nat
          /\ \A i \in 1..Len(sq) : sq'[i] = sq[i]
          /\ sq'[Len(sq) + 1] = new
          /\ FreshRing' /\ OnceRing'
        BY <2>1, <2>3, SubmittedOrderly DEF Fresh, OnceEach
    <2>5. Fresh'
        BY <2>1, <2>3, <2>4, IdTypes DEF Fresh, FreshBooks
    <2>6. OnceEach'
        BY <2>1, <2>3, <2>4, IdTypes DEF OnceEach, OnceBooks, Fresh, FreshBooks
    <2>7. Pending'
        BY <1>1, <2>1, <2>3, <2>4 DEF Pending
    <2> QED BY <2>5, <2>6, <2>7
<1>5. CASE RetryParked
    <2>1. Head(parked) \in Callers
        BY <1>5, HeadTailProperties, LenProperties, EmptySeq
        DEF RetryParked, Rounds, QueueType
    <2> QED BY <1>5, <2>1, PlaceOrderly DEF RetryParked
<1>6. CASE Receive
    <2>1. Head(queue) \in Callers
        BY <1>6, HeadTailProperties DEF Receive, QueueType
    <2>2. CASE UNCHANGED <<nextId, used, sq, live>>
        BY <1>6, <2>2, <1>2 DEF Receive, PlaceOnly
    <2> QED BY <1>6, <2>1, <2>2, PlaceOrderly DEF Receive
<1>7. CASE Complete
    <2>1. /\ Len(cq') = Len(cq) - 1 /\ Len(cq) \in Nat \ {0}
          /\ \A i \in 1..Len(cq') : cq'[i] = cq[i + 1] /\ i + 1 \in 1..Len(cq) /\ i + 1 # 1
          /\ cq[1] = Head(cq) /\ 1 \in 1..Len(cq)
        BY <1>7, PopCompletion DEF Complete
    <2>2. /\ Head(cq).id # 0 /\ used' = Freed(Head(cq).id)
          /\ UNCHANGED <<nextId, sq, work>>
          /\ \A x, n : x # Head(cq).id /\ HasRegion(used, x, n) => HasRegion(used', x, n)
        BY <1>7, FreedKeeps DEF Complete, ArenaOK, SlotType
    <2>3. \/ \E l \in live : /\ l.id = Head(cq).id /\ live' = live \ {l}
                              /\ UNCHANGED abandoned
          \/ \E a \in abandoned : /\ a.id = Head(cq).id /\ abandoned' = abandoned \ {a}
                                   /\ UNCHANGED live
        BY <1>7 DEF Complete, Answered, AnsweredLate
    <2>4. Fresh'
        BY <2>1, <2>2, <2>3 DEF Fresh, FreshRing, FreshBooks
    <2>5. OnceEach'
        <3>1. OnceRing'
            BY <2>1, <2>2, OnceWithoutHead DEF OnceEach
        <3> QED BY <2>3, <3>1 DEF OnceEach, OnceBooks
    <2>6. Pending'
        <3>1. \A l \in live' : l \in live /\ l.id # Head(cq).id
            BY <2>3 DEF OnceEach, OnceBooks
        <3>2. \A i \in 1..Len(sq) : sq[i].id # Head(cq).id
            BY <2>1 DEF OnceEach, OnceRing
        <3>3. \A e \in work : e.id # Head(cq).id
            BY <2>1 DEF OnceEach, OnceRing
        <3> QED BY <2>2, <3>1, <3>2, <3>3 DEF Pending
    <2> QED BY <2>4, <2>5, <2>6
<1>8. CASE ExitReported
    <2>1. /\ Len(cq') = Len(cq) - 1 /\ Len(cq) \in Nat \ {0}
          /\ \A i \in 1..Len(cq') : cq'[i] = cq[i + 1] /\ i + 1 \in 1..Len(cq) /\ i + 1 # 1
        BY <1>8, PopCompletion DEF ExitReported
    <2>2. UNCHANGED <<nextId, sq, work, live, abandoned, used>>
        BY <1>8 DEF ExitReported
    <2>3. Fresh'
        BY <2>1, <2>2 DEF Fresh, FreshRing, FreshBooks
    <2>4. OnceEach'
        BY <2>1, <2>2, OnceWithoutHead DEF OnceEach, OnceBooks
    <2> QED BY <2>2, <2>3, <2>4 DEF Pending
<1>9. CASE Expire
    <2>1. /\ live' = live \ LateLive
          /\ abandoned' = abandoned \cup {GivenUp(l) : l \in LateLive}
          /\ UNCHANGED <<nextId, used, sq, work, cq>>
        BY <1>9 DEF Expire, engineVars
    <2>2. LateLive \subseteq live /\ \A l \in LateLive : GivenUp(l).id = l.id
        BY DEF LateLive, GivenUp
    <2>3. Fresh'
        BY <2>1, <2>2 DEF Fresh, FreshRing, FreshBooks
    <2>4. OnceBooks'
        BY <2>1, <2>2 DEF OnceEach, OnceBooks
    <2>5. OnceRing'
        BY <2>1 DEF OnceEach, OnceRing
    <2>6. Pending'
        BY <2>1 DEF Pending
    <2> QED BY <2>3, <2>4, <2>5, <2>6 DEF OnceEach
<1>10. CASE Dispatch
    <2>1. /\ sq # <<>> /\ work' = work \cup {Head(sq)} /\ sq' = Tail(sq)
          /\ UNCHANGED <<nextId, live, abandoned, used, cq>>
        BY <1>10 DEF Dispatch, threadVars
    <2>2. /\ Len(sq') = Len(sq) - 1 /\ Len(sq) \in Nat \ {0}
          /\ \A i \in 1..Len(sq') : sq'[i] = sq[i + 1] /\ i + 1 \in 1..Len(sq) /\ i + 1 # 1
          /\ sq[1] = Head(sq) /\ 1 \in 1..Len(sq)
        BY <1>1, <2>1, PoppedHead
    <2>3. Fresh'
        BY <2>1, <2>2 DEF Fresh, FreshRing, FreshBooks
    <2>4. OnceRing'
        <3>1. ASSUME NEW i \in 1..Len(sq'), NEW j \in 1..Len(sq'), sq'[i].id = sq'[j].id
              PROVE  i = j
            <4>1. i + 1 = j + 1
                BY <2>2, <3>1 DEF OnceEach, OnceRing
            <4> QED BY <2>2, <4>1
        <3>2. \A e, f \in work' : e.id = f.id => e = f
            BY <2>1, <2>2 DEF OnceEach, OnceRing
        <3>3. \A i \in 1..Len(sq'), e \in work' : sq'[i].id # e.id
            BY <2>1, <2>2 DEF OnceEach, OnceRing
        <3>4. ASSUME NEW i \in 1..Len(sq'), NEW j \in 1..Len(cq)
              PROVE  sq'[i].id # cq[j].id
            <4>1. sq'[i] = sq[i + 1] /\ i + 1 \in 1..Len(sq)
                BY <2>2
            <4>2. \A m \in 1..Len(sq), n \in 1..Len(cq) : sq[m].id # cq[n].id
                BY DEF OnceEach, OnceRing
            <4> QED BY ONLY <4>1, <4>2
        <3>5. \A e \in work', j \in 1..Len(cq) : e.id # cq[j].id
            BY <2>1, <2>2 DEF OnceEach, OnceRing
        <3> QED BY <2>1, <3>1, <3>2, <3>3, <3>4, <3>5 DEF OnceEach, OnceRing
    <2>5. OnceBooks'
        BY <2>1 DEF OnceEach, OnceBooks
    <2>6. Pending'
        BY <2>1, <2>2 DEF Pending
    <2> QED BY <2>3, <2>4, <2>5, <2>6 DEF OnceEach
<1>11. ASSUME NEW e \in work, Answer(e)
       PROVE  Fresh' /\ OnceEach' /\ Pending'
    <2>1. PICK new \in Completions :
            /\ new.id = e.id /\ cq' = Append(cq, new)
            /\ work' = work \ {e} /\ UNCHANGED <<nextId, live, abandoned, used, sq>>
        <3>1. PICK ok \in BOOLEAN : cq' = Append(cq, [id |-> e.id, ok |-> ok, h |-> e.h])
            BY <1>11 DEF Answer
        <3>2. [id |-> e.id, ok |-> ok, h |-> e.h] \in Completions
            BY <1>1, IdTypes DEF Completions, Entries
        <3> QED BY <1>11, <3>1, <3>2 DEF Answer, threadVars
    <2>2. /\ Len(cq') = Len(cq) + 1 /\ Len(cq) \in Nat
          /\ \A i \in 1..Len(cq) : cq'[i] = cq[i]
          /\ cq'[Len(cq) + 1] = new
        BY <1>1, <2>1, AppendProperties
    <2>3. ASSUME NEW i \in 1..Len(cq')
          PROVE  \/ i \in 1..Len(cq) /\ cq'[i] = cq[i]
                 \/ i = Len(cq) + 1 /\ cq'[i].id = e.id
        BY <2>1, <2>2
    <2>4. Fresh'
        BY <2>1, <2>3 DEF Fresh, FreshRing, FreshBooks
    <2>5. OnceRing'
        <3>1. ASSUME NEW i \in 1..Len(cq'), NEW j \in 1..Len(cq'),
                     cq'[i].id = cq'[j].id, cq'[i].id # 0
              PROVE  i = j
            BY <2>3, <3>1 DEF OnceEach, OnceRing
        <3>2. ASSUME NEW j \in 1..Len(cq')
              PROVE  /\ \A i \in 1..Len(sq) : sq[i].id # cq'[j].id
                     /\ \A f \in work' : f.id # cq'[j].id
            BY <2>1, <2>3 DEF OnceEach, OnceRing
        <3> QED BY <2>1, <3>1, <3>2 DEF OnceEach, OnceRing
    <2>6. OnceBooks' /\ Pending'
        BY <2>1 DEF OnceEach, OnceBooks, Pending
    <2> QED BY <2>4, <2>5, <2>6 DEF OnceEach
<1>12. ASSUME NEW c \in Callers, Send(c) \/ Ageing(c) \/ StopWaiting(c) \/ WaitExit(c)
       PROVE  Fresh' /\ OnceEach' /\ Pending'
    BY <1>2, <1>12 DEF Send, Ageing, StopWaiting, WaitExit, threadVars, engineVars
<1>13. CASE UndoneForNow \/ RetriedAll \/ NothingReceived \/ Drained \/ Retain \/ RetainedAll
    BY <1>2, <1>13
    DEF UndoneForNow, RetriedAll, NothingReceived, Drained, Retain, RetainedAll, engineVars
<1>14. CASE UNCHANGED vars
    BY <1>2, <1>14 DEF vars, threadVars, engineVars
<1> QED BY <1>3, <1>4, <1>5, <1>6, <1>7, <1>8, <1>9, <1>10, <1>11, <1>12, <1>13, <1>14
        DEF Next, Thread, Engine

-----------------------------------------------------------------------------
(* The theorems. *)

\* It holds at the start.
LEMMA InitInv == Init => IInv
<1> SUFFICES ASSUME Init PROVE IInv
    OBVIOUS
<1> USE DEF Init
<1>1. CallerType /\ QueueType /\ BookType /\ EngineType /\ Rounds
    BY RingAssumption
    DEF CallerType, QueueType, BookType, EngineType, Rounds, Steps, Ids
<1>2. arena \in [0..(ArenaLen - 1) -> Nat] /\ used \in Seq(Regions) /\ Len(used) = 0
    OBVIOUS
<1>3. ArenaOK
    BY <1>2 DEF ArenaOK, SlotType, Apart, Owned
<1>4. Fresh /\ OnceEach /\ Pending
    BY DEF Fresh, FreshRing, FreshBooks, OnceEach, OnceRing, OnceBooks, Pending
<1> QED BY <1>1, <1>3, <1>4 DEF IInv, Sound

\* The inductive invariant behind every theorem here.
THEOREM RingInvariant == Spec => []IInv
<1>1. IInv /\ [Next]_vars => IInv'
    BY SoundStep, OrderlyStep DEF IInv
<1> QED BY <1>1, InitInv, PTL DEF Spec

\* Every variable keeps its type under every step of callers, thread and
\* engine (stormpump_ring.rs, run and RingClient).
THEOREM RingTypeCorrect == Spec => []TypeOK
<1>1. IInv => TypeOK
    BY TypeParts DEF IInv, Sound, ArenaOK
<1> QED BY <1>1, RingInvariant, PTL

\* No payload is touched from its submission until its completion is read,
\* whatever the sizes and whoever gave up: Slots, place and Outstanding::expire.
THEOREM RingPayloadIntact == Spec => []PayloadIntact
<1>1. ASSUME IInv, NEW id, NEW size \in Nat, HasRegion(used, id, size)
      PROVE  HasBytes(id, size)
    <2>1. PICK i \in 1..Len(used) : used[i].id = id /\ used[i].size = size
        BY <1>1 DEF HasRegion
    <2>2. \A b \in used[i].at..(used[i].at + used[i].size - 1) : arena[b] = id
        BY <1>1, <2>1 DEF IInv, Sound, ArenaOK, Owned
    <2>3. used[i] \in ToSet(used)
        BY <1>1, <2>1 DEF ToSet, IInv, Sound, ArenaOK, SlotType
    <2> QED BY <2>1, <2>2, <2>3 DEF HasBytes
<1>2. ASSUME IInv PROVE PayloadIntact
    <2>1. ASSUME NEW e \in InFlight, e.op \in Ops, SizeOf[e.h] > 0
          PROVE  HasBytes(e.id, SizeOf[e.h])
        <3>1. e \in Entries /\ HasRegion(used, e.id, SizeOf[e.h])
            <4>1. CASE e \in work
                BY <1>2, <2>1, <4>1, IdTypes DEF IInv, Pending, Carries
            <4>2. CASE e \in ToSet(sq)
                <5>1. PICK i \in 1..Len(sq) : e = sq[i]
                    BY <1>2, <4>2 DEF ToSet, IInv, Sound, EngineType
                <5> QED BY <1>2, <2>1, <5>1, IdTypes DEF IInv, Pending, Carries
            <4> QED BY <2>1, <4>1, <4>2 DEF InFlight
        <3>2. SizeOf[e.h] \in Nat
            BY <3>1, SizeAssumption DEF Entries
        <3> QED BY <1>1, <1>2, <3>1, <3>2
    <2>2. ASSUME NEW l \in live, SizeOf[l.who] > 0
          PROVE  HasBytes(l.id, SizeOf[l.who])
        <3>1. SizeOf[l.who] \in Nat
            BY <1>2, SizeAssumption DEF IInv, Sound, BookType
        <3> QED BY <1>1, <1>2, <2>2, <3>1 DEF IInv, Pending
    <2> QED BY <2>1, <2>2 DEF PayloadIntact
<1> QED BY <1>2, RingInvariant, PTL

-----------------------------------------------------------------------------
(* What becomes of a request given up, and of an exit. *)

In(s, x) == \E i \in 1..Len(s) : s[i] = x
Uniq(s) == \A i, j \in 1..Len(s) : s[i] = s[j] => i = j

\* A caller's request is on its way to the thread at most once, and it is owed an
\* answer unless it left.
OnItsWay(c) == In(queue, c) \/ In(parked, c)
Owed(c) == status[c] = "waiting" \/ Left(c)
AskedOnce ==
    /\ Uniq(queue) /\ Uniq(parked) /\ \A c : ~ (In(queue, c) /\ In(parked, c))
    /\ \A c \in Callers : OnItsWay(c) => Owed(c)

\* What the thread knows of a caller's own request: it is live or given up, once,
\* and the engine has nothing before.
Own(a) == a.op \in Ops
NotYet(c) == status[c] = "idle" \/ OnItsWay(c)
OneOwner ==
    /\ \A l, m \in live : l.who = m.who => l = m
    /\ \A a, b \in abandoned : a.id = b.id \/ (Own(a) /\ Own(b) /\ a.signal = b.signal) => a = b
    /\ \A l \in live, a \in abandoned : Own(a) => a.signal # l.who
    /\ \A l \in live : Owed(l.who)
    /\ \A a \in abandoned : Own(a) => a.signal \in Callers /\ a.op = OpOf[a.signal]
NotYetAsked ==
    \A c \in Callers : NotYet(c) =>
        /\ made[c] = "none"
        /\ \A l \in live : l.who # c
        /\ \A a \in abandoned : Own(a) => a.signal # c

\* What an undo is for: something made late, or a workload that exited.
Over(c) == made[c] \in {"exited", "gone", "kept"}
UndoFits(op, h, signal) ==
    /\ OpOf[h] \in Creating /\ made[h] # "none"
    /\ OpOf[h] # "Spawn" => op = "Release" /\ signal = h
    /\ OpOf[h] = "Spawn" /\ op = "Release" => Over(h)

\* The thread knows whose every entry is.
Flying(e) == In(sq, e) \/ e \in work
KnownLive(id, h, op) == \E l \in live : l.id = id /\ l.who = h /\ op = OpOf[h]
KnownLate(id, h, op) ==
    \E a \in abandoned : /\ a.id = id /\ a.op = op
                         /\ Own(a) => a.signal = h
                         /\ ~ Own(a) => UndoFits(op, h, a.signal)
Known(id, h, op) == KnownLive(id, h, op) \/ KnownLate(id, h, op)
EntriesKnown ==
    /\ \A e : Flying(e) => Known(e.id, e.h, e.op)
    /\ \A x : In(cq, x) /\ x.id # 0 => \E op : Known(x.id, x.h, op)
    /\ \A u : In(undo, u) => UndoFits(u.op, u.h, u.signal)

\* Nothing is made before the engine answers, then what it said.
OwnAnswer(x) == x.id # 0 /\ \A a \in abandoned : a.id = x.id => Own(a)
MadeAsSaid ==
    /\ \A e : Flying(e) /\ e.op \in Ops => made[e.h] = "none"
    /\ \A x : In(cq, x) /\ OwnAnswer(x) /\ OpOf[x.h] \in Creating => (made[x.h] = "none" <=> ~ x.ok)
    /\ \A c \in Callers : OpOf[c] = "Query" => made[c] = "none"
    /\ \A c \in Callers : status[c] = "ok" /\ OpOf[c] \in Creating => made[c] # "none"

\* What the engine has is somebody's who was told of it, or will be taken back.
Holds(c) == made[c] \in {"up", "stopping", "exited"}
Releasing(c) == \E u : u.h = c /\ u.op = "Release" /\ (In(undo, u) \/ Flying(u))
AskedFor(c) == (\E l \in live : l.who = c) \/ (\E a \in abandoned : Own(a) /\ a.signal = c)
TakenBack ==
    /\ \A c \in Callers :
         Holds(c) => status[c] = "ok" \/ Left(c) \/ c \in orphans \/ Releasing(c) \/ AskedFor(c)
    /\ \A c \in orphans : OpOf[c] = "Spawn"

\* An exit is reported once, after the workload was made.
ExitOf(x) == x.id = 0
ExitsOnce ==
    /\ \A x : In(cq, x) /\ ExitOf(x) => OpOf[x.h] = "Spawn" /\ Over(x.h) /\ ~ In(recent, x.h)
    /\ \A c : In(recent, c) => OpOf[c] = "Spawn" /\ Over(c)
    /\ \A i, j \in 1..Len(cq) : ExitOf(cq[i]) /\ ExitOf(cq[j]) /\ cq[i].h = cq[j].h => i = j
    /\ Uniq(recent)

\* What the thread waits for is on the ring or answered.
InRing(id) == (\E e : Flying(e) /\ e.id = id) \/ (\E x : In(cq, x) /\ x.id = id)
Awaited ==
    /\ \A l \in live : InRing(l.id)
    /\ \A a \in abandoned : InRing(a.id)

\* A workload's exit is reported after the answer to its request, and is still to
\* come while that answer is.
ExitToCome(c) == \E x : In(cq, x) /\ ExitOf(x) /\ x.h = c
AnswersFirst ==
    \A i, j \in 1..Len(cq) : \A x :
        x = cq[i] /\ ExitOf(cq[j]) /\ OwnAnswer(x) /\ x.h = cq[j].h => i < j
ExitDue == \A c \in Callers : made[c] = "exited" /\ (AskedFor(c) \/ c \in orphans) => ExitToCome(c)

\* What is taken back is taken back once, from a caller that gave up.
OneRelease(s) ==
    \A i, j \in 1..Len(s) : s[i].op = "Release" /\ s[j].op = "Release" /\ s[i].h = s[j].h => i = j
ReleasedOnce ==
    /\ OneRelease(undo)
    /\ \A u, f : In(undo, u) /\ Flying(f) /\ u.op = "Release" /\ f.op = "Release" => u.h # f.h
    /\ \A e, f : Flying(e) /\ Flying(f) /\ e.op = "Release" /\ f.op = "Release" /\ e.h = f.h => e = f
GivenUpBefore ==
    /\ \A c \in Callers : Releasing(c) => Holds(c) /\ status[c] = "timeout"
    /\ \A c \in orphans : Holds(c) /\ status[c] = "timeout" /\ ~ Releasing(c) /\ ~ AskedFor(c)
    /\ \A c \in Callers : AskedFor(c) => ~ Releasing(c) /\ made[c] \notin {"gone", "kept"}
    /\ \A a \in abandoned : Own(a) => status[a.signal] = "timeout"

Accounts == /\ AskedOnce /\ OneOwner /\ NotYetAsked /\ EntriesKnown /\ MadeAsSaid /\ TakenBack /\ ExitsOnce
            /\ Awaited /\ AnswersFirst /\ ExitDue /\ ReleasedOnce /\ GivenUpBefore
RgInv == IInv /\ Accounts

\* Members of a queue, with one more.
LEMMA InAppended ==
    ASSUME NEW S, NEW s \in Seq(S), NEW e \in S
    PROVE  /\ \A x : In(Append(s, e), x) <=> In(s, x) \/ x = e
           /\ Uniq(s) /\ ~ In(s, e) => Uniq(Append(s, e))
<1>1. /\ Len(Append(s, e)) = Len(s) + 1 /\ Len(s) \in Nat
      /\ \A i \in 1..Len(s) : Append(s, e)[i] = s[i]
      /\ Append(s, e)[Len(s) + 1] = e
    BY AppendProperties, LenProperties
<1>2. \A i \in 1..(Len(s) + 1) : i \in 1..Len(s) \/ i = Len(s) + 1
    BY <1>1
<1> DEFINE t == Append(s, e)
<1> HIDE DEF t
<1>3. \A x : In(t, x) <=> In(s, x) \/ x = e
    <2>1. Len(s) + 1 \in 1..(Len(s) + 1) /\ \A i \in 1..Len(s) : i \in 1..(Len(s) + 1)
        BY <1>1
    <2> QED BY <1>1, <1>2, <2>1 DEF In, t
<1>4. Uniq(s) /\ ~ In(s, e) => Uniq(t)
    BY <1>1, <1>2 DEF In, Uniq, t
<1> QED BY <1>3, <1>4 DEF t

\* The same without the first.
LEMMA InTail ==
    ASSUME NEW S, NEW s \in Seq(S), s # <<>>
    PROVE  /\ \A x : In(s, x) <=> In(Tail(s), x) \/ x = Head(s)
           /\ In(s, Head(s)) /\ Head(s) \in S /\ Tail(s) \in Seq(S)
           /\ Uniq(s) => Uniq(Tail(s)) /\ ~ In(Tail(s), Head(s))
<1> DEFINE t == Tail(s)
           h == Head(s)
<1>1. /\ Len(t) = Len(s) - 1 /\ Len(s) \in Nat \ {0}
      /\ \A i \in 1..Len(t) : t[i] = s[i + 1] /\ i + 1 \in 1..Len(s) /\ i + 1 # 1
      /\ s[1] = h /\ 1 \in 1..Len(s)
    BY PoppedHead
<1>2. h \in S /\ t \in Seq(S)
    BY HeadTailProperties
<1> HIDE DEF t, h
<1>3. ASSUME NEW i \in 1..Len(s), i # 1 PROVE i - 1 \in 1..Len(t) /\ t[i - 1] = s[i]
    <2>1. i - 1 \in 1..Len(t) /\ (i - 1) + 1 = i
        BY <1>1, <1>3
    <2> QED BY <1>1, <2>1
<1>4. \A x : In(s, x) <=> In(t, x) \/ x = h
    BY <1>1, <1>3 DEF In
<1>5. Uniq(s) => Uniq(t) /\ ~ In(t, h)
    <2>1. ASSUME Uniq(s), NEW i \in 1..Len(t), NEW j \in 1..Len(t), t[i] = t[j] PROVE i = j
        <3>1. i + 1 = j + 1
            BY <1>1, <2>1 DEF Uniq
        <3> QED BY <3>1
    <2>2. ASSUME Uniq(s), NEW i \in 1..Len(t) PROVE t[i] # h
        BY <1>1, <2>2 DEF Uniq
    <2> QED BY <2>1, <2>2 DEF Uniq, In
<1>6. In(s, h)
    BY <1>1 DEF In
<1> QED BY <1>2, <1>4, <1>5, <1>6 DEF t, h

\* The same without one.
LEMMA InRemoved ==
    ASSUME NEW S, NEW s \in Seq(S), NEW i \in 1..Len(s)
    PROVE  /\ \A x : In(RemoveAt(s, i), x) => In(s, x)
           /\ Uniq(s) => Uniq(RemoveAt(s, i)) /\ \A x : In(s, x) /\ x # s[i] => In(RemoveAt(s, i), x)
<1> DEFINE t == RemoveAt(s, i)
<1>1. /\ Len(t) = Len(s) - 1 /\ Len(s) \in Nat
      /\ \A j \in 1..(Len(s) - 1) : (j < i => t[j] = s[j]) /\ (j >= i => t[j] = s[j + 1])
    BY Removed, LenProperties
<1> HIDE DEF t
<1>2. ASSUME NEW j \in 1..Len(t)
      PROVE  \E k \in 1..Len(s) : t[j] = s[k] /\ k = (IF j < i THEN j ELSE j + 1)
    BY <1>1
<1>3. \A x : In(t, x) => In(s, x)
    BY <1>2 DEF In
<1>4. ASSUME NEW k \in 1..Len(s), k # i PROVE \E j \in 1..Len(t) : t[j] = s[k]
    <2>1. CASE k < i
        BY <1>1, <2>1
    <2>2. CASE k > i
        <3>1. k - 1 \in 1..(Len(s) - 1) /\ k - 1 >= i /\ (k - 1) + 1 = k
            BY <1>1, <2>2
        <3> QED BY <1>1, <3>1
    <2> QED BY <1>4, <2>1, <2>2
<1>5. ASSUME Uniq(s), NEW j \in 1..Len(t), NEW k \in 1..Len(t), t[j] = t[k] PROVE j = k
    <2>1. (IF j < i THEN j ELSE j + 1) = (IF k < i THEN k ELSE k + 1)
        BY <1>2, <1>5 DEF Uniq
    <2> QED BY <2>1
<1>6. Uniq(s) => Uniq(t)
    BY <1>5 DEF Uniq
<1> QED BY <1>3, <1>4, <1>6 DEF In, t

\* Still one release of each, with one more of another.
LEMMA OneReleaseMore ==
    ASSUME NEW S, NEW s \in Seq(S), NEW u \in S, OneRelease(s),
           u.op = "Release" => \A x : In(s, x) /\ x.op = "Release" => x.h # u.h
    PROVE  OneRelease(Append(s, u))
<1>1. /\ Len(Append(s, u)) = Len(s) + 1 /\ Len(s) \in Nat
      /\ \A i \in 1..Len(s) : Append(s, u)[i] = s[i]
      /\ Append(s, u)[Len(s) + 1] = u
    BY AppendProperties, LenProperties
<1> DEFINE t == Append(s, u)
<1> HIDE DEF t
<1>2. \A i \in 1..Len(t) : (i \in 1..Len(s) /\ t[i] = s[i]) \/ (i = Len(s) + 1 /\ t[i] = u)
    BY <1>1 DEF t
<1>3. \A i \in 1..Len(s) : In(s, s[i])
    BY DEF In
<1>4. OneRelease(t)
    BY <1>2, <1>3 DEF OneRelease
<1> QED BY <1>4 DEF t

\* The same with the first gone, which was the only one of its own.
LEMMA OneReleaseLess ==
    ASSUME NEW S, NEW s \in Seq(S), s # <<>>, OneRelease(s)
    PROVE  /\ OneRelease(Tail(s))
           /\ Head(s).op = "Release" => \A x : In(Tail(s), x) /\ x.op = "Release" => x.h # Head(s).h
<1> DEFINE t == Tail(s)
           h == Head(s)
<1>1. /\ Len(t) = Len(s) - 1 /\ Len(s) \in Nat \ {0}
      /\ \A i \in 1..Len(t) : t[i] = s[i + 1] /\ i + 1 \in 1..Len(s) /\ i + 1 # 1
      /\ s[1] = h /\ 1 \in 1..Len(s)
    BY PoppedHead
<1> HIDE DEF t, h
<1>2. ASSUME NEW i \in 1..Len(t), NEW j \in 1..Len(t), t[i].op = "Release", t[j].op = "Release", t[i].h = t[j].h
      PROVE  i = j
    <2>1. i + 1 = j + 1
        BY <1>1, <1>2 DEF OneRelease
    <2> QED BY <2>1
<1>3. ASSUME NEW i \in 1..Len(t), t[i].op = "Release", h.op = "Release" PROVE t[i].h # h.h
    BY <1>1, <1>3 DEF OneRelease
<1>4. OneRelease(t)
    BY <1>2 DEF OneRelease
<1> QED BY <1>3, <1>4 DEF t, h, In

\* What is on the ring, answered or known has an id of its own, behind the next.
LEMMA OnceIn ==
    ASSUME IInv
    PROVE  /\ nextId \in Nat \ {0}
           /\ \A e : Flying(e) => /\ e \in Entries /\ e.h \in Callers /\ e.id \in Nat \ {0}
                                  /\ e.op \in Ops \cup {"Stop", "Release"} /\ e.id < nextId
           /\ \A e, f : Flying(e) /\ Flying(f) /\ e.id = f.id => e = f
           /\ \A x : In(cq, x) => /\ x \in Completions /\ x.h \in Callers /\ x.id \in Nat
                                  /\ x.ok \in BOOLEAN /\ x.id < nextId
           /\ \A e, x : Flying(e) /\ In(cq, x) => e.id # x.id
           /\ \A l \in live : l.id \in Nat \ {0} /\ l.id < nextId /\ l.who \in Callers
           /\ \A a \in abandoned : a.id \in Nat \ {0} /\ a.id < nextId
           /\ \A l, m \in live : l.id = m.id => l = m
           /\ \A l \in live, a \in abandoned : l.id # a.id
           /\ \A u : In(undo, u) => u \in Undos /\ u.h \in Callers
           /\ \A c : In(recent, c) => c \in Callers
<1> USE DEF IInv
<1>1. nextId \in Nat \ {0}
    BY IdTypes
<1>2. ASSUME NEW e, Flying(e)
      PROVE  /\ e \in Entries /\ e.h \in Callers /\ e.id \in Nat \ {0}
             /\ e.op \in Ops \cup {"Stop", "Release"} /\ e.id < nextId
    <2>1. e \in Entries /\ e.id \in Nat \ {0} /\ e.id < nextId
        BY <1>2, IdTypes DEF Flying, In, Fresh, FreshRing
    <2> QED BY <2>1 DEF Entries
<1>3. ASSUME NEW e, NEW f, Flying(e), Flying(f), e.id = f.id
      PROVE  e = f
    <2>1. CASE In(sq, e)
        BY <1>3, <2>1 DEF Flying, In, OnceEach, OnceRing
    <2>2. CASE e \in work
        <3>1. CASE In(sq, f)
            BY <1>3, <2>2, <3>1 DEF In, OnceEach, OnceRing
        <3>2. CASE f \in work
            BY <1>3, <2>2, <3>2 DEF OnceEach, OnceRing
        <3> QED BY <1>3, <3>1, <3>2 DEF Flying
    <2> QED BY <1>3, <2>1, <2>2 DEF Flying
<1>4. ASSUME NEW x, In(cq, x)
      PROVE  x \in Completions /\ x.h \in Callers /\ x.id \in Nat /\ x.ok \in BOOLEAN /\ x.id < nextId
    <2>1. x \in Completions /\ x.id \in Nat /\ x.id < nextId
        BY <1>4, IdTypes DEF In, Fresh, FreshRing
    <2> QED BY <2>1 DEF Completions
<1>5. ASSUME NEW e, NEW x, Flying(e), In(cq, x)
      PROVE  e.id # x.id
    BY <1>5 DEF Flying, In, OnceEach, OnceRing
<1>6. \A l \in live : l.id \in Nat \ {0} /\ l.id < nextId /\ l.who \in Callers
    BY IdTypes DEF Fresh, FreshBooks, Sound, BookType
<1>7. \A a \in abandoned : a.id \in Nat \ {0} /\ a.id < nextId
    BY IdTypes DEF Fresh, FreshBooks
<1>8. /\ \A l, m \in live : l.id = m.id => l = m
      /\ \A l \in live, a \in abandoned : l.id # a.id
    BY DEF OnceEach, OnceBooks
<1>9. ASSUME NEW u, In(undo, u) PROVE u \in Undos /\ u.h \in Callers
    <2>1. undo \in Seq(Undos)
        BY DEF Sound, BookType
    <2>2. u \in Undos
        BY <1>9, <2>1, ElementOfSeq DEF In
    <2> QED BY <2>2 DEF Undos
<1>10. \A c : In(recent, c) => c \in Callers
    <2>1. recent \in Seq(Callers)
        BY DEF Sound, QueueType
    <2> QED BY <2>1, ElementOfSeq DEF In
<1> QED BY <1>1, <1>2, <1>3, <1>4, <1>5, <1>6, <1>7, <1>8, <1>9, <1>10

\* Reading the first completion leaves the others, of other ids and other exits.
LEMMA FirstRead ==
    ASSUME IInv, ExitsOnce, cq # <<>>, cq' = Tail(cq)
    PROVE  /\ In(cq, Head(cq))
           /\ \A x : In(cq', x) => In(cq, x)
           /\ \A x : In(cq, x) => In(cq', x) \/ x = Head(cq)
           /\ Head(cq).id # 0 => \A x : In(cq', x) => x.id # Head(cq).id
           /\ Head(cq).id = 0 => \A x : In(cq', x) /\ ExitOf(x) => x.h # Head(cq).h
           /\ \A i, j \in 1..Len(cq') : ExitOf(cq'[i]) /\ ExitOf(cq'[j]) /\ cq'[i].h = cq'[j].h => i = j
<1>1. /\ Len(cq') = Len(cq) - 1 /\ Len(cq) \in Nat \ {0}
      /\ \A i \in 1..Len(cq') : cq'[i] = cq[i + 1] /\ i + 1 \in 1..Len(cq) /\ i + 1 # 1
      /\ cq[1] = Head(cq) /\ 1 \in 1..Len(cq)
    BY PopCompletion DEF IInv
<1>2. In(cq, Head(cq)) /\ \A x : In(cq, x) <=> In(cq', x) \/ x = Head(cq)
    BY InTail DEF IInv, Sound, EngineType
<1>3. ASSUME NEW i \in 1..Len(cq')
      PROVE  /\ Head(cq).id # 0 => cq'[i].id # Head(cq).id
             /\ Head(cq).id = 0 /\ ExitOf(cq'[i]) => cq'[i].h # Head(cq).h
    BY <1>1 DEF IInv, OnceEach, OnceRing, ExitsOnce, ExitOf
<1>4. ASSUME NEW i \in 1..Len(cq'), NEW j \in 1..Len(cq'),
             ExitOf(cq'[i]), ExitOf(cq'[j]), cq'[i].h = cq'[j].h
      PROVE  i = j
    <2>1. i + 1 = j + 1
        BY <1>1, <1>4 DEF ExitsOnce
    <2> QED BY <2>1
<1> QED BY <1>2, <1>3, <1>4 DEF In

\* The engine's newest completion, when it is not a second exit.
LEMMA OneMore ==
    ASSUME IInv, ExitsOnce, NEW new \in Completions, cq' = Append(cq, new),
           ExitOf(new) => ~ Over(new.h)
    PROVE  /\ \A x : In(cq', x) <=> In(cq, x) \/ x = new
           /\ \A i, j \in 1..Len(cq') : ExitOf(cq'[i]) /\ ExitOf(cq'[j]) /\ cq'[i].h = cq'[j].h => i = j
<1>0. cq \in Seq(Completions)
    BY DEF IInv, Sound, EngineType
<1>1. /\ Len(cq') = Len(cq) + 1 /\ Len(cq) \in Nat
      /\ \A i \in 1..Len(cq) : cq'[i] = cq[i]
      /\ cq'[Len(cq) + 1] = new
    BY <1>0, AppendProperties
<1>2. ASSUME NEW i \in 1..Len(cq')
      PROVE  (i \in 1..Len(cq) /\ cq'[i] = cq[i]) \/ (i = Len(cq) + 1 /\ cq'[i] = new)
    BY ONLY <1>1, i \in 1..Len(cq')
<1>3. \A i \in 1..Len(cq) : ExitOf(cq[i]) => Over(cq[i].h)
    BY DEF ExitsOnce, In
<1>4. \A i, j \in 1..Len(cq') : ExitOf(cq'[i]) /\ ExitOf(cq'[j]) /\ cq'[i].h = cq'[j].h => i = j
    BY <1>2, <1>3 DEF ExitsOnce
<1> QED BY <1>0, <1>4, InAppended

\* Answers stay before exits when the first completion is read.
LEMMA FirstsRead ==
    ASSUME IInv, AnswersFirst, cq # <<>>, cq' = Tail(cq),
           \A x : In(cq', x) => (OwnAnswer(x)' => OwnAnswer(x))
    PROVE  /\ AnswersFirst'
           /\ ExitOf(Head(cq)) => \A x : In(cq, x) /\ OwnAnswer(x) => x.h # Head(cq).h
<1>1. /\ Len(cq') = Len(cq) - 1 /\ Len(cq) \in Nat \ {0}
      /\ \A i \in 1..Len(cq') : cq'[i] = cq[i + 1] /\ i + 1 \in 1..Len(cq) /\ i + 1 # 1
      /\ cq[1] = Head(cq) /\ 1 \in 1..Len(cq)
    BY PopCompletion DEF IInv
<1>2. ASSUME NEW i \in 1..Len(cq'), NEW j \in 1..Len(cq'), NEW x, x = cq'[i],
             ExitOf(cq'[j]), OwnAnswer(x)', x.h = cq'[j].h
      PROVE  i < j
    <2>1. In(cq', x)
        BY <1>2 DEF In
    <2>2. OwnAnswer(x)
        BY <1>2, <2>1
    <2>3. i + 1 < j + 1
        BY <1>1, <1>2, <2>2 DEF AnswersFirst
    <2> QED BY <2>3
<1>3. AnswersFirst'
    <2> SUFFICES ASSUME NEW i \in 1..Len(cq'), NEW j \in 1..Len(cq'), NEW x, x = cq'[i],
                        ExitOf(cq'[j]), OwnAnswer(x)', x.h = cq'[j].h
                 PROVE  i < j
        BY DEF AnswersFirst
    <2> QED BY <1>2
<1>4. ASSUME ExitOf(Head(cq)), NEW x, In(cq, x), OwnAnswer(x), x.h = Head(cq).h PROVE FALSE
    <2>1. PICK i \in 1..Len(cq) : cq[i] = x
        BY <1>4 DEF In
    <2>2. i < 1
        BY <1>1, <1>4, <2>1 DEF AnswersFirst
    <2> QED BY <2>2
<1> QED BY <1>3, <1>4

\* The same with one completion more, unless it answers after the exit.
LEMMA FirstsMore ==
    ASSUME IInv, AnswersFirst, NEW new \in Completions, cq' = Append(cq, new), UNCHANGED abandoned,
           OwnAnswer(new) => \A x : In(cq, x) /\ ExitOf(x) => x.h # new.h
    PROVE  AnswersFirst'
<1>1. /\ Len(cq') = Len(cq) + 1 /\ Len(cq) \in Nat
      /\ \A i \in 1..Len(cq) : cq'[i] = cq[i]
      /\ cq'[Len(cq) + 1] = new
    BY AppendProperties DEF IInv, Sound, EngineType
<1>2. ASSUME NEW i \in 1..Len(cq')
      PROVE  (i \in 1..Len(cq) /\ cq'[i] = cq[i]) \/ (i = Len(cq) + 1 /\ cq'[i] = new)
    BY ONLY <1>1, i \in 1..Len(cq')
<1>3. \A x : OwnAnswer(x)' <=> OwnAnswer(x)
    BY DEF OwnAnswer
<1>4. \A x : OwnAnswer(x) => ~ ExitOf(x)
    BY DEF OwnAnswer, ExitOf
<1>5. ASSUME NEW i \in 1..Len(cq'), NEW j \in 1..Len(cq'), NEW x, x = cq'[i], NEW y, y = cq'[j],
             ExitOf(y), OwnAnswer(x), x.h = y.h
      PROVE  i < j
    <2>1. CASE i \in 1..Len(cq) /\ j \in 1..Len(cq)
        BY <1>1, <1>5, <2>1 DEF AnswersFirst
    <2>2. CASE i = Len(cq) + 1
        <3>1. x = new /\ y # new
            BY <1>1, <1>4, <1>5, <2>2
        <3>2. In(cq, y)
            BY <1>2, <1>5, <3>1 DEF In
        <3> QED BY <1>5, <3>1, <3>2
    <2>3. CASE i \in 1..Len(cq) /\ j = Len(cq) + 1
        BY <1>1, <2>3
    <2> QED BY <1>2, <2>1, <2>2, <2>3
<1> SUFFICES ASSUME NEW i \in 1..Len(cq'), NEW j \in 1..Len(cq'), NEW x, x = cq'[i],
                    ExitOf(cq'[j]), OwnAnswer(x)', x.h = cq'[j].h
             PROVE  i < j
    BY DEF AnswersFirst
<1> QED BY <1>3, <1>5

\* What neither the ring's entries nor what is known of them disturbs.
LEMMA SameFates ==
    ASSUME RgInv, UNCHANGED <<live, abandoned, undo, orphans, cq, made>>,
           \A e : Flying(e)' <=> Flying(e),
           \A c \in Callers : status[c] = "timeout" => status'[c] = "timeout"
    PROVE  Awaited' /\ AnswersFirst' /\ ExitDue' /\ ReleasedOnce' /\ GivenUpBefore'
<1> USE DEF RgInv, Accounts
<1>1. Awaited' /\ AnswersFirst'
    BY DEF Awaited, InRing, AnswersFirst, OwnAnswer
<1>2. ExitDue'
    BY DEF ExitDue, AskedFor, ExitToCome
<1>3. ReleasedOnce'
    BY DEF ReleasedOnce
<1>4. GivenUpBefore'
    <2>1. \A c : (Releasing(c)' <=> Releasing(c)) /\ (AskedFor(c)' <=> AskedFor(c)) /\ (Holds(c)' <=> Holds(c))
        BY DEF Releasing, AskedFor, Holds
    <2>2. \A c \in orphans : c \in Callers
        BY DEF IInv, Sound, BookType
    <2> QED BY <2>1, <2>2 DEF GivenUpBefore, OneOwner
<1> QED BY <1>1, <1>2, <1>3, <1>4

\* A caller asks, grows older or leaves.
LEMMA CallerStep ==
    ASSUME RgInv, NEW c \in Callers, Send(c) \/ Ageing(c) \/ StopWaiting(c)
    PROVE  Accounts'
<1> USE DEF RgInv, Accounts
<1>1. /\ UNCHANGED <<parked, live, abandoned, undo, orphans, sq, work, cq, made, recent>>
      /\ DOMAIN status = Callers /\ DOMAIN age = Callers
    BY DEF Send, Ageing, StopWaiting, threadVars, engineVars, IInv, Sound, CallerType
<1>2. /\ \A x \in Callers : Owed(x) => Owed(x)'
      /\ \A x \in Callers : Left(x) => Left(x)'
      /\ \A x \in Callers : status[x]' = "ok" <=> status[x] = "ok"
      /\ \A x \in Callers : status[x]' = "idle" => status[x] = "idle"
      /\ \A x \in Callers : status[x] = "timeout" => status[x]' = "timeout"
    <2>1. CASE Send(c)
        BY <1>1, <2>1 DEF Send, Owed, Left
    <2>2. CASE Ageing(c)
        BY <1>1, <2>2 DEF Ageing, Owed, Left
    <2>3. CASE StopWaiting(c)
        BY <1>1, <2>3 DEF StopWaiting, Owed, Left
    <2> QED BY <2>1, <2>2, <2>3
<1>3. /\ AskedOnce'
      /\ \A x \in Callers : NotYet(x)' => NotYet(x)
    <2>1. CASE UNCHANGED queue
        BY <1>1, <1>2, <2>1 DEF AskedOnce, OnItsWay, NotYet
    <2>2. CASE Send(c)
        <3>1. queue' = Append(queue, c) /\ queue \in Seq(Callers) /\ status[c] = "idle" /\ Owed(c)'
            BY <1>1, <2>2 DEF Send, IInv, Sound, QueueType, Owed
        <3>2. ~ OnItsWay(c)
            BY <3>1 DEF AskedOnce, Owed, Left
        <3>3. /\ \A x : In(queue', x) <=> In(queue, x) \/ x = c
              /\ Uniq(queue')
            BY <3>1, <3>2, InAppended DEF AskedOnce, OnItsWay
        <3> QED BY <1>1, <1>2, <3>1, <3>2, <3>3 DEF AskedOnce, OnItsWay, NotYet
    <2> QED BY <2>1, <2>2 DEF Ageing, StopWaiting, threadVars
<1>4. OneOwner' /\ NotYetAsked'
    BY <1>1, <1>2, <1>3, OnceIn DEF OneOwner, NotYetAsked
<1>5. EntriesKnown' /\ ExitsOnce'
    BY <1>1 DEF EntriesKnown, Known, KnownLive, KnownLate, UndoFits, Over, Flying, ExitsOnce
<1>6. MadeAsSaid'
    BY <1>1, <1>2 DEF MadeAsSaid, OwnAnswer, Flying
<1>7. TakenBack'
    BY <1>1, <1>2 DEF TakenBack, Holds, Releasing, AskedFor, Flying
<1>8. Awaited' /\ AnswersFirst' /\ ExitDue' /\ ReleasedOnce' /\ GivenUpBefore'
    <2>1. \A e : Flying(e)' <=> Flying(e)
        BY <1>1 DEF Flying
    <2> QED BY <1>1, <1>2, <2>1, SameFates
<1> QED BY <1>3, <1>4, <1>5, <1>6, <1>7, <1>8

\* Steps that change nothing the accounts are about.
LEMMA SameAccounts ==
    ASSUME RgInv, UNCHANGED <<status, age, live, abandoned, undo, orphans, cq, made>>,
           Uniq(queue'), Uniq(parked'), \A x : ~ (In(queue', x) /\ In(parked', x)),
           \A x : OnItsWay(x)' => OnItsWay(x),
           \A e : Flying(e)' <=> Flying(e),
           Uniq(recent'), \A x : In(recent', x) => In(recent, x)
    PROVE  Accounts'
<1> USE DEF RgInv, Accounts
<1>1. AskedOnce' /\ OneOwner' /\ NotYetAsked'
    BY DEF AskedOnce, Owed, Left, OneOwner, NotYetAsked, NotYet
<1>2. EntriesKnown'
    BY DEF EntriesKnown, Known, KnownLive, KnownLate, UndoFits, Over
<1>3. MadeAsSaid'
    BY DEF MadeAsSaid, OwnAnswer
<1>4. TakenBack'
    BY DEF TakenBack, Holds, Releasing, AskedFor, Left
<1>5. ExitsOnce'
    BY DEF ExitsOnce, Over
<1> QED BY <1>1, <1>2, <1>3, <1>4, <1>5, SameFates

\* The thread takes up a request that was on its way: it keeps it, puts it on
\* the ring, or answers it.
Kept(c) == UNCHANGED <<status, live, sq>>
Told(c) ==
    /\ ~ OnItsWay(c)' /\ UNCHANGED <<live, sq>>
    /\ \E answer \in {"failed", "full", "timeout"} : Reply(c, answer)
PutOn(c) ==
    /\ ~ OnItsWay(c)' /\ UNCHANGED status
    /\ sq' = Append(sq, [id |-> nextId, op |-> OpOf[c], h |-> c])
    /\ live' = live \cup {[id |-> nextId, who |-> c]}

\* Whichever it is, the accounts hold.
LEMMA Handled ==
    ASSUME RgInv, NEW c \in Callers, OnItsWay(c),
           UNCHANGED <<age, abandoned, orphans, undo, recent, work, cq, made>>,
           \A x : OnItsWay(x)' => OnItsWay(x),
           Uniq(queue'), Uniq(parked'), \A x : ~ (In(queue', x) /\ In(parked', x)),
           Kept(c) \/ Told(c) \/ PutOn(c)
    PROVE  Accounts'
<1> USE DEF RgInv, Accounts
<1>0. /\ DOMAIN status = Callers /\ sq \in Seq(Entries) /\ OpOf[c] \in Ops /\ nextId \in Ids
    BY OpAssumption DEF IInv, Sound, CallerType, EngineType, QueueType
<1>1. /\ Owed(c) /\ NotYet(c) /\ made[c] = "none"
      /\ \A l \in live : l.who # c
      /\ \A a \in abandoned : Own(a) => a.signal # c
    BY DEF AskedOnce, NotYet, NotYetAsked
<1>2. CASE Kept(c)
    <2>1. \A e : Flying(e)' <=> Flying(e)
        BY <1>2 DEF Kept, Flying
    <2>2. Uniq(recent') /\ \A x : In(recent', x) => In(recent, x)
        BY DEF ExitsOnce
    <2> QED BY <1>2, <2>1, <2>2, SameAccounts DEF Kept
<1>3. CASE Told(c)
    <2>1. /\ \A x \in Callers : x # c => (Owed(x) => Owed(x)')
          /\ \A x \in Callers : Left(x) => Left(x)'
          /\ \A x \in Callers : status[x]' = "ok" <=> status[x] = "ok"
          /\ \A x \in Callers : x # c => status[x]' = status[x]
          /\ status[c]' # "idle"
          /\ \A x \in Callers : status[x] = "timeout" => status[x]' = "timeout"
        BY <1>0, <1>1, <1>3 DEF Told, Reply, Owed, Left
    <2>2. /\ UNCHANGED <<live, sq>> /\ ~ OnItsWay(c)'
        BY <1>3 DEF Told
    <2>3. AskedOnce' /\ \A x \in Callers : NotYet(x)' => NotYet(x)
        BY <2>1, <2>2 DEF AskedOnce, NotYet
    <2>4. OneOwner' /\ NotYetAsked'
        BY <1>1, <2>1, <2>2, <2>3, OnceIn DEF OneOwner, NotYetAsked
    <2>5. EntriesKnown' /\ ExitsOnce'
        BY <2>2 DEF EntriesKnown, Known, KnownLive, KnownLate, UndoFits, Over, Flying, ExitsOnce
    <2>6. MadeAsSaid'
        BY <2>1, <2>2 DEF MadeAsSaid, OwnAnswer, Flying
    <2>7. TakenBack'
        BY <2>1, <2>2 DEF TakenBack, Holds, Releasing, AskedFor, Flying
    <2>8. Awaited' /\ AnswersFirst' /\ ExitDue' /\ ReleasedOnce' /\ GivenUpBefore'
        <3>1. \A e : Flying(e)' <=> Flying(e)
            BY <2>2 DEF Flying
        <3> QED BY <2>1, <2>2, <3>1, SameFates
    <2> QED BY <2>3, <2>4, <2>5, <2>6, <2>7, <2>8
<1>4. CASE PutOn(c)
    <2>0. PICK new, one : /\ new = [id |-> nextId, op |-> OpOf[c], h |-> c]
                          /\ one = [id |-> nextId, who |-> c]
        OBVIOUS
    <2>1. /\ UNCHANGED status /\ ~ OnItsWay(c)'
          /\ sq' = Append(sq, new) /\ live' = live \cup {one}
          /\ new \in Entries /\ new.id = nextId /\ new.op = OpOf[c] /\ new.h = c
          /\ one.id = nextId /\ one.who = c
        BY <1>0, <1>4, <2>0 DEF PutOn, Entries
    <2>2. \A e : Flying(e)' <=> Flying(e) \/ e = new
        BY <1>0, <2>1, InAppended DEF Flying
    <2>3. AskedOnce' /\ \A x \in Callers : NotYet(x)' => NotYet(x) /\ x # c
        <3>1. status[c] # "idle"
            BY <1>1 DEF Owed, Left
        <3> QED BY <2>1, <3>1 DEF AskedOnce, NotYet, Owed, Left
    <2>4. OneOwner'
        BY <1>1, <2>1 DEF OneOwner, Owed, Left
    <2>5. NotYetAsked'
        BY <2>1, <2>3 DEF NotYetAsked
    <2>6. EntriesKnown'
        <3>1. \A id, h, op : Known(id, h, op) => Known(id, h, op)'
            BY <2>1 DEF Known, KnownLive, KnownLate, UndoFits, Over
        <3>2. Known(new.id, new.h, new.op)'
            BY <2>1 DEF Known, KnownLive
        <3>3. \A u : In(undo, u) => UndoFits(u.op, u.h, u.signal)'
            BY DEF EntriesKnown, UndoFits, Over
        <3> QED BY <2>2, <3>1, <3>2, <3>3 DEF EntriesKnown
    <2>7. MadeAsSaid'
        BY <1>1, <2>1, <2>2 DEF MadeAsSaid, OwnAnswer
    <2>8. TakenBack' /\ ExitsOnce'
        BY <2>1, <2>2 DEF TakenBack, Holds, Releasing, AskedFor, Left, ExitsOnce, Over
    <2>9. Awaited' /\ AnswersFirst'
        BY <2>1, <2>2 DEF Awaited, InRing, AnswersFirst, OwnAnswer
    <2>10. \A x : AskedFor(x)' <=> AskedFor(x) \/ x = c
        BY <2>1 DEF AskedFor
    <2>11. new.op # "Release"
        BY <1>0, <2>1 DEF Ops, Creating
    <2>12. \A x : Releasing(x)' <=> Releasing(x)
        BY <2>2, <2>11 DEF Releasing
    <2>13. c \notin orphans /\ ~ Releasing(c)
        BY <1>1 DEF GivenUpBefore, Holds
    <2>14. ExitDue' /\ ReleasedOnce'
        BY <1>1, <2>2, <2>10, <2>11 DEF ExitDue, ExitToCome, ReleasedOnce
    <2>15. GivenUpBefore'
        BY <1>1, <2>1, <2>10, <2>12, <2>13 DEF GivenUpBefore, Holds
    <2> QED BY <2>3, <2>4, <2>5, <2>6, <2>7, <2>8, <2>9, <2>14, <2>15
<1> QED BY <1>2, <1>3, <1>4

\* place is one of the three, with the parked as `rest` says.
LEMMA PlaceHandles ==
    ASSUME RgInv, NEW c \in Callers, NEW rest \in Seq(Callers), Place(c, rest),
           Uniq(rest), ~ In(rest, c), ~ In(queue', c)
    PROVE  /\ Uniq(parked') /\ \A x : In(parked', x) => In(rest, x) \/ x = c
           /\ Kept(c) \/ Told(c) \/ PutOn(c)
<1>1. CASE parked' = Append(rest, c) /\ UNCHANGED <<status, live, sq>>
    BY <1>1, InAppended DEF Kept
<1>2. CASE parked' = rest /\ (Reply(c, "failed") \/ QueueFull(c)) /\ UNCHANGED <<live, sq>>
    <2>1. ~ OnItsWay(c)'
        BY <1>2 DEF OnItsWay
    <2> QED BY <1>2, <2>1 DEF Told, QueueFull
<1>3. CASE parked' = rest /\ Submitted(c)
    <2>1. ~ OnItsWay(c)'
        BY <1>3 DEF OnItsWay
    <2> QED BY <1>3, <2>1 DEF PutOn, Submitted
<1> QED BY <1>1, <1>2, <1>3 DEF Place, QueueFull

\* A parked request tried again, a new one received, a parked one looked at.
LEMMA RequestStep ==
    ASSUME RgInv, RetryParked \/ Receive \/ Retain
    PROVE  Accounts'
<1>0. /\ queue \in Seq(Callers) /\ parked \in Seq(Callers) /\ Len(parked) \in Nat /\ left \in Nat
      /\ Uniq(queue) /\ Uniq(parked) /\ \A x : ~ (In(queue, x) /\ In(parked, x))
    BY DEF RgInv, Accounts, IInv, Sound, QueueType, AskedOnce
<1>1. CASE RetryParked
    <2>0. PICK c, rest : c = Head(parked) /\ rest = Tail(parked)
        OBVIOUS
    <2>1. /\ parked # <<>> /\ Place(c, rest) /\ UNCHANGED queue
          /\ UNCHANGED <<age, abandoned, orphans, undo, recent, work, cq, made>>
        BY <1>0, <1>1, <2>0 DEF RetryParked, PlaceOnly, RgInv, IInv, Sound, Rounds
    <2>2. /\ c \in Callers /\ rest \in Seq(Callers) /\ Uniq(rest) /\ ~ In(rest, c)
          /\ \A x : In(parked, x) <=> In(rest, x) \/ x = c
        BY <1>0, <2>0, <2>1, InTail
    <2>3. ~ In(queue', c) /\ OnItsWay(c)
        BY <1>0, <2>1, <2>2 DEF OnItsWay
    <2>4. /\ Uniq(parked') /\ \A x : In(parked', x) => In(rest, x) \/ x = c
          /\ Kept(c) \/ Told(c) \/ PutOn(c)
        BY <2>1, <2>2, <2>3, PlaceHandles
    <2>5. /\ Uniq(queue') /\ \A x : OnItsWay(x)' => OnItsWay(x)
          /\ \A x : ~ (In(queue', x) /\ In(parked', x))
        BY <1>0, <2>1, <2>2, <2>4 DEF OnItsWay
    <2> QED BY <2>1, <2>2, <2>3, <2>4, <2>5, Handled
<1>2. CASE Receive
    <2>0. PICK c : c = Head(queue)
        OBVIOUS
    <2>1. /\ queue # <<>> /\ queue' = Tail(queue)
          /\ UNCHANGED <<age, abandoned, orphans, undo, recent, work, cq, made>>
          /\ \/ Reply(c, "timeout") /\ UNCHANGED <<parked, sq, live>>
             \/ Place(c, parked)
        BY <1>2, <2>0 DEF Receive, PlaceOnly
    <2>2. /\ c \in Callers /\ Uniq(queue') /\ ~ In(queue', c)
          /\ \A x : In(queue, x) <=> In(queue', x) \/ x = c
        BY <1>0, <2>0, <2>1, InTail
    <2>3. ~ In(parked, c) /\ OnItsWay(c)
        BY <1>0, <2>2 DEF OnItsWay
    <2>4. /\ Uniq(parked') /\ \A x : In(parked', x) => In(parked, x) \/ x = c
          /\ Kept(c) \/ Told(c) \/ PutOn(c)
        <3>1. CASE Place(c, parked)
            BY <1>0, <2>2, <2>3, <3>1, PlaceHandles
        <3>2. CASE Reply(c, "timeout") /\ UNCHANGED <<parked, sq, live>>
            BY <1>0, <2>2, <2>3, <3>2 DEF Told, OnItsWay
        <3> QED BY <2>1, <3>1, <3>2
    <2>5. /\ \A x : OnItsWay(x)' => OnItsWay(x)
          /\ \A x : ~ (In(queue', x) /\ In(parked', x))
        BY <1>0, <2>2, <2>3, <2>4 DEF OnItsWay
    <2> QED BY <2>1, <2>2, <2>3, <2>4, <2>5, Handled
<1>3. CASE Retain
    <2>0. PICK c, rest : c = Head(parked) /\ rest = Tail(parked)
        OBVIOUS
    <2>1. /\ parked # <<>> /\ UNCHANGED <<queue, live, sq>>
          /\ UNCHANGED <<age, abandoned, orphans, undo, recent, work, cq, made>>
          /\ \/ Reply(c, "timeout") /\ parked' = rest
             \/ parked' = Append(rest, c) /\ UNCHANGED status
        BY <1>0, <1>3, <2>0 DEF Retain, RgInv, IInv, Sound, Rounds, engineVars
    <2>2. /\ c \in Callers /\ rest \in Seq(Callers) /\ Uniq(rest) /\ ~ In(rest, c)
          /\ \A x : In(parked, x) <=> In(rest, x) \/ x = c
        BY <1>0, <2>0, <2>1, InTail
    <2>3. ~ In(queue', c) /\ OnItsWay(c)
        BY <1>0, <2>1, <2>2 DEF OnItsWay
    <2>4. /\ Uniq(parked') /\ \A x : In(parked', x) => In(rest, x) \/ x = c
          /\ Kept(c) \/ Told(c) \/ PutOn(c)
        <3>1. CASE Reply(c, "timeout") /\ parked' = rest
            BY <2>1, <2>2, <2>3, <3>1 DEF Told, OnItsWay
        <3>2. CASE parked' = Append(rest, c) /\ UNCHANGED status
            BY <2>1, <2>2, <3>2, InAppended DEF Kept
        <3> QED BY <2>1, <3>1, <3>2
    <2>5. /\ Uniq(queue') /\ \A x : OnItsWay(x)' => OnItsWay(x)
          /\ \A x : ~ (In(queue', x) /\ In(parked', x))
        BY <1>0, <2>1, <2>2, <2>4 DEF OnItsWay
    <2> QED BY <2>1, <2>2, <2>3, <2>4, <2>5, Handled
<1> QED BY <1>1, <1>2, <1>3

\* An undo is put on the ring.
LEMMA UndoStep ==
    ASSUME RgInv, SubmitUndo
    PROVE  Accounts'
<1> USE DEF RgInv, Accounts
<1>0. PICK u, new, mark :
        /\ u = Head(undo)
        /\ new = [id |-> nextId, op |-> u.op, h |-> u.h]
        /\ mark = [id |-> nextId, op |-> u.op, signal |-> u.signal]
    OBVIOUS
<1>1. /\ undo \in Seq(Undos) /\ undo # <<>> /\ undo' = Tail(undo)
      /\ sq \in Seq(Entries) /\ sq' = Append(sq, new) /\ abandoned' = abandoned \cup {mark}
      /\ UNCHANGED <<status, age, queue, parked, live, orphans, recent, work, cq, made>>
    BY <1>0 DEF SubmitUndo, callerVars, IInv, Sound, BookType, EngineType
<1>2. u \in Undos /\ In(undo, u) /\ \A x : In(undo, x) <=> In(undo', x) \/ x = u
    BY <1>0, <1>1, InTail
<1>3. /\ new.id = nextId /\ new.op = u.op /\ new.h = u.h
      /\ mark.id = nextId /\ mark.op = u.op /\ mark.signal = u.signal
      /\ u.op \in {"Stop", "Release"} /\ u.op \notin Ops /\ ~ Own(mark)
      /\ UndoFits(u.op, u.h, u.signal)
    BY <1>0, <1>2 DEF Undos, Own, Ops, Creating, EntriesKnown
<1>4. new \in Entries
    BY <1>0, <1>2 DEF Undos, Entries, IInv, Sound, QueueType
<1>5. \A e : Flying(e)' <=> Flying(e) \/ e = new
    BY <1>1, <1>4, InAppended DEF Flying
<1>6. AskedOnce' /\ OneOwner' /\ NotYetAsked'
    <2>1. \A a \in abandoned : a.id # mark.id
        BY <1>3, OnceIn
    <2>2. OneOwner'
        BY <1>1, <1>3, <2>1 DEF OneOwner, Owed, Left
    <2> QED BY <1>1, <1>3, <2>2 DEF AskedOnce, OnItsWay, Owed, Left, NotYetAsked, NotYet
<1>7. EntriesKnown'
    <2>1. \A id, h, op : Known(id, h, op) => Known(id, h, op)'
        BY <1>1 DEF Known, KnownLive, KnownLate, UndoFits, Over
    <2>2. Known(new.id, new.h, new.op)'
        BY <1>1, <1>3 DEF Known, KnownLate, UndoFits, Over
    <2>3. \A x : In(undo', x) => UndoFits(x.op, x.h, x.signal)'
        BY <1>1, <1>2 DEF EntriesKnown, UndoFits, Over
    <2> QED BY <1>1, <1>5, <2>1, <2>2, <2>3 DEF EntriesKnown
<1>8. MadeAsSaid'
    <2>1. \A x : In(cq, x) => (OwnAnswer(x)' <=> OwnAnswer(x))
        BY <1>1, <1>3, OnceIn DEF OwnAnswer
    <2> QED BY <1>1, <1>3, <1>5, <2>1 DEF MadeAsSaid
<1>9. TakenBack'
    <2>1. \A c : Releasing(c) => Releasing(c)'
        BY <1>2, <1>3, <1>5 DEF Releasing
    <2> QED BY <1>1, <2>1 DEF TakenBack, Holds, AskedFor, Left
<1>10. ExitsOnce'
    BY <1>1 DEF ExitsOnce, Over
<1>11. Awaited' /\ AnswersFirst' /\ ExitDue'
    <2>1. \A id : InRing(id) => InRing(id)'
        BY <1>1, <1>5 DEF InRing
    <2>2. InRing(mark.id)'
        BY <1>3, <1>5 DEF InRing
    <2>3. Awaited'
        BY <1>1, <2>1, <2>2 DEF Awaited
    <2>4. \A x : OwnAnswer(x)' => OwnAnswer(x)
        BY <1>1 DEF OwnAnswer
    <2>5. \A c : AskedFor(c)' <=> AskedFor(c)
        BY <1>1, <1>3 DEF AskedFor
    <2> QED BY <1>1, <2>3, <2>4, <2>5 DEF AnswersFirst, ExitDue, ExitToCome
<1>12. ReleasedOnce'
    <2>1. OneRelease(undo') /\ (u.op = "Release" => \A x : In(undo', x) /\ x.op = "Release" => x.h # u.h)
        BY <1>0, <1>1, OneReleaseLess DEF ReleasedOnce
    <2> QED BY <1>2, <1>3, <1>5, <2>1 DEF ReleasedOnce
<1>13. GivenUpBefore'
    <2>1. \A c : (Releasing(c)' <=> Releasing(c)) /\ (AskedFor(c)' <=> AskedFor(c)) /\ (Holds(c)' <=> Holds(c))
        BY <1>1, <1>2, <1>3, <1>5 DEF Releasing, AskedFor, Holds
    <2> QED BY <1>1, <1>3, <2>1 DEF GivenUpBefore
<1> QED BY <1>6, <1>7, <1>8, <1>9, <1>10, <1>11, <1>12, <1>13

\* A caller is answered.
LEMMA AnsweredStep ==
    ASSUME RgInv, Complete, Answered(Head(cq))
    PROVE  Accounts'
<1> USE DEF RgInv, Accounts
<1>0. PICK e : e = Head(cq)
    OBVIOUS
<1>1. PICK l \in live : /\ l.id = e.id /\ live' = live \ {l}
                        /\ Reply(l.who, IF e.ok THEN "ok" ELSE "failed")
                        /\ UNCHANGED <<abandoned, undo, orphans>>
    BY <1>0 DEF Answered
<1>2. /\ cq # <<>> /\ cq' = Tail(cq) /\ e.id # 0
      /\ UNCHANGED <<age, queue, parked, recent, sq, work, made>>
      /\ DOMAIN status = Callers
    BY <1>0 DEF Complete, IInv, Sound, CallerType
<1>3. /\ In(cq, e) /\ \A x : In(cq', x) => In(cq, x) /\ x.id # e.id
      /\ \A x : In(cq, x) => In(cq', x) \/ x = e
      /\ \A i, j \in 1..Len(cq') : ExitOf(cq'[i]) /\ ExitOf(cq'[j]) /\ cq'[i].h = cq'[j].h => i = j
    BY <1>0, <1>2, FirstRead
<1>4. /\ l.who = e.h /\ l.who \in Callers
      /\ OpOf[e.h] \in Creating => (made[e.h] = "none" <=> ~ e.ok)
    <2>1. l.who = e.h /\ OwnAnswer(e) /\ l.who \in Callers
        BY <1>1, <1>2, <1>3, OnceIn DEF EntriesKnown, Known, KnownLive, KnownLate, OwnAnswer
    <2> QED BY <1>3, <2>1 DEF MadeAsSaid
<1>5. /\ \A x \in Callers : x # l.who => status[x]' = status[x]
      /\ \A x \in Callers : (Left(x) => Left(x)') /\ (status[x] = "timeout" => status[x]' = "timeout")
      /\ status[l.who]' # "idle" /\ ~ NotYet(l.who)
      /\ \/ status[l.who]' = "ok" /\ (e.ok \/ status[l.who] = "ok")
         \/ ~ e.ok \/ Left(l.who)'
    <2>1. Owed(l.who) /\ ~ NotYet(l.who)
        BY <1>4 DEF OneOwner, NotYetAsked
    <2> QED BY <1>1, <1>2, <1>4, <2>1 DEF Reply, Owed, Left
<1>6. AskedOnce' /\ \A x \in Callers : NotYet(x)' => NotYet(x)
    BY <1>2, <1>4, <1>5 DEF AskedOnce, NotYet, OnItsWay, Owed, Left
<1>7. OneOwner'
    <2>1. \A m \in live' : m.who # l.who /\ m.who \in Callers
        BY <1>1, OnceIn DEF OneOwner
    <2> QED BY <1>1, <1>2, <1>5, <2>1 DEF OneOwner, Owed, Left
<1>8. NotYetAsked'
    BY <1>1, <1>2, <1>6 DEF NotYetAsked
<1>9. EntriesKnown'
    <2>1. \A id, h, op : id # e.id /\ Known(id, h, op) => Known(id, h, op)'
        BY <1>1, <1>2 DEF Known, KnownLive, KnownLate, UndoFits, Over
    <2>2. \A f : Flying(f) => f.id # e.id
        BY <1>3, OnceIn
    <2>3. \A u : In(undo, u) => UndoFits(u.op, u.h, u.signal)'
        BY <1>2 DEF EntriesKnown, UndoFits, Over
    <2> QED BY <1>1, <1>2, <1>3, <2>1, <2>2, <2>3 DEF EntriesKnown, Flying
<1>10. MadeAsSaid'
    <2>1. \A c \in Callers : status[c]' = "ok" /\ OpOf[c] \in Creating => made[c] # "none"
        <3>1. ASSUME status[l.who]' = "ok", OpOf[l.who] \in Creating PROVE made[l.who] # "none"
            BY <1>1, <1>2, <1>4, <3>1 DEF Reply, MadeAsSaid
        <3> QED BY <1>5, <3>1 DEF MadeAsSaid
    <2> QED BY <1>1, <1>2, <1>3, <2>1 DEF MadeAsSaid, OwnAnswer, Flying
<1>11. TakenBack'
    <2>1. ASSUME NEW c \in Callers, Holds(c)
          PROVE  status[c]' = "ok" \/ Left(c)' \/ (c \in orphans \/ Releasing(c) \/ AskedFor(c))'
        <3>1. CASE c = l.who
            <4>1. e.ok
                BY <1>2, <1>4, <2>1, <3>1, OpAssumption DEF Holds, MadeAsSaid, Ops
            <4> QED BY <1>5, <3>1, <4>1
        <3>2. CASE c # l.who
            <4>1. AskedFor(c) => AskedFor(c)'
                BY <1>1, <3>2 DEF AskedFor
            <4>2. (Releasing(c) => Releasing(c)') /\ (c \in orphans => c \in orphans')
                BY <1>1, <1>2 DEF Releasing, Flying
            <4> QED BY <1>5, <2>1, <3>2, <4>1, <4>2 DEF TakenBack
        <3> QED BY <3>1, <3>2
    <2> QED BY <1>1, <1>2, <2>1 DEF TakenBack, Holds
<1>12. ExitsOnce'
    BY <1>2, <1>3 DEF ExitsOnce, Over
<1>13. Awaited' /\ AnswersFirst' /\ ExitDue' /\ ReleasedOnce'
    <2>1. \A id : id # e.id /\ InRing(id) => InRing(id)'
        BY <1>2, <1>3 DEF InRing, Flying
    <2>2. Awaited'
        BY <1>1, <2>1, OnceIn DEF Awaited
    <2>3. \A x : OwnAnswer(x)' <=> OwnAnswer(x)
        BY <1>1 DEF OwnAnswer
    <2>4. AnswersFirst'
        BY <1>2, <2>3, FirstsRead
    <2>5. \A c : ExitToCome(c) => ExitToCome(c)'
        BY <1>2, <1>3 DEF ExitToCome, ExitOf
    <2>6. ExitDue' /\ ReleasedOnce'
        BY <1>1, <1>2, <2>5 DEF ExitDue, AskedFor, ReleasedOnce, Flying
    <2> QED BY <2>2, <2>4, <2>6
<1>14. GivenUpBefore'
    <2>1. \A c : (Releasing(c)' <=> Releasing(c)) /\ (AskedFor(c)' => AskedFor(c)) /\ (Holds(c)' <=> Holds(c))
        BY <1>1, <1>2 DEF Releasing, AskedFor, Holds, Flying
    <2>2. \A c \in orphans : c \in Callers
        BY DEF IInv, Sound, BookType
    <2> QED BY <1>1, <1>2, <1>5, <2>1, <2>2 DEF GivenUpBefore, OneOwner
<1> QED BY <1>6, <1>7, <1>8, <1>9, <1>10, <1>11, <1>12, <1>13, <1>14

\* What was made for nobody any more is to be undone.
LEMMA LateStep ==
    ASSUME RgInv, Complete, AnsweredLate(Head(cq))
    PROVE  Accounts'
<1> USE DEF RgInv, Accounts
<1>0. PICK e : e = Head(cq)
    OBVIOUS
<1>1. PICK a \in abandoned : /\ a.id = e.id /\ abandoned' = abandoned \ {a}
                             /\ undo' = undo \o LateUndo(a, e) /\ orphans' = OrphansWith(a, e)
                             /\ UNCHANGED <<status, live>>
    BY <1>0 DEF AnsweredLate
<1>2. /\ cq # <<>> /\ cq' = Tail(cq) /\ e.id # 0
      /\ UNCHANGED <<age, queue, parked, recent, sq, work, made>>
    BY <1>0 DEF Complete
<1>3. /\ In(cq, e) /\ \A x : In(cq', x) => In(cq, x) /\ x.id # e.id
      /\ \A x : In(cq, x) => In(cq', x) \/ x = e
      /\ \A i, j \in 1..Len(cq') : ExitOf(cq'[i]) /\ ExitOf(cq'[j]) /\ cq'[i].h = cq'[j].h => i = j
    BY <1>0, <1>2, FirstRead
<1>4. /\ e.h \in Callers /\ e.ok \in BOOLEAN /\ \A b \in abandoned : b.id = e.id => b = a
    BY <1>1, <1>3, OnceIn DEF OneOwner
<1>5. Own(a) => a.signal = e.h /\ a.op = OpOf[e.h] /\ OwnAnswer(e)
    <2>1. \E op : KnownLate(e.id, e.h, op)
        BY <1>1, <1>2, <1>3, OnceIn DEF EntriesKnown, Known, KnownLive
    <2> QED BY <1>2, <1>4, <2>1 DEF KnownLate, OneOwner, OwnAnswer
<1>6. Own(a) => (OpOf[e.h] \in Creating => (made[e.h] = "none" <=> ~ e.ok))
    BY <1>3, <1>5 DEF MadeAsSaid
<1>7. PICK u : u = [op |-> UndoOf(a.op), h |-> e.h, signal |-> a.signal]
    OBVIOUS
<1>8. /\ a.op \in Creating => Own(a)
      /\ u.op = UndoOf(a.op) /\ u.h = e.h /\ u.signal = a.signal
      /\ a.op \in Creating => u \in Undos
    <2>1. a.signal \in Callers \cup {Nobody}
        BY DEF IInv, Sound, BookType
    <2> QED BY <1>4, <1>7, <2>1 DEF Own, Ops, Undos, UndoOf
<1>9. LateUndo(a, e) = IF e.ok /\ a.op \in Creating THEN <<u>> ELSE <<>>
    BY <1>7 DEF LateUndo
<1>10. \A x : In(undo', x) <=> In(undo, x) \/ (e.ok /\ a.op \in Creating /\ x = u)
    <2>1. undo \in Seq(Undos)
        BY DEF IInv, Sound, BookType
    <2>2. CASE e.ok /\ a.op \in Creating
        <3>1. undo' = Append(undo, u)
            BY <1>1, <1>8, <1>9, <2>1, <2>2
        <3> QED BY <1>8, <2>1, <2>2, <3>1, InAppended
    <2>3. CASE ~ (e.ok /\ a.op \in Creating)
        <3>1. undo' = undo
            BY <1>1, <1>9, <2>1, <2>3
        <3> QED BY <2>3, <3>1
    <2> QED BY <2>2, <2>3
<1>11. e.ok /\ a.op \in Creating => UndoFits(u.op, u.h, u.signal)
    BY <1>4, <1>5, <1>6, <1>8 DEF UndoFits, UndoOf
<1>12. AskedOnce' /\ OneOwner' /\ NotYetAsked'
    <2>1. OneOwner'
        BY <1>1, <1>2 DEF OneOwner, Owed, Left
    <2> QED BY <1>1, <1>2, <2>1 DEF AskedOnce, OnItsWay, Owed, Left, NotYetAsked, NotYet
<1>13. EntriesKnown'
    <2>1. \A id, h, op : id # e.id /\ Known(id, h, op) => Known(id, h, op)'
        BY <1>1, <1>2 DEF Known, KnownLive, KnownLate, UndoFits, Over
    <2>2. \A f : Flying(f) => f.id # e.id
        BY <1>3, OnceIn
    <2>3. \A x : In(undo', x) => UndoFits(x.op, x.h, x.signal)
        BY <1>10, <1>11 DEF EntriesKnown
    <2>4. \A x : In(undo', x) => UndoFits(x.op, x.h, x.signal)'
        BY <1>2, <2>3 DEF UndoFits, Over
    <2> QED BY <1>2, <1>3, <2>1, <2>2, <2>4 DEF EntriesKnown, Flying
<1>14. MadeAsSaid'
    <2>1. \A x : x.id # e.id => (OwnAnswer(x)' <=> OwnAnswer(x))
        BY <1>1 DEF OwnAnswer
    <2> QED BY <1>1, <1>2, <1>3, <2>1 DEF MadeAsSaid, Flying
<1>15. TakenBack'
    <2>1. \A c : Releasing(c) => Releasing(c)'
        BY <1>2, <1>10 DEF Releasing, Flying
    <2>2. orphans \subseteq orphans'
        BY <1>1 DEF OrphansWith
    <2>3. \A c \in Callers : c # e.h \/ ~ Own(a) => (AskedFor(c) => AskedFor(c)')
        BY <1>1, <1>5 DEF AskedFor
    <2>4. ASSUME Own(a), Holds(e.h) PROVE e.h \in orphans' \/ Releasing(e.h)'
        <3>1. e.ok /\ a.op \in Creating
            BY <1>4, <1>5, <1>6, <2>4, OpAssumption DEF Holds, MadeAsSaid, Ops
        <3>2. CASE a.op = "Spawn"
            BY <1>1, <3>1, <3>2 DEF OrphansWith
        <3>3. CASE a.op # "Spawn"
            BY <1>8, <1>10, <3>1, <3>3 DEF Releasing, UndoOf
        <3> QED BY <3>2, <3>3
    <2>5. \A c \in orphans' : OpOf[c] = "Spawn"
        BY <1>1, <1>5, <1>8 DEF OrphansWith, TakenBack, Own, Ops, Creating
    <2> QED BY <1>1, <1>2, <2>1, <2>2, <2>3, <2>4, <2>5 DEF TakenBack, Holds, Left
<1>16. ExitsOnce'
    BY <1>2, <1>3 DEF ExitsOnce, Over
<1>17. /\ \A c : AskedFor(c)' => AskedFor(c) /\ (Own(a) => c # e.h)
       /\ Own(a) => AskedFor(e.h)
       /\ \A c \in orphans' : c \in orphans \/ (c = e.h /\ e.ok /\ Own(a) /\ a.op = "Spawn")
    <2>1. Own(a) => AskedFor(e.h)
        BY <1>5 DEF AskedFor
    <2>2. \A c : AskedFor(c)' => AskedFor(c)
        BY <1>1 DEF AskedFor
    <2>3. ASSUME Own(a), AskedFor(e.h)' PROVE FALSE
        <3>1. \A l \in live' : l.who # e.h
            BY <1>1, <1>5, <2>3 DEF OneOwner
        <3>2. \A b \in abandoned' : Own(b) => b.signal # e.h
            BY <1>1, <1>5, <2>3 DEF OneOwner
        <3> QED BY <2>3, <3>1, <3>2 DEF AskedFor, Own
    <2> QED BY <1>1, <1>8, <2>1, <2>2, <2>3 DEF OrphansWith, Own, Ops, Creating
<1>18. Awaited' /\ AnswersFirst' /\ ExitDue'
    <2>1. \A id : id # e.id /\ InRing(id) => InRing(id)'
        BY <1>2, <1>3 DEF InRing, Flying
    <2>2. Awaited'
        BY <1>1, <1>4, <2>1, OnceIn DEF Awaited
    <2>3. \A x : x.id # e.id => (OwnAnswer(x)' <=> OwnAnswer(x))
        BY <1>1 DEF OwnAnswer
    <2>4. AnswersFirst'
        BY <1>2, <1>3, <2>3, FirstsRead
    <2>5. \A c : ExitToCome(c) => ExitToCome(c)'
        BY <1>2, <1>3 DEF ExitToCome, ExitOf
    <2>6. ExitDue'
        BY <1>2, <1>17, <2>5 DEF ExitDue
    <2> QED BY <2>2, <2>4, <2>6
<1>19. \A x : In(undo', x) /\ x.op = "Release" =>
              In(undo, x) \/ (x = u /\ e.ok /\ Own(a) /\ a.op \in Creating /\ a.op # "Spawn")
    BY <1>8, <1>10 DEF UndoOf
<1>20. Own(a) => ~ Releasing(e.h)
    BY <1>4, <1>17 DEF GivenUpBefore
<1>21. ReleasedOnce'
    <2>1. OneRelease(undo')
        <3>1. undo \in Seq(Undos)
            BY DEF IInv, Sound, BookType
        <3>2. CASE e.ok /\ a.op \in Creating
            <4>1. undo' = Append(undo, u)
                BY <1>1, <1>8, <1>9, <3>1, <3>2
            <4>2. \A x : In(undo, x) /\ x.op = "Release" => x.h # u.h
                BY <1>8, <1>20, <3>2 DEF Releasing
            <4> QED BY <1>8, <3>1, <3>2, <4>1, <4>2, OneReleaseMore DEF ReleasedOnce
        <3>3. CASE ~ (e.ok /\ a.op \in Creating)
            <4>1. undo' = undo
                BY <1>1, <1>9, <3>1, <3>3
            <4> QED BY <4>1 DEF ReleasedOnce
        <3> QED BY <3>2, <3>3
    <2>2. ASSUME NEW x, NEW f, In(undo', x), Flying(f), x.op = "Release", f.op = "Release"
          PROVE  x.h # f.h
        <3>1. CASE In(undo, x)
            BY <2>2, <3>1 DEF ReleasedOnce
        <3>2. CASE x = u /\ Own(a)
            BY <1>8, <1>20, <2>2, <3>2 DEF Releasing
        <3> QED BY <1>19, <2>2, <3>1, <3>2
    <2>3. \A f : Flying(f)' <=> Flying(f)
        BY <1>2 DEF Flying
    <2> QED BY <2>1, <2>2, <2>3 DEF ReleasedOnce
<1>22. GivenUpBefore'
    <2>1. \A c : Holds(c)' <=> Holds(c)
        BY <1>2 DEF Holds
    <2>2. \A c : Releasing(c)' => Releasing(c) \/ (c = e.h /\ e.ok /\ Own(a) /\ a.op \in Creating /\ a.op # "Spawn")
        BY <1>2, <1>8, <1>19 DEF Releasing, Flying
    <2>3. e.ok /\ Own(a) /\ a.op \in Creating => Holds(e.h) /\ status[e.h] = "timeout"
        <3>1. made[e.h] \in {"none", "up", "stopping", "exited", "gone", "kept"}
            BY <1>4 DEF IInv, Sound, EngineType
        <3> QED BY <1>4, <1>5, <1>6, <1>17, <3>1 DEF GivenUpBefore, Holds
    <2>4. \A c \in Callers : Releasing(c)' => Holds(c)' /\ status[c]' = "timeout"
        BY <1>1, <2>1, <2>2, <2>3 DEF GivenUpBefore
    <2>5. ASSUME NEW c \in orphans'
          PROVE  Holds(c)' /\ status[c]' = "timeout" /\ ~ Releasing(c)' /\ ~ AskedFor(c)'
        <3>1. CASE c \in orphans
            <4>1. Own(a) => c # e.h
                BY <1>17, <3>1 DEF GivenUpBefore
            <4> QED BY <1>1, <1>17, <2>1, <2>2, <3>1, <4>1 DEF GivenUpBefore
        <3>2. CASE c = e.h /\ e.ok /\ Own(a) /\ a.op = "Spawn"
            <4>1. a.op \in Creating
                BY <3>2 DEF Creating
            <4> QED BY <1>1, <1>17, <1>20, <2>1, <2>2, <2>3, <3>2, <4>1
        <3> QED BY <1>17, <3>1, <3>2
    <2>6. \A c \in Callers : AskedFor(c)' => ~ Releasing(c)' /\ made'[c] \notin {"gone", "kept"}
        BY <1>2, <1>17, <2>2 DEF GivenUpBefore
    <2> QED BY <1>1, <2>4, <2>5, <2>6 DEF GivenUpBefore
<1> QED BY <1>12, <1>13, <1>14, <1>15, <1>16, <1>18, <1>21, <1>22

\* What remembering an exit keeps: it, and all but the oldest of the others.
LEMMA Remembered ==
    ASSUME Sound, Uniq(recent), NEW h \in Callers, ~ In(recent, h)
    PROVE  /\ Uniq(Remember(h)) /\ In(Remember(h), h)
           /\ \A x : In(Remember(h), x) => In(recent, x) \/ x = h
           /\ Len(recent) # RecentMax => \A x : In(recent, x) => In(Remember(h), x)
<1>1. recent \in Seq(Callers)
    BY DEF Sound, QueueType
<1>2. CASE Len(recent) = RecentMax
    <2>1. recent # <<>>
        BY <1>1, <1>2, RingAssumption
    <2>2. /\ Tail(recent) \in Seq(Callers) /\ Uniq(Tail(recent))
          /\ \A x : In(Tail(recent), x) => In(recent, x)
        BY <1>1, <2>1, InTail
    <2>3. Remember(h) = Append(Tail(recent), h)
        BY <1>2 DEF Remember
    <2>4. ~ In(Tail(recent), h)
        BY <2>2
    <2>5. /\ Uniq(Append(Tail(recent), h))
          /\ \A x : In(Append(Tail(recent), h), x) <=> In(Tail(recent), x) \/ x = h
        BY <2>2, <2>4, InAppended
    <2> QED BY <1>2, <2>2, <2>3, <2>5
<1>3. CASE Len(recent) # RecentMax
    <2>1. Remember(h) = Append(recent, h)
        BY <1>3 DEF Remember
    <2> QED BY <1>1, <2>1, InAppended
<1> QED BY <1>2, <1>3

\* A workload's exit is told or remembered, an orphan's thing is to be released.
LEMMA ExitStep ==
    ASSUME RgInv, ExitReported
    PROVE  Accounts'
<1> USE DEF RgInv, Accounts
<1>0. PICK h, u : h = Head(cq).h /\ u = [op |-> "Release", h |-> h, signal |-> Nobody]
    OBVIOUS
<1>1. /\ cq # <<>> /\ cq' = Tail(cq) /\ Head(cq).id = 0
      /\ undo' = IF h \in orphans THEN Append(undo, u) ELSE undo
      /\ orphans' = orphans \ {h}
      /\ recent' = recent \/ recent' = Remember(h)
      /\ UNCHANGED <<status, age, queue, parked, live, abandoned, sq, work, made>>
    BY <1>0 DEF ExitReported
<1>2. /\ In(cq, Head(cq)) /\ \A x : In(cq', x) => In(cq, x) /\ (ExitOf(x) => x.h # h)
      /\ \A x : In(cq, x) => In(cq', x) \/ x = Head(cq)
      /\ \A i, j \in 1..Len(cq') : ExitOf(cq'[i]) /\ ExitOf(cq'[j]) /\ cq'[i].h = cq'[j].h => i = j
    BY <1>0, <1>1, FirstRead
<1>3. h \in Callers /\ OpOf[h] = "Spawn" /\ Over(h) /\ ~ In(recent, h)
    BY <1>0, <1>1, <1>2, OnceIn DEF ExitsOnce, ExitOf
<1>4. /\ u \in Undos /\ u.op = "Release" /\ u.h = h /\ u.signal = Nobody
      /\ UndoFits(u.op, u.h, u.signal)
    BY <1>0, <1>3 DEF Undos, UndoFits, Over, Creating
<1>5. \A x : In(undo', x) <=> In(undo, x) \/ (h \in orphans /\ x = u)
    <2>1. undo \in Seq(Undos)
        BY DEF IInv, Sound, BookType
    <2> QED BY <1>1, <1>4, <2>1, InAppended
<1>6. AskedOnce' /\ OneOwner' /\ NotYetAsked'
    BY <1>1 DEF AskedOnce, OnItsWay, Owed, Left, OneOwner, NotYetAsked, NotYet
<1>7. EntriesKnown'
    <2>1. \A id, x, op : Known(id, x, op) => Known(id, x, op)'
        BY <1>1 DEF Known, KnownLive, KnownLate, UndoFits, Over
    <2>2. \A x : In(undo', x) => UndoFits(x.op, x.h, x.signal)
        BY <1>4, <1>5 DEF EntriesKnown
    <2>3. \A x : In(undo', x) => UndoFits(x.op, x.h, x.signal)'
        BY <1>1, <2>2 DEF UndoFits, Over
    <2> QED BY <1>1, <1>2, <2>1, <2>3 DEF EntriesKnown, Flying
<1>8. MadeAsSaid'
    BY <1>1, <1>2 DEF MadeAsSaid, OwnAnswer, Flying
<1>9. TakenBack'
    <2>1. \A c : Releasing(c) => Releasing(c)'
        BY <1>1, <1>5 DEF Releasing, Flying
    <2>2. \A c \in orphans : c \in orphans' \/ Releasing(c)'
        BY <1>1, <1>4, <1>5 DEF Releasing
    <2>3. \A c : AskedFor(c) => AskedFor(c)'
        BY <1>1 DEF AskedFor
    <2> QED BY <1>1, <2>1, <2>2, <2>3 DEF TakenBack, Holds, Left
<1>10. ExitsOnce'
    <2>1. Uniq(recent') /\ \A x : In(recent', x) => In(recent, x) \/ x = h
        <3>1. CASE recent' = recent
            BY <3>1 DEF ExitsOnce
        <3>2. CASE recent' = Remember(h)
            BY <1>3, <3>2, Remembered DEF ExitsOnce, IInv
        <3> QED BY <1>1, <3>1, <3>2
    <2> QED BY <1>1, <1>2, <1>3, <2>1 DEF ExitsOnce, Over
<1>11. AnswersFirst' /\ \A x : In(cq, x) /\ OwnAnswer(x) => x.h # h
    <2>1. \A x : OwnAnswer(x)' <=> OwnAnswer(x)
        BY <1>1 DEF OwnAnswer
    <2> QED BY <1>0, <1>1, <2>1, FirstsRead DEF ExitOf
\* Its own answer was read before.
<1>12. ~ AskedFor(h)
    <2> SUFFICES ASSUME AskedFor(h) PROVE FALSE
        OBVIOUS
    <2>1. PICK id : /\ InRing(id) /\ id # 0
                    /\ \A a \in abandoned : a.id = id => Own(a) /\ a.signal = h
                    /\ \A l \in live : l.id = id => l.who = h
        <3>1. CASE \E l \in live : l.who = h
            BY <3>1, OnceIn DEF Awaited
        <3>2. CASE \E a \in abandoned : Own(a) /\ a.signal = h
            BY <3>2, OnceIn DEF Awaited, OneOwner
        <3> QED BY <3>1, <3>2 DEF AskedFor
    <2>2. CASE \E e : Flying(e) /\ e.id = id
        <3>1. PICK e : Flying(e) /\ e.id = id
            BY <2>2
        <3>2. e.h = h /\ e.op \in Ops
            BY <2>1, <3>1, <1>3, OpAssumption DEF EntriesKnown, Known, KnownLive, KnownLate, Own
        <3> QED BY <1>3, <3>1, <3>2 DEF MadeAsSaid, Over
    <2>3. CASE \E x : In(cq, x) /\ x.id = id
        <3>1. PICK x : In(cq, x) /\ x.id = id
            BY <2>3
        <3>2. x.h = h /\ OwnAnswer(x)
            BY <2>1, <3>1 DEF EntriesKnown, Known, KnownLive, KnownLate, OwnAnswer
        <3> QED BY <1>11, <3>1, <3>2
    <2> QED BY <2>1, <2>2, <2>3 DEF InRing
<1>13. Awaited' /\ ExitDue'
    <2>1. \A id : id # 0 /\ InRing(id) => InRing(id)'
        BY <1>1, <1>2 DEF InRing, Flying
    <2>2. Awaited'
        BY <1>1, <2>1, OnceIn DEF Awaited
    <2>3. \A c : c # h /\ ExitToCome(c) => ExitToCome(c)'
        BY <1>0, <1>2 DEF ExitToCome
    <2>4. \A c : AskedFor(c)' <=> AskedFor(c)
        BY <1>1 DEF AskedFor
    <2> QED BY <1>1, <1>12, <2>2, <2>3, <2>4 DEF ExitDue
<1>14. h \in orphans => ~ Releasing(h)
    BY DEF GivenUpBefore
<1>15. ReleasedOnce'
    <2>1. OneRelease(undo')
        <3>1. undo \in Seq(Undos)
            BY DEF IInv, Sound, BookType
        <3>2. CASE h \in orphans
            <4>1. \A x : In(undo, x) /\ x.op = "Release" => x.h # u.h
                BY <1>4, <1>14, <3>2 DEF Releasing
            <4> QED BY <1>1, <1>4, <3>1, <3>2, <4>1, OneReleaseMore DEF ReleasedOnce
        <3>3. CASE h \notin orphans
            BY <1>1, <3>3 DEF ReleasedOnce
        <3> QED BY <3>2, <3>3
    <2>2. \A x, f : In(undo', x) /\ Flying(f) /\ x.op = "Release" /\ f.op = "Release" => x.h # f.h
        BY <1>4, <1>5, <1>14 DEF ReleasedOnce, Releasing
    <2>3. \A f : Flying(f)' <=> Flying(f)
        BY <1>1 DEF Flying
    <2> QED BY <2>1, <2>2, <2>3 DEF ReleasedOnce
<1>16. GivenUpBefore'
    <2>1. \A c : (Holds(c)' <=> Holds(c)) /\ (AskedFor(c)' <=> AskedFor(c))
        BY <1>1 DEF Holds, AskedFor
    <2>2. \A c : Releasing(c)' => Releasing(c) \/ (c = h /\ h \in orphans)
        BY <1>1, <1>4, <1>5 DEF Releasing, Flying
    <2> QED BY <1>1, <1>12, <2>1, <2>2 DEF GivenUpBefore
<1> QED BY <1>6, <1>7, <1>8, <1>9, <1>10, <1>11, <1>13, <1>15, <1>16

\* What is past its deadline on the ring is given up.
LEMMA ExpireStep ==
    ASSUME RgInv, Expire
    PROVE  Accounts'
<1> USE DEF RgInv, Accounts
<1>1. /\ live' = live \ LateLive
      /\ abandoned' = abandoned \cup {GivenUp(l) : l \in LateLive}
      /\ status' = [c \in Callers |-> IF c \in LateCallers /\ status[c] = "waiting"
                                        THEN "timeout" ELSE status[c]]
      /\ UNCHANGED <<age, queue, parked, orphans, undo, recent, sq, work, cq, made>>
    BY DEF Expire, engineVars
<1>2. LateLive \subseteq live /\ \A c : c \in LateCallers <=> \E l \in LateLive : l.who = c
    BY DEF LateLive, LateCallers
<1>3. \A l \in LateLive : /\ GivenUp(l).id = l.id /\ GivenUp(l).op = OpOf[l.who]
                          /\ GivenUp(l).signal = l.who /\ l.who \in Callers /\ Own(GivenUp(l))
    BY <1>2, OnceIn, OpAssumption DEF GivenUp, Own
<1>4. /\ \A c \in Callers : c \notin LateCallers => status[c]' = status[c]
      /\ \A c \in Callers : Left(c) => Left(c)'
      /\ \A c \in Callers : status[c]' = "ok" <=> status[c] = "ok"
      /\ \A c \in Callers : status[c]' = "idle" <=> status[c] = "idle"
    BY <1>1 DEF Left
<1>5. \A l \in live' : l \in live /\ l.who \notin LateCallers
    BY <1>1, <1>2 DEF OneOwner
<1>6. AskedOnce' /\ \A c \in Callers : NotYet(c)' => NotYet(c)
    <2>1. \A c \in Callers : OnItsWay(c) => c \notin LateCallers
        BY <1>2 DEF NotYetAsked, NotYet
    <2> QED BY <1>1, <1>4, <2>1 DEF AskedOnce, OnItsWay, NotYet, Owed, Left
<1>7. OneOwner'
    <2>1. \A a \in abandoned' : a \in abandoned \/ \E l \in LateLive : a = GivenUp(l)
        BY <1>1
    <2>2. ASSUME NEW a \in abandoned', NEW b \in abandoned',
                 a.id = b.id \/ (Own(a) /\ Own(b) /\ a.signal = b.signal)
          PROVE  a = b
        <3>1. CASE a \in abandoned /\ b \in abandoned
            BY <2>2, <3>1 DEF OneOwner
        <3>2. ASSUME NEW l \in LateLive, a = GivenUp(l), b \in abandoned PROVE FALSE
            BY <1>2, <1>3, <2>2, <3>2, OnceIn DEF OneOwner
        <3>3. ASSUME NEW l \in LateLive, b = GivenUp(l), a \in abandoned PROVE FALSE
            BY <1>2, <1>3, <2>2, <3>3, OnceIn DEF OneOwner
        <3>4. ASSUME NEW l \in LateLive, NEW m \in LateLive, a = GivenUp(l), b = GivenUp(m)
              PROVE  a = b
            <4>1. l = m
                BY <1>2, <1>3, <2>2, <3>4, OnceIn DEF OneOwner
            <4> QED BY <3>4, <4>1
        <3> QED BY <2>1, <3>1, <3>2, <3>3, <3>4
    <2>3. \A l \in live', a \in abandoned' : Own(a) => a.signal # l.who
        BY <1>2, <1>3, <1>5, <2>1 DEF OneOwner
    <2>4. \A l, m \in live' : l.who = m.who => l = m
        BY <1>5 DEF OneOwner
    <2>5. \A l \in live' : Owed(l.who)'
        BY <1>1, <1>4, <1>5, OnceIn DEF OneOwner, Owed, Left
    <2>6. \A a \in abandoned' : Own(a) => a.signal \in Callers /\ a.op = OpOf[a.signal]
        BY <1>3, <2>1 DEF OneOwner
    <2> QED BY <2>2, <2>3, <2>4, <2>5, <2>6 DEF OneOwner, Own
<1>8. NotYetAsked'
    BY <1>1, <1>2, <1>3, <1>6 DEF NotYetAsked, Own
<1>9. EntriesKnown'
    <2>1. \A id, h, op : Known(id, h, op) => Known(id, h, op)'
        <3>1. ASSUME NEW id, NEW h, NEW op, NEW l \in live, l.id = id, l.who = h, op = OpOf[h]
              PROVE  Known(id, h, op)'
            <4>1. CASE l \in LateLive
                <5>1. GivenUp(l) \in abandoned'
                    BY <1>1, <4>1
                <5>2. PICK a : a = GivenUp(l)
                    OBVIOUS
                <5> QED BY <1>3, <3>1, <4>1, <5>1, <5>2 DEF Known, KnownLate, Own
            <4>2. CASE l \notin LateLive
                BY <1>1, <3>1, <4>2 DEF Known, KnownLive
            <4> QED BY <4>1, <4>2
        <3>2. \A id, h, op : KnownLate(id, h, op) => KnownLate(id, h, op)'
            BY <1>1 DEF KnownLate, UndoFits, Over, Own
        <3> QED BY <3>1, <3>2 DEF Known, KnownLive
    <2>2. \A u : In(undo, u) => UndoFits(u.op, u.h, u.signal)'
        BY <1>1 DEF EntriesKnown, UndoFits, Over
    <2> QED BY <1>1, <2>1, <2>2 DEF EntriesKnown, Flying
<1>10. MadeAsSaid'
    BY <1>1, <1>4 DEF MadeAsSaid, OwnAnswer, Flying
<1>11. TakenBack'
    <2>1. \A c \in Callers : AskedFor(c) => AskedFor(c)'
        <3>1. ASSUME NEW c \in Callers, NEW l \in live, l.who = c PROVE AskedFor(c)'
            <4>1. CASE l \in LateLive
                <5>1. PICK a : a = GivenUp(l)
                    OBVIOUS
                <5>2. a \in abandoned' /\ Own(a) /\ a.signal = c
                    BY <1>1, <1>3, <3>1, <4>1, <5>1
                <5> QED BY <5>2 DEF AskedFor, Own
            <4>2. CASE l \notin LateLive
                BY <1>1, <3>1, <4>2 DEF AskedFor
            <4> QED BY <4>1, <4>2
        <3> QED BY <1>1, <3>1 DEF AskedFor, Own
    <2> QED BY <1>1, <1>4, <2>1 DEF TakenBack, Holds, Releasing, Flying
<1>12. ExitsOnce'
    BY <1>1 DEF ExitsOnce, Over
<1>13. \A c : AskedFor(c)' => AskedFor(c)
    BY <1>1, <1>2, <1>3 DEF AskedFor, Own
<1>14. Awaited' /\ AnswersFirst' /\ ExitDue' /\ ReleasedOnce'
    <2>1. \A id : InRing(id)' <=> InRing(id)
        BY <1>1 DEF InRing, Flying
    <2>2. Awaited'
        BY <1>1, <1>2, <1>3, <2>1 DEF Awaited
    <2>3. \A x : OwnAnswer(x)' => OwnAnswer(x)
        BY <1>1 DEF OwnAnswer, Own
    <2>4. AnswersFirst'
        BY <1>1, <2>3 DEF AnswersFirst
    <2> QED BY <1>1, <1>13, <2>2, <2>4 DEF ExitDue, ExitToCome, ReleasedOnce, Flying
<1>15. GivenUpBefore'
    <2>1. \A c : (Holds(c)' <=> Holds(c)) /\ (Releasing(c)' <=> Releasing(c))
        BY <1>1 DEF Holds, Releasing, Flying
    <2>2. \A c \in Callers : status[c] = "timeout" => status[c]' = "timeout"
        BY <1>1
    <2>3. \A l \in LateLive : status[l.who]' = "timeout"
        BY <1>1, <1>2, <1>3 DEF OneOwner, Owed, Left
    <2>4. \A a \in abandoned' : Own(a) => status'[a.signal] = "timeout"
        <3>1. \A a \in abandoned' : a \in abandoned \/ \E l \in LateLive : a = GivenUp(l)
            BY <1>1
        <3> QED BY <1>3, <2>2, <2>3, <3>1 DEF GivenUpBefore, OneOwner
    <2>5. \A c \in orphans : c \in Callers
        BY DEF IInv, Sound, BookType
    <2>6. /\ \A c \in Callers : Releasing(c)' => Holds(c)' /\ status[c]' = "timeout"
          /\ \A c \in orphans : Holds(c)' /\ status[c]' = "timeout" /\ ~ Releasing(c)' /\ ~ AskedFor(c)'
          /\ \A c \in Callers : AskedFor(c)' => ~ Releasing(c)' /\ made[c] \notin {"gone", "kept"}
        BY <1>13, <2>1, <2>2, <2>5 DEF GivenUpBefore
    <2> QED BY <1>1, <2>4, <2>6 DEF GivenUpBefore, Own
<1> QED BY <1>6, <1>7, <1>8, <1>9, <1>10, <1>11, <1>12, <1>14, <1>15

\* A workload of the engine's ends.
LEMMA EndStep ==
    ASSUME RgInv, NEW h \in Callers, Exit(h)
    PROVE  Accounts'
<1> USE DEF RgInv, Accounts
<1>0. PICK new : new = [id |-> 0, ok |-> TRUE, h |-> h]
    OBVIOUS
<1>1. /\ made' = [made EXCEPT ![h] = "exited"] /\ cq' = Append(cq, new)
      /\ OpOf[h] = "Spawn" /\ made[h] \in {"up", "stopping"} /\ DOMAIN made = Callers
      /\ UNCHANGED <<status, age, queue, parked, live, abandoned, orphans, undo, recent, sq, work>>
    BY <1>0 DEF Exit, callerVars, threadVars, IInv, Sound, EngineType
<1>2. new \in Completions /\ new.id = 0 /\ new.h = h /\ ~ Over(h)
    BY <1>0, <1>1 DEF Completions, Over
<1>3. /\ \A x : In(cq', x) <=> In(cq, x) \/ x = new
      /\ \A i, j \in 1..Len(cq') : ExitOf(cq'[i]) /\ ExitOf(cq'[j]) /\ cq'[i].h = cq'[j].h => i = j
    BY <1>1, <1>2, OneMore
<1>4. /\ made'[h] = "exited" /\ \A c \in Callers : c # h => made'[c] = made[c]
      /\ \A c \in Callers : Over(c) => Over(c)'
      /\ \A c \in Callers : made'[c] = "none" <=> made[c] = "none"
      /\ \A c \in Callers : Holds(c)' => Holds(c)
    BY <1>1 DEF Over, Holds
<1>5. AskedOnce' /\ OneOwner' /\ NotYetAsked'
    BY <1>1, <1>4 DEF AskedOnce, OnItsWay, Owed, Left, OneOwner, NotYetAsked, NotYet
<1>6. EntriesKnown'
    <2>1. \A c \in Callers : \A op, signal : UndoFits(op, c, signal) => UndoFits(op, c, signal)'
        BY <1>4 DEF UndoFits
    <2>2. \A c \in Callers : \A id, op : Known(id, c, op) => Known(id, c, op)'
        BY <1>1, <2>1 DEF Known, KnownLive, KnownLate
    <2> QED BY <1>1, <1>2, <1>3, <2>1, <2>2, OnceIn DEF EntriesKnown, Flying
<1>7. MadeAsSaid'
    BY <1>1, <1>2, <1>3, <1>4, OnceIn DEF MadeAsSaid, OwnAnswer, Flying
<1>8. TakenBack'
    BY <1>1, <1>4 DEF TakenBack, Releasing, AskedFor, Left, Flying
<1>9. ExitsOnce'
    <2>1. ~ In(recent, h)
        BY <1>2 DEF ExitsOnce
    <2>2. Over(h)'
        BY <1>4 DEF Over
    <2> QED BY <1>1, <1>2, <1>3, <1>4, <2>1, <2>2, OnceIn DEF ExitsOnce
<1>10. \A c : (AskedFor(c)' <=> AskedFor(c)) /\ (Releasing(c)' <=> Releasing(c))
    BY <1>1 DEF AskedFor, Releasing, Flying
<1>11. Awaited' /\ AnswersFirst' /\ ExitDue' /\ ReleasedOnce'
    <2>1. \A id : InRing(id) => InRing(id)'
        BY <1>1, <1>3 DEF InRing, Flying
    <2>2. Awaited'
        BY <1>1, <2>1 DEF Awaited
    <2>3. AnswersFirst'
        BY <1>1, <1>2, FirstsMore DEF OwnAnswer
    <2>4. ExitToCome(h)' /\ \A c : ExitToCome(c) => ExitToCome(c)'
        BY <1>2, <1>3 DEF ExitToCome, ExitOf
    <2>5. ExitDue'
        BY <1>1, <1>4, <1>10, <2>4 DEF ExitDue
    <2> QED BY <1>1, <2>2, <2>3, <2>5 DEF ReleasedOnce, Flying
<1>12. GivenUpBefore'
    <2>1. \A c \in Callers : (Holds(c) => Holds(c)')
                           /\ (made'[c] \in {"gone", "kept"} => made[c] \in {"gone", "kept"})
        BY <1>4 DEF Holds
    <2>2. \A c \in orphans : c \in Callers
        BY DEF IInv, Sound, BookType
    <2> QED BY <1>1, <1>10, <2>1, <2>2 DEF GivenUpBefore
<1> QED BY <1>5, <1>6, <1>7, <1>8, <1>9, <1>11, <1>12

\* The engine takes an entry, or a caller waits for an exit.
LEMMA TakeStep ==
    ASSUME RgInv, Dispatch \/ \E c \in Callers : WaitExit(c)
    PROVE  Accounts'
<1> USE DEF RgInv, Accounts
<1>1. /\ UNCHANGED <<status, age, queue, parked, live, abandoned, undo, orphans, cq, made>>
      /\ Uniq(queue') /\ Uniq(parked') /\ \A x : ~ (In(queue', x) /\ In(parked', x))
      /\ \A x : OnItsWay(x)' => OnItsWay(x)
    <2>1. UNCHANGED <<status, age, queue, parked, live, abandoned, undo, orphans, cq, made>>
        BY DEF Dispatch, WaitExit, callerVars, threadVars, engineVars
    <2> QED BY <2>1 DEF AskedOnce, OnItsWay
<1>2. CASE Dispatch
    <2>1. sq \in Seq(Entries) /\ sq # <<>> /\ sq' = Tail(sq) /\ work' = work \cup {Head(sq)} /\ UNCHANGED recent
        BY <1>2 DEF Dispatch, threadVars, IInv, Sound, EngineType
    <2>2. \A e : Flying(e)' <=> Flying(e)
        BY <2>1, InTail DEF Flying
    <2>3. Uniq(recent') /\ \A x : In(recent', x) => In(recent, x)
        BY <2>1 DEF ExitsOnce
    <2> QED BY <1>1, <2>2, <2>3, SameAccounts
<1>3. ASSUME NEW c \in Callers, WaitExit(c) PROVE Accounts'
    <2>1. recent \in Seq(Callers) /\ UNCHANGED <<sq, work>>
        BY <1>3 DEF WaitExit, engineVars, IInv, Sound, QueueType
    <2>2. Uniq(recent') /\ \A x : In(recent', x) => In(recent, x)
        <3>1. CASE UNCHANGED recent
            BY <3>1 DEF ExitsOnce
        <3>2. ASSUME NEW i \in 1..Len(recent), recent' = RemoveAt(recent, i)
              PROVE  Uniq(recent') /\ \A x : In(recent', x) => In(recent, x)
            BY <2>1, <3>2, InRemoved DEF ExitsOnce
        <3> QED BY <1>3, <3>1, <3>2 DEF WaitExit
    <2>3. \A e : Flying(e)' <=> Flying(e)
        BY <2>1 DEF Flying
    <2> QED BY <1>1, <2>2, <2>3, SameAccounts
<1> QED BY <1>2, <1>3

\* What an answer does to the handle: an own request makes it or nothing, a stop
\* leaves it made, a release ends it.
Answers(e, ok) ==
    /\ e.op \in Ops => made[e.h] = "none" /\ made'[e.h] = (IF ok /\ e.op \in Creating THEN "up" ELSE "none")
    /\ e.op = "Stop" => made[e.h] # "none" /\ made'[e.h] \in {made[e.h], "stopping"}
                        /\ (made'[e.h] # made[e.h] => made[e.h] = "up")
    /\ e.op = "Release" => made[e.h] # "none" /\ made'[e.h] \in {"gone", "kept"}

\* The engine answers.
LEMMA AnswerStep ==
    ASSUME RgInv, NEW e \in work, Answer(e)
    PROVE  Accounts'
<1> USE DEF RgInv, Accounts
<1>0. PICK ok, new :
        /\ ok \in BOOLEAN /\ made' = [made EXCEPT ![e.h] = IF ok THEN Done(e) ELSE Declined(e)]
        /\ new = [id |-> e.id, ok |-> ok, h |-> e.h] /\ cq' = Append(cq, new)
    BY DEF Answer
<1>1. /\ work' = work \ {e} /\ DOMAIN made = Callers
      /\ UNCHANGED <<status, age, queue, parked, live, abandoned, orphans, undo, recent, sq>>
    BY DEF Answer, callerVars, threadVars, IInv, Sound, EngineType
<1>2. /\ Flying(e) /\ e.h \in Callers /\ e.id \in Nat \ {0} /\ e.op \in Ops \cup {"Stop", "Release"}
      /\ Known(e.id, e.h, e.op)
    <2>1. Flying(e)
        BY DEF Flying
    <2> QED BY <2>1, OnceIn DEF EntriesKnown
<1>3. new \in Completions /\ new.id = e.id /\ new.ok = ok /\ new.h = e.h /\ new.id # 0
    BY <1>0, <1>2 DEF Completions
<1>4. /\ \A x : In(cq', x) <=> In(cq, x) \/ x = new
      /\ \A i, j \in 1..Len(cq') : ExitOf(cq'[i]) /\ ExitOf(cq'[j]) /\ cq'[i].h = cq'[j].h => i = j
    BY <1>0, <1>3, OneMore DEF ExitOf
<1>5. \A f : Flying(f)' <=> Flying(f) /\ f # e
    <2>1. Flying(e)
        BY <1>2
    <2>2. ~ In(sq, e)
        BY <1>2 DEF In, IInv, OnceEach, OnceRing
    <2> QED BY <1>1, <2>2 DEF Flying
\* Whose it is.
<1>6. /\ e.op \in Ops => \/ \E l \in live : l.id = e.id /\ l.who = e.h
                         \/ \E a \in abandoned : a.id = e.id /\ Own(a) /\ a.signal = e.h
      /\ e.op \in Ops => e.op = OpOf[e.h]
      /\ e.op \notin Ops => /\ OpOf[e.h] \in Creating /\ made[e.h] # "none"
                            /\ OpOf[e.h] = "Spawn" /\ e.op = "Release" => Over(e.h)
                            /\ \E a \in abandoned : a.id = e.id /\ ~ Own(a)
    BY <1>2, OpAssumption DEF Known, KnownLive, KnownLate, Own, OneOwner, UndoFits
<1>7. Answers(e, ok)
    <2>1. made'[e.h] = IF ok THEN Done(e) ELSE Declined(e)
        BY <1>0, <1>1, <1>2
    <2>2. CASE e.op \in Ops
        <3>1. made[e.h] = "none"
            BY <1>2, <2>2 DEF MadeAsSaid
        <3>2. Done(e) = (IF e.op \in Creating THEN "up" ELSE "none") /\ Declined(e) = "none"
            BY <2>2, <3>1 DEF Done, Declined, Ops, Creating
        <3> QED BY <2>1, <2>2, <3>1, <3>2 DEF Answers, Ops, Creating
    <2>3. CASE e.op = "Stop"
        <3>1. e.op \notin Ops
            BY <2>3 DEF Ops, Creating
        <3>2. Done(e) = (IF made[e.h] = "up" THEN "stopping" ELSE made[e.h]) /\ Declined(e) = made[e.h]
            BY <2>3 DEF Done, Declined, Creating
        <3> QED BY <1>6, <2>1, <2>3, <3>1, <3>2 DEF Answers
    <2>4. CASE e.op = "Release"
        <3>1. e.op \notin Ops
            BY <2>4 DEF Ops, Creating
        <3>2. Done(e) = "gone" /\ Declined(e) = "kept"
            BY <2>4 DEF Done, Declined, Creating
        <3> QED BY <1>6, <2>1, <2>4, <3>1, <3>2 DEF Answers
    <2> QED BY <1>2, <2>2, <2>3, <2>4
<1>8. e.op \in Ops \/ (e.op = "Stop" /\ e.op \notin Ops) \/ (e.op = "Release" /\ e.op \notin Ops)
    BY <1>2 DEF Ops, Creating
<1>9. /\ \A c \in Callers : c # e.h => made'[c] = made[c]
      /\ \A c \in Callers : Over(c) => Over(c)'
      /\ \A c \in Callers : made[c] # "none" => made'[c] # "none"
    <2>1. \A c \in Callers : c # e.h => made'[c] = made[c]
        BY <1>0, <1>1
    <2>2. (Over(e.h) => Over(e.h)') /\ (made[e.h] # "none" => made'[e.h] # "none")
        BY <1>7, <1>8 DEF Answers, Over
    <2> QED BY <2>1, <2>2 DEF Over
<1>10. AskedOnce' /\ OneOwner' /\ NotYetAsked'
    <2>1. ~ NotYet(e.h)
        BY <1>2, <1>6 DEF NotYetAsked
    <2>2. \A c : NotYet(c)' => NotYet(c)
        BY <1>1 DEF NotYet, OnItsWay
    <2> QED BY <1>1, <1>9, <2>1, <2>2 DEF AskedOnce, OnItsWay, Owed, Left, OneOwner, NotYetAsked
<1>11. EntriesKnown'
    <2>1. \A c \in Callers : \A op, signal : UndoFits(op, c, signal) => UndoFits(op, c, signal)'
        BY <1>9 DEF UndoFits
    <2>2. \A c \in Callers : \A id, op : Known(id, c, op) => Known(id, c, op)'
        BY <1>1, <2>1 DEF Known, KnownLive, KnownLate
    <2>3. \E op : Known(new.id, new.h, op)'
        BY <1>2, <1>3, <2>2
    <2> QED BY <1>1, <1>4, <1>5, <2>1, <2>2, <2>3, OnceIn DEF EntriesKnown
<1>12. MadeAsSaid'
    <2>1. \A x : OwnAnswer(x)' <=> OwnAnswer(x)
        BY <1>1 DEF OwnAnswer
    <2>2. ASSUME NEW f, Flying(f), f # e, f.op \in Ops
          PROVE  f.h # e.h
        <3>1. f.id # e.id /\ made[f.h] = "none" /\ Known(f.id, f.h, f.op)
            BY <1>2, <2>2, OnceIn DEF MadeAsSaid, EntriesKnown
        <3>2. \/ \E l \in live : l.id = f.id /\ l.who = f.h
              \/ \E a \in abandoned : a.id = f.id /\ Own(a) /\ a.signal = f.h
            BY <2>2, <3>1 DEF Known, KnownLive, KnownLate, Own
        <3> QED BY <1>6, <3>1, <3>2 DEF OneOwner
    <2>3. ASSUME NEW x, In(cq, x), OwnAnswer(x), e.op \in Ops
          PROVE  x.h # e.h
        <3>1. x.id # e.id /\ \E op : Known(x.id, x.h, op)
            BY <1>2, <2>3, OnceIn DEF EntriesKnown, OwnAnswer
        <3>2. \/ \E l \in live : l.id = x.id /\ l.who = x.h
              \/ \E a \in abandoned : a.id = x.id /\ Own(a) /\ a.signal = x.h
            BY <2>3, <3>1 DEF Known, KnownLive, KnownLate, OwnAnswer
        <3> QED BY <1>6, <2>3, <3>1, <3>2 DEF OneOwner
    <2>4. \A f : Flying(f)' /\ f.op \in Ops => made'[f.h] = "none"
        BY <1>5, <1>9, <2>2, OnceIn DEF MadeAsSaid
    <2>5. ASSUME NEW x, In(cq', x), OwnAnswer(x), OpOf[x.h] \in Creating
          PROVE  made'[x.h] = "none" <=> ~ x.ok
        <3>1. CASE x = new
            <4>1. e.op \in Ops
                BY <1>3, <1>6, <2>5, <3>1 DEF OwnAnswer
            <4> QED BY <1>3, <1>6, <1>7, <2>5, <3>1, <4>1 DEF Answers
        <3>2. CASE In(cq, x) /\ x.h # e.h
            BY <1>9, <2>5, <3>2, OnceIn DEF MadeAsSaid
        <3>3. CASE In(cq, x) /\ x.h = e.h
            <4>1. e.op \notin Ops
                BY <2>3, <2>5, <3>3
            <4>2. (made[x.h] = "none" <=> ~ x.ok) /\ made[e.h] # "none"
                BY <1>6, <2>5, <3>3, <4>1 DEF MadeAsSaid
            <4> QED BY <1>2, <1>9, <3>3, <4>2
        <3> QED BY <1>4, <2>5, <3>1, <3>2, <3>3
    <2>6. \A c \in Callers : OpOf[c] = "Query" => made'[c] = "none"
        <3>1. OpOf[e.h] = "Query" => made'[e.h] = "none"
            <4>1. "Query" \notin Creating
                BY DEF Creating
            <4> QED BY <1>6, <1>7, <4>1 DEF Answers
        <3> QED BY <1>9, <3>1 DEF MadeAsSaid
    <2>7. \A c \in Callers : status'[c] = "ok" /\ OpOf[c] \in Creating => made'[c] # "none"
        BY <1>1, <1>9 DEF MadeAsSaid
    <2> QED BY <2>1, <2>4, <2>5, <2>6, <2>7 DEF MadeAsSaid
<1>13. TakenBack'
    <2>1. \A c : (AskedFor(c) => AskedFor(c)') /\ (Left(c) => Left(c)')
        BY <1>1 DEF AskedFor, Left
    <2>2. \A c : e.op # "Release" \/ e.h # c => (Releasing(c) => Releasing(c)')
        BY <1>1, <1>5 DEF Releasing
    <2>3. \A c \in Callers : c # e.h => (Holds(c)' => Holds(c))
        BY <1>9 DEF Holds
    <2>4. ASSUME Holds(e.h)'
          PROVE  /\ e.op # "Release"
                 /\ Holds(e.h) \/ AskedFor(e.h)
        <3>1. CASE e.op \in Ops
            BY <1>6, <3>1 DEF AskedFor, Ops, Creating
        <3>2. CASE e.op = "Stop"
            BY <1>7, <2>4, <3>2 DEF Answers, Holds
        <3>3. CASE e.op = "Release"
            BY <1>7, <2>4, <3>3 DEF Answers, Holds
        <3> QED BY <1>2, <3>1, <3>2, <3>3
    <2>5. ASSUME NEW c \in Callers, Holds(c)'
          PROVE  (status[c] = "ok" \/ Left(c) \/ c \in orphans \/ Releasing(c) \/ AskedFor(c))'
        <3>1. \/ AskedFor(c) /\ c = e.h
              \/ Holds(c) /\ (e.op # "Release" \/ e.h # c)
            BY <2>3, <2>4, <2>5
        <3> QED BY <1>1, <2>1, <2>2, <3>1 DEF TakenBack
    <2> QED BY <1>1, <2>5 DEF TakenBack
<1>14. ExitsOnce'
    BY <1>1, <1>3, <1>4, <1>9, OnceIn DEF ExitsOnce, ExitOf
<1>15. /\ \A c : AskedFor(c)' <=> AskedFor(c)
       /\ \A c : Releasing(c)' => Releasing(c)
       /\ e.op = "Release" => Releasing(e.h) /\ ~ Releasing(e.h)'
    <2>1. ASSUME e.op = "Release" PROVE Releasing(e.h) /\ ~ Releasing(e.h)'
        BY <1>1, <1>2, <1>5, <2>1 DEF Releasing, ReleasedOnce
    <2> QED BY <1>1, <1>5, <2>1 DEF AskedFor, Releasing
<1>16. Awaited' /\ AnswersFirst' /\ ExitDue' /\ ReleasedOnce'
    <2>1. \A id : InRing(id) => InRing(id)'
        BY <1>3, <1>4, <1>5 DEF InRing
    <2>2. Awaited'
        BY <1>1, <2>1 DEF Awaited
    <2>3. ASSUME OwnAnswer(new), NEW x, In(cq, x), ExitOf(x) PROVE x.h # new.h
        <3>1. e.op \in Ops
            BY <1>3, <1>6, <2>3 DEF OwnAnswer
        <3>2. made[e.h] = "none" /\ Over(x.h)
            BY <1>7, <2>3, <3>1 DEF Answers, ExitsOnce
        <3> QED BY <1>3, <3>2 DEF Over
    <2>4. AnswersFirst'
        BY <1>0, <1>1, <1>3, <2>3, FirstsMore
    <2>5. \A c \in Callers : made'[c] = "exited" => made[c] = "exited"
        <3>1. made'[e.h] = "exited" => made[e.h] = "exited"
            BY <1>7, <1>8 DEF Answers
        <3> QED BY <1>9, <3>1
    <2>6. \A c : ExitToCome(c) => ExitToCome(c)'
        BY <1>4 DEF ExitToCome
    <2>7. ExitDue'
        BY <1>1, <1>15, <2>5, <2>6 DEF ExitDue
    <2>8. ReleasedOnce'
        BY <1>1, <1>5 DEF ReleasedOnce
    <2> QED BY <2>2, <2>4, <2>7, <2>8
<1>17. GivenUpBefore'
    <2>1. ASSUME Holds(e.h), e.op # "Release" PROVE Holds(e.h)'
        <3>1. e.op = "Stop"
            BY <1>7, <1>8, <2>1 DEF Answers, Holds
        <3> QED BY <1>7, <2>1, <3>1 DEF Answers, Holds
    <2>2. \A c \in Callers : c # e.h => (Holds(c)' <=> Holds(c))
        BY <1>9 DEF Holds
    <2>3. \A c \in Callers : Releasing(c)' => Holds(c)' /\ status[c]' = "timeout"
        BY <1>1, <1>15, <2>1, <2>2 DEF GivenUpBefore
    <2>4. \A c \in orphans : c \in Callers
        BY DEF IInv, Sound, BookType
    <2>5. \A c \in orphans : Holds(c)' /\ status[c]' = "timeout" /\ ~ Releasing(c)' /\ ~ AskedFor(c)'
        BY <1>1, <1>15, <2>1, <2>2, <2>4 DEF GivenUpBefore
    <2>6. AskedFor(e.h) => made'[e.h] \notin {"gone", "kept"}
        <3>1. AskedFor(e.h) => e.op # "Release" /\ made[e.h] \notin {"gone", "kept"}
            BY <1>2, <1>15 DEF GivenUpBefore
        <3> QED BY <1>7, <1>8, <3>1 DEF Answers
    <2>7. \A c \in Callers : AskedFor(c)' => ~ Releasing(c)' /\ made'[c] \notin {"gone", "kept"}
        BY <1>9, <1>15, <2>6 DEF GivenUpBefore
    <2> QED BY <1>1, <2>3, <2>5, <2>7 DEF GivenUpBefore
<1> QED BY <1>10, <1>11, <1>12, <1>13, <1>14, <1>16, <1>17

\* Every step keeps the accounts.
LEMMA AccountsStep ==
    ASSUME RgInv, [Next]_vars
    PROVE  Accounts'
<1>1. CASE UndoneForNow \/ RetriedAll \/ NothingReceived \/ Drained \/ RetainedAll \/ UNCHANGED vars
    <2>1. UNCHANGED <<status, age, queue, parked, live, abandoned, undo, orphans, recent, sq, work, cq, made>>
        BY <1>1 DEF UndoneForNow, RetriedAll, NothingReceived, Drained, RetainedAll, vars, callerVars,
                    threadVars, engineVars
    <2>2. /\ Uniq(queue') /\ Uniq(parked') /\ \A x : ~ (In(queue', x) /\ In(parked', x))
          /\ \A x : OnItsWay(x)' => OnItsWay(x)
          /\ \A e : Flying(e)' <=> Flying(e)
          /\ Uniq(recent') /\ \A x : In(recent', x) => In(recent, x)
        BY <2>1 DEF RgInv, Accounts, AskedOnce, OnItsWay, Flying, ExitsOnce
    <2> QED BY <2>1, <2>2, SameAccounts
<1>2. CASE Complete
    BY <1>2, AnsweredStep, LateStep DEF Complete
<1> QED BY <1>1, <1>2, CallerStep, RequestStep, UndoStep, ExitStep, ExpireStep, EndStep, TakeStep, AnswerStep
        DEF Next, Thread, Engine

\* It holds at the start.
LEMMA InitAccounts == Init => RgInv
<1> SUFFICES ASSUME Init PROVE RgInv
    OBVIOUS
<1>1. /\ status = [c \in Callers |-> "idle"] /\ made = [c \in Callers |-> "none"]
      /\ recent = <<>> /\ queue = <<>> /\ parked = <<>> /\ live = {} /\ abandoned = {} /\ orphans = {}
      /\ undo = <<>> /\ sq = <<>> /\ work = {} /\ cq = <<>>
    BY DEF Init
<1>2. /\ \A x : ~ In(queue, x) /\ ~ In(parked, x) /\ ~ In(recent, x) /\ ~ In(undo, x) /\ ~ In(cq, x)
      /\ \A e : ~ Flying(e)
      /\ Uniq(queue) /\ Uniq(parked) /\ Uniq(recent) /\ Len(cq) = 0
    BY <1>1 DEF In, Uniq, Flying
<1>3. AskedOnce /\ OneOwner /\ NotYetAsked
    BY <1>1, <1>2 DEF AskedOnce, OnItsWay, OneOwner, NotYetAsked
<1>4. EntriesKnown /\ MadeAsSaid /\ TakenBack /\ ExitsOnce
    BY <1>1, <1>2 DEF EntriesKnown, MadeAsSaid, TakenBack, Holds, ExitsOnce
<1>5. /\ Awaited /\ AnswersFirst /\ ExitDue /\ ReleasedOnce
      /\ \A c : ~ Releasing(c) /\ ~ AskedFor(c)
    BY <1>1, <1>2 DEF Awaited, AnswersFirst, ExitDue, ReleasedOnce, OneRelease, Releasing, AskedFor
<1>6. GivenUpBefore
    BY <1>1, <1>5 DEF GivenUpBefore
<1> QED BY <1>3, <1>4, <1>5, <1>6, InitInv DEF RgInv, Accounts

\* The accounts hold throughout.
THEOREM RingAccounts == Spec => []RgInv
<1>1. RgInv /\ [Next]_vars => RgInv'
    BY SoundStep, OrderlyStep, AccountsStep DEF RgInv, IInv
<1> QED BY <1>1, InitAccounts, PTL DEF Spec

\* What the engine holds is somebody's, or will be taken back.
LEMMA AllAccounted == RgInv => Accounted
<1> SUFFICES ASSUME RgInv, NEW c \in Callers, Holds(c)
             PROVE  \/ status[c] = "ok" \/ Left(c)
                    \/ \E l \in live : l.who = c
                    \/ \E a \in abandoned : a.signal = c /\ a.op \in Creating
                    \/ \E i \in 1..Len(undo) : undo[i].h = c
                    \/ \E e \in InFlight : e.h = c
                    \/ c \in orphans
    BY DEF Accounted, Holds
<1> USE DEF RgInv, Accounts
<1>1. CASE AskedFor(c)
    <2>1. OpOf[c] # "Query"
        BY DEF MadeAsSaid, Holds
    <2> QED BY <1>1, <2>1 DEF AskedFor, OneOwner, Own, Ops
<1>2. CASE Releasing(c)
    <2>1. PICK u : u.h = c /\ (In(undo, u) \/ Flying(u))
        BY <1>2 DEF Releasing
    <2>2. sq \in Seq(Entries)
        BY DEF IInv, Sound, EngineType
    <2>3. Flying(u) => u \in InFlight
        BY <2>2 DEF Flying, InFlight, In, ToSet
    <2> QED BY <2>1, <2>3 DEF In
<1> QED BY <1>1, <1>2 DEF TakenBack

\* A mount whose signal nothing carries is not the engine's any more.
LEMMA SettledGone == RgInv => SettledMeansGone
<1> SUFFICES ASSUME RgInv, NEW c \in Callers, OpOf[c] = "VolumeRegister", status[c] = "timeout",
                    ~ Left(c), ~ SignalHeld(c), Holds(c)
             PROVE  FALSE
    BY DEF SettledMeansGone, Holds, RgInv, IInv, Sound, EngineType
<1> USE DEF RgInv, Accounts
<1>1. Releasing(c)
    BY DEF TakenBack, AskedFor, SignalHeld
<1>2. PICK u : u.h = c /\ u.op = "Release" /\ (In(undo, u) \/ Flying(u))
    BY <1>1 DEF Releasing
<1>3. CASE In(undo, u)
    <2>1. u.signal = c
        BY <1>2, <1>3 DEF EntriesKnown, UndoFits
    <2> QED BY <1>3, <2>1 DEF SignalHeld, In
<1>4. CASE Flying(u)
    <2>1. Known(u.id, c, "Release") /\ "Release" \notin Ops
        BY <1>2, <1>4 DEF EntriesKnown, Ops, Creating
    <2>2. \E a \in abandoned : a.signal = c
        BY <2>1 DEF Known, KnownLive, KnownLate, Own, UndoFits
    <2> QED BY <2>2 DEF SignalHeld
<1> QED BY <1>2, <1>3, <1>4

\* A request given up is neither lost while the engine has what it made nor
\* forgotten before it is undone, whatever the calls, the order the engine
\* answers in and the deadlines (Outstanding::expire, undo_late, orphans).
THEOREM RingGivenUpIsUndone == Spec => []GivenUpIsUndone
<1>1. RgInv => GivenUpIsUndone
    BY AllAccounted, SettledGone DEF GivenUpIsUndone
<1> QED BY <1>1, RingAccounts, PTL

-----------------------------------------------------------------------------
(* What becomes of an exit. *)

Spawns == {c \in Callers : OpOf[c] = "Spawn"}

\* An exit is still to be told, remembered or heard, or RECENT_EXITS others came
\* after it; one remembered was followed by as many as are behind it at least;
\* who waits has missed none but such.
ExitsKept ==
    /\ \A c \in Spawns :
           Over(c) => ExitToCome(c) \/ In(recent, c) \/ waiter[c] = "heard" \/ later[c] >= RecentMax
    /\ \A i \in 1..Len(recent) : later[recent[i]] >= Len(recent) - i
    /\ \A c \in Callers : waiter[c] = "waiting" => c \in Spawns /\ ~ In(recent, c) /\ made[c] # "none"

\* One claimed leaves each of the others with no more behind it.
LEMMA ClaimedOrder ==
    ASSUME Sound, NEW k \in 1..Len(recent),
           \A i \in 1..Len(recent) : later[recent[i]] >= Len(recent) - i
    PROVE  \A i \in 1..Len(RemoveAt(recent, k)) :
               later[RemoveAt(recent, k)[i]] >= Len(RemoveAt(recent, k)) - i
<1> DEFINE t == RemoveAt(recent, k)
<1>1. recent \in Seq(Callers) /\ later \in [Callers -> Nat] /\ Len(recent) \in Nat
    BY DEF Sound, QueueType
<1>2. /\ Len(t) = Len(recent) - 1
      /\ \A j \in 1..(Len(recent) - 1) : (j < k => t[j] = recent[j]) /\ (j >= k => t[j] = recent[j + 1])
    BY <1>1, Removed
<1> HIDE DEF t
<1>3. ASSUME NEW i \in 1..Len(t) PROVE later[t[i]] >= Len(t) - i
    <2>1. /\ i \in 1..Len(recent) /\ i + 1 \in 1..Len(recent)
          /\ recent[i] \in Callers /\ recent[i + 1] \in Callers
        BY <1>1, <1>2, <1>3, ElementOfSeq
    <2>2. later[recent[i]] \in Nat /\ later[recent[i + 1]] \in Nat
        BY <1>1, <2>1
    <2>3. later[recent[i]] >= Len(recent) - i /\ later[recent[i + 1]] >= Len(recent) - (i + 1)
        BY <2>1
    <2>4. i \in 1..(Len(recent) - 1) /\ k \in Nat
        BY <1>1, <1>2, <1>3
    <2>5. CASE i < k
        BY <1>1, <1>2, <2>2, <2>3, <2>4, <2>5
    <2>6. CASE i >= k
        BY <1>1, <1>2, <2>2, <2>3, <2>4, <2>6
    <2> QED BY <2>4, <2>5, <2>6
<1> QED BY <1>3 DEF t

\* One remembered is behind all others, and drops the oldest only when as many
\* came after it as there is room for.
LEMMA RememberedOrder ==
    ASSUME Sound, Uniq(recent), NEW h \in Callers, ~ In(recent, h), recent' = Remember(h),
           later' = [c \in Callers |-> IF c = h THEN 0 ELSE later[c] + 1],
           \A i \in 1..Len(recent) : later[recent[i]] >= Len(recent) - i
    PROVE  /\ \A i \in 1..Len(recent') : later'[recent'[i]] >= Len(recent') - i
           /\ \A x : In(recent, x) => In(recent', x) \/ later'[x] >= RecentMax
<1>1. recent \in Seq(Callers) /\ later \in [Callers -> Nat] /\ Len(recent) \in Nat /\ RecentMax \in Nat \ {0}
    BY RingAssumption DEF Sound, QueueType
<1>2. \A i \in 1..Len(recent) : /\ recent[i] \in Callers /\ recent[i] # h
                                /\ later[recent[i]] \in Nat /\ later'[recent[i]] = later[recent[i]] + 1
    BY <1>1, ElementOfSeq DEF In
<1>3. later'[h] = 0
    OBVIOUS
<1>4. CASE Len(recent) = RecentMax
    <2>1. recent # <<>>
        BY <1>1, <1>4
    <2>2. /\ Tail(recent) \in Seq(Callers) /\ Len(Tail(recent)) = Len(recent) - 1
          /\ \A i \in 1..(Len(recent) - 1) : Tail(recent)[i] = recent[i + 1]
        BY <1>1, <2>1, HeadTailProperties
    <2>3. /\ Len(recent') = Len(recent) /\ recent'[Len(recent)] = h
          /\ \A i \in 1..(Len(recent) - 1) : recent'[i] = recent[i + 1]
        BY <1>1, <1>4, <2>2, AppendProperties DEF Remember
    <2>4. ASSUME NEW i \in 1..Len(recent') PROVE later'[recent'[i]] >= Len(recent') - i
        <3>1. CASE i = Len(recent)
            BY <1>1, <1>3, <2>3, <3>1
        <3>2. CASE i # Len(recent)
            <4>1. i \in 1..(Len(recent) - 1) /\ i + 1 \in 1..Len(recent)
                BY <1>1, <2>3, <3>2
            <4>2. later[recent[i + 1]] >= Len(recent) - (i + 1)
                BY <4>1
            <4> QED BY <1>1, <1>2, <2>3, <4>1, <4>2
        <3> QED BY <3>1, <3>2
    <2>5. ASSUME NEW i \in 1..Len(recent) PROVE In(recent', recent[i]) \/ later'[recent[i]] >= RecentMax
        <3>1. CASE i = 1
            <4>1. later[recent[i]] >= RecentMax - 1 /\ later[recent[i]] \in Nat
                BY <1>2, <1>4, <3>1
            <4>2. later'[recent[i]] = later[recent[i]] + 1
                BY <1>2
            <4> QED BY <1>1, <4>1, <4>2
        <3>2. CASE i # 1
            <4>1. i - 1 \in 1..(Len(recent) - 1) /\ i - 1 \in 1..Len(recent') /\ (i - 1) + 1 = i
                BY <1>1, <2>3, <3>2
            <4>2. recent'[i - 1] = recent[i]
                BY <2>3, <4>1
            <4> QED BY <4>1, <4>2 DEF In
        <3> QED BY <3>1, <3>2
    <2> QED BY <2>4, <2>5 DEF In
<1>5. CASE Len(recent) # RecentMax
    <2>1. /\ Len(recent') = Len(recent) + 1 /\ recent'[Len(recent) + 1] = h
          /\ \A i \in 1..Len(recent) : recent'[i] = recent[i]
        BY <1>1, <1>5, AppendProperties DEF Remember
    <2>2. ASSUME NEW i \in 1..Len(recent') PROVE later'[recent'[i]] >= Len(recent') - i
        <3>1. CASE i = Len(recent) + 1
            BY <1>1, <1>3, <2>1, <3>1
        <3>2. CASE i # Len(recent) + 1
            <4>1. i \in 1..Len(recent)
                BY <1>1, <2>1, <3>2
            <4>2. later[recent[i]] >= Len(recent) - i
                BY <4>1
            <4> QED BY <1>1, <1>2, <2>1, <4>1, <4>2
        <3> QED BY <3>1, <3>2
    <2>3. \A i \in 1..Len(recent) : i \in 1..Len(recent')
        BY <1>1, <2>1
    <2> QED BY <2>1, <2>2, <2>3 DEF In
<1> QED BY <1>4, <1>5

\* Every step keeps the exits.
LEMMA ExitsStep ==
    ASSUME RgInv, ExitsKept, [Next]_vars
    PROVE  ExitsKept'
<1> USE DEF RgInv, Accounts
<1>0. /\ DOMAIN made = Callers /\ DOMAIN waiter = Callers /\ recent \in Seq(Callers)
      /\ cq \in Seq(Completions) /\ later \in [Callers -> Nat]
    BY DEF IInv, Sound, CallerType, QueueType, EngineType
<1>1. CASE UNCHANGED <<waiter, recent, later, cq, made>>
    BY <1>1 DEF ExitsKept, ExitToCome, Over
<1>2. ASSUME NEW c \in Callers, WaitExit(c) PROVE ExitsKept'
    <2>1. /\ UNCHANGED <<cq, made, later>> /\ c \in Spawns /\ made[c] # "none"
          /\ \A x \in Callers : x # c => waiter'[x] = waiter[x]
        BY <1>0, <1>2 DEF WaitExit, engineVars, MadeAsSaid, Spawns, Creating
    <2>2. \/ /\ waiter'[c] = "waiting" /\ recent' = recent /\ ~ In(recent, c)
          \/ /\ waiter'[c] = "heard"
             /\ \A x : (In(recent', x) => In(recent, x)) /\ (In(recent, x) /\ x # c => In(recent', x))
             /\ \A i \in 1..Len(recent') : later[recent'[i]] >= Len(recent') - i
        <3>1. CASE /\ \A i \in 1..Len(recent) : recent[i] # c
                   /\ waiter' = [waiter EXCEPT ![c] = "waiting"] /\ UNCHANGED recent
            BY <1>0, <3>1 DEF In
        <3>2. ASSUME NEW i \in 1..Len(recent), recent[i] = c, recent' = RemoveAt(recent, i)
              PROVE  /\ \A x : (In(recent', x) => In(recent, x)) /\ (In(recent, x) /\ x # c => In(recent', x))
                     /\ \A j \in 1..Len(recent') : later[recent'[j]] >= Len(recent') - j
            <4>1. \A j \in 1..Len(recent') : later[recent'[j]] >= Len(recent') - j
                BY <3>2, ClaimedOrder DEF IInv, ExitsKept
            <4> QED BY <1>0, <3>2, <4>1, InRemoved DEF ExitsOnce
        <3> QED BY <1>0, <1>2, <3>1, <3>2 DEF WaitExit
    <2>3. waiter[c] = "none"
        BY <1>2 DEF WaitExit
    <2> QED BY <2>1, <2>2, <2>3 DEF ExitsKept, ExitToCome, Over, Spawns
<1>3. ASSUME NEW h \in Callers, Exit(h) PROVE ExitsKept'
    <2>0. PICK new : new = [id |-> 0, ok |-> TRUE, h |-> h]
        OBVIOUS
    <2>1. /\ cq' = Append(cq, new) /\ made' = [made EXCEPT ![h] = "exited"] /\ UNCHANGED <<waiter, recent, later>>
          /\ new \in Completions /\ ExitOf(new) /\ new.h = h
        BY <1>3, <2>0 DEF Exit, callerVars, threadVars, Completions, ExitOf
    <2>2. \A x : In(cq', x) <=> In(cq, x) \/ x = new
        BY <1>0, <2>1, InAppended
    <2>3. made'[h] # "none" /\ \A c \in Callers : c # h => made'[c] = made[c]
        BY <1>0, <2>1
    <2> QED BY <2>1, <2>2, <2>3 DEF ExitsKept, ExitToCome, Over, Spawns
<1>4. ASSUME NEW e \in work, Answer(e) PROVE ExitsKept'
    <2>1. PICK ok, new :
            /\ ok \in BOOLEAN /\ made' = [made EXCEPT ![e.h] = IF ok THEN Done(e) ELSE Declined(e)]
            /\ new = [id |-> e.id, ok |-> ok, h |-> e.h] /\ cq' = Append(cq, new)
            /\ UNCHANGED <<waiter, recent, later>>
        BY <1>4 DEF Answer, callerVars, threadVars
    <2>2. Flying(e) /\ e.h \in Callers /\ e.id \in Nat \ {0} /\ Known(e.id, e.h, e.op)
        <3>1. Flying(e)
            BY DEF Flying
        <3> QED BY <3>1, OnceIn DEF EntriesKnown
    <2>3. new \in Completions /\ new.id # 0
        BY <2>1, <2>2 DEF Completions
    <2>4. \A x : In(cq', x) <=> In(cq, x) \/ x = new
        BY <1>0, <2>1, <2>3, InAppended
    <2>5. \A c \in Callers : c # e.h => made'[c] = made[c]
        BY <1>0, <2>1
    <2>6. /\ e.h \in Spawns /\ Over(e.h)' => Over(e.h)
          /\ made[e.h] # "none" => made'[e.h] # "none"
        <3>1. made'[e.h] = IF ok THEN Done(e) ELSE Declined(e)
            BY <1>0, <2>1, <2>2
        <3>2. e.op = "Release" => e.op \notin Ops
            BY DEF Ops, Creating
        <3>3. e.op = "Release" /\ e.h \in Spawns => Over(e.h)
            BY <2>2, <3>2, OpAssumption DEF Known, KnownLive, KnownLate, Own, UndoFits, Spawns
        <3> QED BY <3>1, <3>3 DEF Done, Declined, Over
    <2> QED BY <2>1, <2>4, <2>5, <2>6 DEF ExitsKept, ExitToCome, Over, Spawns
<1>5. CASE ExitReported
    <2>0. PICK h : h = Head(cq).h
        OBVIOUS
    <2>1. /\ cq # <<>> /\ cq' = Tail(cq) /\ Head(cq).id = 0 /\ UNCHANGED made
          /\ \/ /\ waiter[h] = "waiting" /\ waiter' = [waiter EXCEPT ![h] = "heard"]
                /\ UNCHANGED <<recent, later>>
             \/ /\ waiter[h] # "waiting" /\ recent' = Remember(h) /\ UNCHANGED waiter
                /\ later' = [c \in Callers |-> IF c = h THEN 0 ELSE later[c] + 1]
        BY <1>5, <2>0 DEF ExitReported
    <2>2. In(cq, Head(cq)) /\ \A x : In(cq, x) <=> In(cq', x) \/ x = Head(cq)
        BY <1>0, <2>1, InTail
    <2>3. h \in Spawns /\ h \in Callers /\ Over(h) /\ ~ In(recent, h)
        BY <2>0, <2>1, <2>2, OnceIn DEF ExitsOnce, ExitOf, Spawns
    <2>4. \A c \in Callers : c # h => (ExitToCome(c) => ExitToCome(c)')
        BY <2>0, <2>2 DEF ExitToCome
    <2>5. CASE waiter' = [waiter EXCEPT ![h] = "heard"] /\ UNCHANGED <<recent, later>>
        BY <1>0, <2>1, <2>3, <2>4, <2>5 DEF ExitsKept, Over, Spawns
    <2>6. CASE /\ waiter[h] # "waiting" /\ recent' = Remember(h) /\ UNCHANGED waiter
               /\ later' = [c \in Callers |-> IF c = h THEN 0 ELSE later[c] + 1]
        <3>1. /\ \A i \in 1..Len(recent') : later'[recent'[i]] >= Len(recent') - i
              /\ \A x : In(recent, x) => In(recent', x) \/ later'[x] >= RecentMax
            BY <2>3, <2>6, RememberedOrder DEF ExitsKept, ExitsOnce, IInv
        <3>2. In(recent', h) /\ \A x : In(recent', x) => In(recent, x) \/ x = h
            BY <2>3, <2>6, Remembered DEF ExitsOnce, IInv
        <3>3. \A c \in Callers : c # h /\ later[c] >= RecentMax => later'[c] >= RecentMax
            BY <1>0, <2>6, RingAssumption
        <3> QED BY <2>1, <2>3, <2>4, <2>6, <3>1, <3>2, <3>3 DEF ExitsKept, Over, Spawns
    <2> QED BY <2>1, <2>5, <2>6
<1>6. CASE Complete
    <2>1. cq # <<>> /\ cq' = Tail(cq) /\ Head(cq).id # 0 /\ UNCHANGED <<waiter, recent, later, made>>
        BY <1>6 DEF Complete
    <2>2. \A x : In(cq, x) <=> In(cq', x) \/ x = Head(cq)
        BY <1>0, <2>1, InTail
    <2> QED BY <2>1, <2>2 DEF ExitsKept, ExitToCome, ExitOf, Over
<1>7. CASE SubmitUndo \/ UndoneForNow \/ RetryParked \/ RetriedAll \/ Receive \/ NothingReceived
           \/ Drained \/ Expire \/ Retain \/ RetainedAll \/ Dispatch \/ UNCHANGED vars
    <2>1. UNCHANGED <<waiter, recent, later, cq, made>>
        BY <1>7 DEF SubmitUndo, UndoneForNow, RetryParked, RetriedAll, Receive, NothingReceived, PlaceOnly,
                    Drained, Expire, Retain, RetainedAll, Dispatch, vars, callerVars, threadVars, engineVars
    <2> QED BY <1>1, <2>1
<1>8. ASSUME NEW c \in Callers, Send(c) \/ Ageing(c) \/ StopWaiting(c) PROVE ExitsKept'
    <2>1. UNCHANGED <<waiter, recent, later, cq, made>>
        BY <1>8 DEF Send, Ageing, StopWaiting, threadVars, engineVars
    <2> QED BY <1>1, <2>1
<1> QED BY <1>2, <1>3, <1>4, <1>5, <1>6, <1>7, <1>8 DEF Next, Thread, Engine

\* No exec waits for an exit that was already reported and lost (ExitWaiters),
\* unless RECENT_EXITS others that nobody waited for were reported after it.
THEOREM RingExitHeard == Spec => []ExitHeard
<1>1. RgInv /\ ExitsKept /\ [Next]_vars => ExitsKept'
    BY ExitsStep
<1>2. RgInv /\ ExitsKept => ExitHeard
    <2> SUFFICES ASSUME RgInv, ExitsKept, NEW c \in Callers, waiter[c] = "waiting"
                 PROVE  \/ made[c] \in {"up", "stopping"} \/ \E i \in 1..Len(cq) : cq[i].id = 0 /\ cq[i].h = c
                        \/ later[c] >= RecentMax
        BY DEF ExitHeard
    <2>1. made[c] \in {"none", "up", "stopping", "exited", "gone", "kept"}
        BY DEF RgInv, IInv, Sound, EngineType
    <2> QED BY <2>1 DEF ExitsKept, ExitToCome, ExitOf, In, Over
<1>3. Init => ExitsKept
    BY DEF Init, ExitsKept, Over, Spawns
<1> QED BY <1>1, <1>2, <1>3, RingAccounts, PTL DEF Spec

-----------------------------------------------------------------------------
(* The ring keeps what EngineCalls promises a caller. *)

\* What a caller sees of a handle.
LEMMA ThingIs ==
    ASSUME RgInv
    PROVE  /\ \A c \in Callers : Thing[c] = IF Holds(c) THEN "made" ELSE made[c]
           /\ Thing \in [Callers -> {"none", "made", "gone", "kept"}]
           /\ DOMAIN status = Callers
BY DEF RgInv, IInv, Sound, CallerType, EngineType, Thing, Holds

\* A step of the abstract calls, or none.
CallsStep == Calls!CallsNext \/ UNCHANGED Calls!callVars

\* An answer to a caller is one of the abstract answers, where the handle fits it.
LEMMA AnswerFits ==
    ASSUME RgInv, NEW c \in Callers, NEW answer, Reply(c, answer), UNCHANGED made,
           \/ answer = "timeout"
           \/ answer \in {"failed", "full"} /\ made[c] = "none"
           \/ answer = "ok" /\ (OpOf[c] \in Creating => Holds(c))
    PROVE  CallsStep
<1>1. UNCHANGED Thing
    BY DEF Thing
<1>2. CASE status[c] # "waiting"
    BY <1>1, <1>2 DEF Reply, CallsStep, Calls!callVars
<1>3. CASE status[c] = "waiting"
    <2>1. status' = [status EXCEPT ![c] = answer] /\ DOMAIN status = Callers
        BY <1>3, ThingIs DEF Reply
    <2>2. CASE answer = "timeout"
        <3>1. status' = [x \in Callers |-> IF x \in {c} THEN "timeout" ELSE status[x]]
            BY <2>1, <2>2
        <3>2. Calls!GiveUp({c})
            BY <1>1, <1>3, <3>1 DEF Calls!GiveUp
        <3> QED BY <3>2 DEF CallsStep, Calls!CallsNext
    <2>3. CASE answer \in {"failed", "full"} /\ made[c] = "none"
        <3>1. Thing[c] = "none"
            BY <2>3, ThingIs DEF Holds
        <3>2. Calls!Decline(c)
            BY <1>1, <1>3, <2>1, <2>3, <3>1 DEF Calls!Decline, Calls!Move
        <3> QED BY <3>2 DEF CallsStep, Calls!CallsNext
    <2>4. CASE answer = "ok" /\ (OpOf[c] \in Creating => Holds(c))
        <3>1. OpOf[c] \in Creating => Thing[c] = "made"
            BY <2>4, ThingIs
        <3>2. Calls!Succeed(c)
            BY <1>1, <1>3, <2>1, <2>4, <3>1 DEF Calls!Succeed, Calls!Move
        <3> QED BY <3>2 DEF CallsStep, Calls!CallsNext
    <2> QED BY <2>2, <2>3, <2>4
<1> QED BY <1>2, <1>3

\* The engine's answer makes the thing, takes it back, or shows nothing.
LEMMA AnswerSeen ==
    ASSUME RgInv, NEW e \in work, Answer(e)
    PROVE  CallsStep
<1> USE DEF RgInv, Accounts
<1>1. PICK ok \in BOOLEAN : made' = [made EXCEPT ![e.h] = IF ok THEN Done(e) ELSE Declined(e)]
    BY DEF Answer
<1>2. UNCHANGED status /\ DOMAIN made = Callers
    BY DEF Answer, callerVars, IInv, Sound, EngineType
<1>3. /\ Flying(e) /\ e.h \in Callers /\ e.op \in Ops \cup {"Stop", "Release"} /\ Known(e.id, e.h, e.op)
    <2>1. Flying(e)
        BY DEF Flying
    <2> QED BY <2>1, OnceIn DEF EntriesKnown
<1>4. made'[e.h] = IF ok THEN Done(e) ELSE Declined(e)
    BY <1>1, <1>2, <1>3
<1>5. \A c \in Callers : c # e.h => made'[c] = made[c]
    BY <1>1, <1>2
<1>6. /\ Thing[e.h] = (IF Holds(e.h) THEN "made" ELSE made[e.h])
      /\ Thing'[e.h] = (IF made'[e.h] \in {"up", "stopping", "exited"} THEN "made" ELSE made'[e.h])
      /\ \A c \in Callers : c # e.h => Thing'[c] = Thing[c]
    BY <1>3, <1>5 DEF Thing, Holds
<1>7. ASSUME NEW t, Thing'[e.h] = t PROVE Thing' = [Thing EXCEPT ![e.h] = t]
    BY <1>3, <1>6, <1>7 DEF Thing
<1>8. CASE Thing'[e.h] = Thing[e.h]
    <2>1. Thing' = Thing
        BY <1>3, <1>6, <1>8 DEF Thing
    <2> QED BY <1>2, <2>1 DEF CallsStep, Calls!callVars
<1>9. CASE e.op \in Ops
    <2>1. made[e.h] = "none"
        BY <1>3, <1>9 DEF MadeAsSaid
    <2>2. made'[e.h] \in {"none", "up"}
        BY <1>4, <1>9, <2>1 DEF Done, Declined, Ops, Creating
    <2>3. CASE made'[e.h] = "none"
        BY <1>6, <1>8, <2>1, <2>3 DEF Holds
    <2>4. CASE made'[e.h] = "up"
        <3>1. e.op \in Creating
            BY <1>4, <1>9, <2>1, <2>4 DEF Done, Declined, Ops, Creating
        <3>2. e.op = OpOf[e.h] /\ status[e.h] \in {"waiting", "timeout"}
            BY <1>3, <1>9 DEF Known, KnownLive, KnownLate, Own, OneOwner, Owed, Left, GivenUpBefore
        <3>3. Thing[e.h] = "none" /\ Thing'[e.h] = "made"
            BY <1>6, <2>1, <2>4 DEF Holds
        <3>4. Calls!Make(e.h)
            BY <1>2, <1>3, <1>7, <3>1, <3>2, <3>3 DEF Calls!Make
        <3> QED BY <1>3, <3>4 DEF CallsStep, Calls!CallsNext
    <2> QED BY <2>2, <2>3, <2>4
<1>10. CASE e.op = "Stop"
    <2>1. made'[e.h] = made[e.h] \/ (made[e.h] = "up" /\ made'[e.h] = "stopping")
        BY <1>4, <1>10 DEF Done, Declined, Creating
    <2> QED BY <1>6, <1>8, <2>1 DEF Holds
<1>11. CASE e.op = "Release"
    <2>1. made'[e.h] \in {"gone", "kept"}
        BY <1>4, <1>11 DEF Done, Declined, Creating
    <2>2. Holds(e.h) /\ status[e.h] = "timeout"
        BY <1>3, <1>11 DEF Releasing, GivenUpBefore
    <2>3. Thing[e.h] = "made" /\ Thing'[e.h] \in {"gone", "kept"}
        BY <1>6, <2>1, <2>2
    <2>4. Calls!Undo(e.h)
        BY <1>2, <1>7, <2>2, <2>3 DEF Calls!Undo
    <2> QED BY <1>3, <2>4 DEF CallsStep, Calls!CallsNext
<1> QED BY <1>3, <1>9, <1>10, <1>11

\* Requests taken up are answered as they may be: not one that made something.
LEMMA RequestSeen ==
    ASSUME RgInv, RetryParked \/ Receive \/ Retain
    PROVE  CallsStep
<1>1. PICK c \in Callers : /\ OnItsWay(c) /\ UNCHANGED made
                           /\ \/ UNCHANGED status
                              \/ \E answer \in {"failed", "full", "timeout"} : Reply(c, answer)
    <2>0. /\ queue \in Seq(Callers) /\ parked \in Seq(Callers) /\ Len(parked) \in Nat /\ left \in Nat
          /\ at \in {"parked", "retain"} => left <= Len(parked)
        BY DEF RgInv, IInv, Sound, QueueType, Rounds
    <2>1. CASE RetryParked
        <3>1. parked # <<>> /\ Place(Head(parked), Tail(parked)) /\ UNCHANGED made
            BY <2>0, <2>1 DEF RetryParked, PlaceOnly
        <3>2. Head(parked) \in Callers /\ OnItsWay(Head(parked))
            BY <2>0, <3>1, InTail DEF OnItsWay
        <3> QED BY <3>1, <3>2 DEF Place, Submitted, QueueFull
    <2>2. CASE Receive
        <3>1. queue # <<>> /\ UNCHANGED made
            BY <2>2 DEF Receive, PlaceOnly
        <3>2. Head(queue) \in Callers /\ OnItsWay(Head(queue))
            BY <2>0, <3>1, InTail DEF OnItsWay
        <3> QED BY <2>2, <3>1, <3>2 DEF Receive, Place, Submitted, QueueFull
    <2>3. CASE Retain
        <3>1. parked # <<>> /\ UNCHANGED made
            BY <2>0, <2>3 DEF Retain, engineVars
        <3>2. Head(parked) \in Callers /\ OnItsWay(Head(parked))
            BY <2>0, <3>1, InTail DEF OnItsWay
        <3> QED BY <2>3, <3>1, <3>2 DEF Retain
    <2> QED BY <2>1, <2>2, <2>3
<1>2. made[c] = "none"
    BY <1>1 DEF RgInv, Accounts, NotYetAsked, NotYet
<1>3. CASE UNCHANGED status
    BY <1>1, <1>3 DEF CallsStep, Calls!callVars, Thing
<1> QED BY <1>1, <1>2, <1>3, AnswerFits

\* Every step of the ring is a step of the abstract calls, or none.
LEMMA CallsSeen ==
    ASSUME RgInv, [Next]_vars
    PROVE  CallsStep
<1> USE DEF RgInv, Accounts
<1>0. DOMAIN status = Callers /\ DOMAIN made = Callers
    BY DEF IInv, Sound, CallerType, EngineType
<1>1. CASE UNCHANGED <<status, made>>
    BY <1>1 DEF CallsStep, Calls!callVars, Thing
<1>2. ASSUME NEW c \in Callers, Send(c) PROVE CallsStep
    <2>1. Thing' = Thing
        BY <1>2 DEF Send, engineVars, Thing
    <2>2. Calls!Call(c)
        BY <1>2, <2>1 DEF Send, Calls!Call, Calls!Move
    <2> QED BY <2>2 DEF CallsStep, Calls!CallsNext
<1>3. ASSUME NEW c \in Callers, StopWaiting(c) PROVE CallsStep
    <2>1. Reply(c, "timeout") /\ UNCHANGED made
        BY <1>3 DEF StopWaiting, Reply, engineVars
    <2> QED BY <2>1, AnswerFits
<1>4. ASSUME NEW h \in Callers, Exit(h) PROVE CallsStep
    <2>1. made' = [made EXCEPT ![h] = "exited"] /\ made[h] \in {"up", "stopping"} /\ UNCHANGED status
        BY <1>4 DEF Exit, callerVars
    <2>2. Thing' = Thing
        BY <1>0, <2>1 DEF Thing
    <2> QED BY <2>1, <2>2 DEF CallsStep, Calls!callVars
<1>5. CASE Complete
    <2>0. PICK e : e = Head(cq)
        OBVIOUS
    <2>1. UNCHANGED made /\ cq # <<>> /\ e.id # 0
        BY <1>5, <2>0 DEF Complete
    <2>2. CASE Answered(e)
        <3>1. PICK l \in live : l.id = e.id /\ Reply(l.who, IF e.ok THEN "ok" ELSE "failed")
            BY <2>2 DEF Answered
        <3>2. In(cq, e)
            BY <2>0, <2>1, InTail DEF IInv, Sound, EngineType
        <3>3. l.who = e.h /\ OwnAnswer(e) /\ l.who \in Callers
            BY <2>1, <3>1, <3>2, OnceIn DEF EntriesKnown, Known, KnownLive, KnownLate, OwnAnswer
        <3>4. OpOf[e.h] \in Creating => (made[e.h] = "none" <=> ~ e.ok)
            BY <3>2, <3>3 DEF MadeAsSaid
        <3>5. AskedFor(e.h) /\ made[e.h] \notin {"gone", "kept"}
            BY <3>3 DEF AskedFor, GivenUpBefore
        <3>6. made[e.h] \in {"none", "up", "stopping", "exited", "gone", "kept"} /\ OpOf[e.h] \in Ops
            BY <3>3, OpAssumption DEF IInv, Sound, EngineType
        <3>7. ~ e.ok => made[e.h] = "none"
            BY <3>3, <3>4, <3>6 DEF MadeAsSaid, Ops
        <3>8. e.ok => (OpOf[e.h] \in Creating => Holds(e.h))
            BY <3>4, <3>5, <3>6 DEF Holds
        <3> QED BY <2>1, <3>1, <3>3, <3>7, <3>8, AnswerFits
    <2>3. CASE AnsweredLate(e)
        BY <1>1, <2>1, <2>3 DEF AnsweredLate
    <2> QED BY <1>5, <2>0, <2>2, <2>3 DEF Complete
<1>6. CASE Expire
    <2>0. PICK late : late = {c \in LateCallers : c \in Callers /\ status[c] = "waiting"}
        OBVIOUS
    <2>1. status' = [c \in Callers |-> IF c \in late THEN "timeout" ELSE status[c]]
        BY <1>6, <2>0 DEF Expire
    <2>2. Thing' = Thing
        BY <1>6 DEF Expire, engineVars, Thing
    <2>3. CASE late = {}
        <3>1. status' = [c \in Callers |-> status[c]] /\ status = [c \in Callers |-> status[c]]
            BY <2>1, <2>3 DEF IInv, Sound, CallerType
        <3> QED BY <2>2, <3>1 DEF CallsStep, Calls!callVars
    <2>4. CASE late # {}
        <3>1. Calls!GiveUp(late) /\ late \in SUBSET Callers
            BY <2>0, <2>1, <2>2, <2>4 DEF Calls!GiveUp
        <3> QED BY <3>1 DEF CallsStep, Calls!CallsNext
    <2> QED BY <2>3, <2>4
<1>7. ASSUME NEW c \in Callers, Ageing(c) \/ WaitExit(c) PROVE CallsStep
    BY <1>1, <1>7 DEF Ageing, WaitExit, engineVars
<1>8. CASE SubmitUndo \/ UndoneForNow \/ RetriedAll \/ NothingReceived \/ ExitReported
           \/ Drained \/ RetainedAll \/ Dispatch \/ UNCHANGED vars
    <2>1. UNCHANGED <<status, made>>
        BY <1>8 DEF SubmitUndo, UndoneForNow, RetriedAll, NothingReceived, ExitReported,
                    Drained, RetainedAll, Dispatch, vars, callerVars, engineVars
    <2> QED BY <1>1, <2>1
<1> QED BY <1>2, <1>3, <1>4, <1>5, <1>6, <1>7, <1>8, RequestSeen, AnswerSeen DEF Next, Thread, Engine

\* A caller of the ring is answered once, owns what it was told of, was made
\* nothing when refused, and what was made after it gave up is taken back once:
\* RingClient implements EngineCalls.tla.
THEOREM RingKeepsCalls == Spec => CallsKept
<1>1. Init => Calls!CallsInit
    BY DEF Init, Calls!CallsInit, Thing
<1>2. RgInv /\ [Next]_vars => [Calls!CallsNext]_(Calls!callVars)
    BY CallsSeen DEF CallsStep
<1> QED BY <1>1, <1>2, RingAccounts, PTL DEF Spec, CallsKept, Calls!CallsSpec
=============================================================================
