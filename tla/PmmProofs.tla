------------------------------ MODULE PmmProofs ------------------------------
(***************************************************************************)
(* Machine-checked facts about Pmm, for every memory map, capacity, set of *)
(* clients and set of request sizes.                                       *)
(***************************************************************************)
EXTENDS Pmm, TLAPS, SequenceTheorems, FiniteSetTheorems, WellFoundedInduction

\* Concatenation of two lists whose lengths have names.
LEMMA ConcatOfLengths ==
  ASSUME NEW S, NEW a \in Seq(S), NEW b \in Seq(S),
         NEW m, NEW n, Len(a) = m, Len(b) = n
  PROVE  /\ a \o b \in Seq(S)
         /\ Len(a \o b) = m + n
         /\ \A i \in 1 .. m + n :
              (a \o b)[i] = IF i <= m THEN a[i] ELSE b[i - m]
  <1>1. /\ a \o b \in Seq(S)
        /\ Len(a \o b) = Len(a) + Len(b)
        /\ \A i \in 1 .. Len(a) + Len(b) :
             (a \o b)[i] = IF i <= Len(a) THEN a[i] ELSE b[i - Len(a)]
    BY ConcatProperties, Zenon
  <1> QED BY ONLY <1>1, Len(a) = m, Len(b) = n, Zenon

\* What shifting the tail of the array and writing the gap does to the list.
LEMMA InsertAtProperties ==
  ASSUME NEW S, NEW s \in Seq(S), NEW e \in S, NEW k \in 1 .. Len(s) + 1
  PROVE  /\ InsertAt(s, k, e) \in Seq(S)
         /\ Len(InsertAt(s, k, e)) = Len(s) + 1
         /\ \A i \in 1 .. Len(s) + 1 :
              InsertAt(s, k, e)[i] = IF i < k THEN s[i]
                                     ELSE IF i = k THEN e ELSE s[i - 1]
  <1> DEFINE front == SubSeq(s, 1, k - 1)
             back  == SubSeq(s, k, Len(s))
  <1>1. /\ front \in Seq(S) /\ Len(front) = k - 1
        /\ \A i \in 1 .. k - 1 : front[i] = s[i]
    BY SubSeqProperties, LenProperties
  <1>2. /\ back \in Seq(S) /\ Len(back) = Len(s) + 1 - k
        /\ \A i \in 1 .. Len(s) + 1 - k : back[i] = s[k + i - 1]
    BY SubSeqProperties, LenProperties
  <1>3. <<e>> \in Seq(S) /\ Len(<<e>>) = 1 /\ <<e>>[1] = e
    OBVIOUS
  <1> HIDE DEF front, back
  <1>4. /\ front \o <<e>> \in Seq(S) /\ Len(front \o <<e>>) = k
        /\ \A i \in 1 .. k :
             (front \o <<e>>)[i] = IF i < k THEN s[i] ELSE e
    BY <1>1, <1>3, ConcatProperties, LenProperties
  <1>5. InsertAt(s, k, e) = (front \o <<e>>) \o back
    BY DEF InsertAt, front, back
  <1>6. /\ InsertAt(s, k, e) \in Seq(S)
        /\ Len(InsertAt(s, k, e)) = k + (Len(s) + 1 - k)
        /\ \A i \in 1 .. k + (Len(s) + 1 - k) :
             InsertAt(s, k, e)[i] = IF i <= k THEN (front \o <<e>>)[i]
                                    ELSE back[i - k]
    <2> DEFINE most == front \o <<e>>
    <2>1. most \in Seq(S) /\ Len(most) = k
      BY <1>4
    <2>2. back \in Seq(S) /\ Len(back) = Len(s) + 1 - k
      BY <1>2
    <2>3. InsertAt(s, k, e) = most \o back
      BY <1>5
    <2> HIDE DEF most
    <2>4. /\ most \o back \in Seq(S)
          /\ Len(most \o back) = k + (Len(s) + 1 - k)
          /\ \A i \in 1 .. k + (Len(s) + 1 - k) :
               (most \o back)[i] = IF i <= k THEN most[i] ELSE back[i - k]
      BY ONLY <2>1, <2>2, ConcatOfLengths, SMTT(30)
    <2> QED BY ONLY <2>3, <2>4, Zenon DEF most
  <1>7. Len(s) \in Nat
    BY LenProperties
  <1>8. ASSUME NEW i \in 1 .. Len(s) + 1
        PROVE  InsertAt(s, k, e)[i] = IF i < k THEN s[i]
                                      ELSE IF i = k THEN e ELSE s[i - 1]
    <2>1. CASE i <= k
      BY <1>4, <1>6, <1>7, <2>1, SMTT(40)
    <2>2. CASE i > k
      <3>1. i - k \in 1 .. Len(s) + 1 - k /\ k + (i - k) - 1 = i - 1
        BY <1>7, <2>2
      <3>2. back[i - k] = s[i - 1]
        BY <1>2, <3>1
      <3> QED BY <1>6, <1>7, <2>2, <3>2
    <2> QED BY <1>7, <2>1, <2>2
  <1> QED
    BY <1>6, <1>7, <1>8

\* What closing the gap after a merge does to the list.
LEMMA RemoveAtProperties ==
  ASSUME NEW S, NEW s \in Seq(S), NEW k \in 1 .. Len(s)
  PROVE  /\ RemoveAt(s, k) \in Seq(S)
         /\ Len(RemoveAt(s, k)) = Len(s) - 1
         /\ \A i \in 1 .. Len(s) - 1 :
              RemoveAt(s, k)[i] = IF i < k THEN s[i] ELSE s[i + 1]
  <1> DEFINE front == SubSeq(s, 1, k - 1)
             back  == SubSeq(s, k + 1, Len(s))
  <1>1. /\ front \in Seq(S) /\ Len(front) = k - 1
        /\ \A i \in 1 .. k - 1 : front[i] = s[i]
    BY SubSeqProperties, LenProperties
  <1>2. /\ back \in Seq(S) /\ Len(back) = Len(s) - k
        /\ \A i \in 1 .. Len(s) - k : back[i] = s[k + i]
    BY SubSeqProperties, LenProperties
  <1> HIDE DEF front, back
  <1>3. RemoveAt(s, k) = front \o back
    BY DEF RemoveAt, front, back
  <1>4. Len(s) \in Nat
    BY LenProperties
  <1>5. /\ RemoveAt(s, k) \in Seq(S)
        /\ Len(RemoveAt(s, k)) = (k - 1) + (Len(s) - k)
        /\ \A i \in 1 .. (k - 1) + (Len(s) - k) :
             RemoveAt(s, k)[i] = IF i <= k - 1 THEN front[i]
                                 ELSE back[i - (k - 1)]
    <2>1. front \in Seq(S) /\ Len(front) = k - 1
      BY <1>1
    <2>2. back \in Seq(S) /\ Len(back) = Len(s) - k
      BY <1>2
    <2>3. /\ front \o back \in Seq(S)
          /\ Len(front \o back) = (k - 1) + (Len(s) - k)
          /\ \A i \in 1 .. (k - 1) + (Len(s) - k) :
               (front \o back)[i] = IF i <= k - 1 THEN front[i]
                                    ELSE back[i - (k - 1)]
      BY ONLY <2>1, <2>2, ConcatOfLengths, SMTT(30)
    <2> QED BY ONLY <1>3, <2>3, Zenon
  <1>9. (k - 1) + (Len(s) - k) = Len(s) - 1 /\ k \in Nat
    BY <1>4
  <1>6. ASSUME NEW i \in 1 .. Len(s) - 1
        PROVE  RemoveAt(s, k)[i] = IF i < k THEN s[i] ELSE s[i + 1]
    <2>1. CASE i < k
      <3>1. i \in 1 .. k - 1 /\ i <= k - 1
        BY <1>4, <2>1
      <3> QED BY <1>1, <1>5, <1>9, <2>1, <3>1
    <2>2. CASE i >= k
      <3>1. i - (k - 1) \in 1 .. Len(s) - k /\ k + (i - (k - 1)) = i + 1
        BY <1>4, <2>2
      <3>2. back[i - (k - 1)] = s[i + 1]
        BY <1>2, <3>1
      <3>3. ~(i <= k - 1) /\ ~(i < k)
        BY <1>4, <2>2
      <3> QED BY <1>5, <1>9, <3>2, <3>3
    <2> QED BY <1>4, <2>1, <2>2
  <1> QED
    BY <1>5, <1>9, <1>6

\* RegionIndex finds a position of the list, or 1 when the list is empty.
LEMMA RegionIndexRange ==
  ASSUME NEW addr \in Nat, free_regions \in Seq(Regions)
  PROVE  /\ RegionIndex(addr) \in 1 .. Len(free_regions) + 1
         /\ Len(free_regions) > 0
              => RegionIndex(addr) \in DOMAIN free_regions
  <1> DEFINE below == {i \in DOMAIN free_regions :
                         \A j \in 1 .. i : addr > free_regions[j].start}
  <1>1. Len(free_regions) \in Nat /\ DOMAIN free_regions = 1 .. Len(free_regions)
    BY LenProperties
  <1>2. CASE below = {}
    BY <1>1, <1>2 DEF RegionIndex
  <1>3. CASE below # {}
    <2>1. below \subseteq 1 .. Len(free_regions)
      BY <1>1
    <2>2. RegionIndex(addr) = Cardinality(below)
      BY <1>3 DEF RegionIndex
    <2> HIDE DEF below
    <2>3. /\ IsFiniteSet(1 .. Len(free_regions))
          /\ Cardinality(1 .. Len(free_regions)) <= Len(free_regions)
      <3> DEFINE n == Len(free_regions)
      <3>1. 1 \in Int /\ n \in Int
        BY ONLY <1>1
      <3> HIDE DEF n
      <3>2. /\ IsFiniteSet(1 .. n)
            /\ Cardinality(1 .. n) = IF 1 > n THEN 0 ELSE n - 1 + 1
        BY <3>1, FS_Interval, ZenonT(40)
      <3>3. n \in Nat
        BY <1>1 DEF n
      <3>4. IsFiniteSet(1 .. n) /\ Cardinality(1 .. n) <= n
        BY ONLY <3>2, <3>3
      <3> QED
        BY <3>4, Zenon DEF n
    <2>4. IsFiniteSet(below) /\ Cardinality(below) <= Len(free_regions)
      <3>1. /\ IsFiniteSet(below)
            /\ Cardinality(below) <= Cardinality(1 .. Len(free_regions))
        BY <2>1, <2>3, FS_Subset
      <3>2. /\ Cardinality(below) \in Nat
            /\ Cardinality(1 .. Len(free_regions)) \in Nat
        BY <2>3, <3>1, FS_CardinalityType
      <3> QED BY <1>1, <2>3, <3>1, <3>2
    <2>5. Cardinality(below) \in Nat /\ Cardinality(below) # 0
      BY <1>3, <2>4, FS_CardinalityType, FS_EmptySet
    <2> QED BY <1>1, <2>2, <2>4, <2>5
  <1> QED BY <1>2, <1>3

-----------------------------------------------------------------------------
\* The first element of a list of regions, and so on: what TypeOK says of them.
LEMMA RegionsTyped ==
  ASSUME free_regions \in Seq(Regions)
  PROVE  /\ Len(free_regions) \in Nat
         /\ DOMAIN free_regions = 1 .. Len(free_regions)
         /\ \A i \in DOMAIN free_regions :
              /\ free_regions[i] \in Regions
              /\ free_regions[i].start \in Nat
              /\ free_regions[i].num \in Nat
  <1>1. /\ Len(free_regions) \in Nat
        /\ DOMAIN free_regions = 1 .. Len(free_regions)
    BY LenProperties
  <1>2. \A i \in DOMAIN free_regions : free_regions[i] \in Regions
    BY <1>1, ElementOfSeq
  <1> QED BY <1>1, <1>2 DEF Regions

\* An entry of the boot loader's map, seen as a region.
LEMMA EntriesTyped ==
  ASSUME memmap \in Memmaps
  PROVE  /\ Len(memmap) \in Nat /\ DOMAIN memmap = 1 .. Len(memmap)
         /\ \A i \in DOMAIN memmap :
              memmap[i] \in Entries /\ RegionOf(memmap[i]) \in Regions
  <1>1. memmap \in Seq(Entries)
    BY MemmapAssumption
  <1>2. Len(memmap) \in Nat /\ DOMAIN memmap = 1 .. Len(memmap)
    BY <1>1, LenProperties
  <1>3. \A i \in DOMAIN memmap : memmap[i] \in Entries
    BY <1>1, <1>2, ElementOfSeq
  <1> QED BY <1>2, <1>3 DEF Entries, RegionOf, Regions

\* What the list is after a forward merge: one region shorter, the found one
\* grown by the block and by the region after it.
LEMMA JoinNextTyped ==
  ASSUME free_regions \in Seq(Regions), NEW b \in Regions,
         NEW k \in 1 .. Len(free_regions), k < Len(free_regions)
  PROVE  /\ RemoveAt([free_regions EXCEPT
                        ![k].num = @ + b.num + free_regions[k + 1].num], k + 1)
              \in Seq(Regions)
         /\ Len(RemoveAt([free_regions EXCEPT
                            ![k].num = @ + b.num + free_regions[k + 1].num],
                         k + 1)) = Len(free_regions) - 1
         /\ \A i \in 1 .. Len(free_regions) - 1 :
              RemoveAt([free_regions EXCEPT
                          ![k].num = @ + b.num + free_regions[k + 1].num],
                       k + 1)[i] =
                IF i = k THEN [start |-> free_regions[k].start,
                               num |-> free_regions[k].num + b.num
                                         + free_regions[k + 1].num]
                ELSE IF i < k THEN free_regions[i]
                ELSE free_regions[i + 1]
  <1> DEFINE r == [start |-> free_regions[k].start,
                   num |-> free_regions[k].num + b.num
                             + free_regions[k + 1].num]
             grown == [free_regions EXCEPT
                         ![k].num = @ + b.num + free_regions[k + 1].num]
  <1>1. /\ Len(free_regions) \in Nat
        /\ free_regions[k] \in Regions /\ free_regions[k + 1] \in Regions
    BY RegionsTyped
  <1>2. r \in Regions /\ b.num \in Nat
    <2>1. /\ free_regions[k].start \in Nat /\ free_regions[k].num \in Nat
          /\ free_regions[k + 1].num \in Nat /\ b.num \in Nat
      BY <1>1 DEF Regions
    <2>2. free_regions[k].num + b.num + free_regions[k + 1].num \in Nat
      BY ONLY <2>1, SMTT(40)
    <2> QED BY ONLY <2>1, <2>2, SMTT(60) DEF Regions
  <1>3. grown = [free_regions EXCEPT ![k] = r]
    <2>1. [free_regions[k] EXCEPT !.num = @ + b.num + free_regions[k + 1].num]
            = r
      BY ONLY <1>1, SMTT(60) DEF Regions
    <2>2. grown = [free_regions EXCEPT ![k] =
                     [free_regions[k] EXCEPT
                        !.num = @ + b.num + free_regions[k + 1].num]]
      OBVIOUS
    <2> QED BY <2>1, <2>2
  <1> HIDE DEF r, grown
  <1>4. /\ grown \in Seq(Regions) /\ Len(grown) = Len(free_regions)
        /\ \A i \in 1 .. Len(free_regions) :
             grown[i] = IF i = k THEN r ELSE free_regions[i]
    BY <1>2, <1>3, ExceptSeq
  <1>5. k + 1 \in 1 .. Len(grown)
    BY <1>1, <1>4
  <1>6. /\ RemoveAt(grown, k + 1) \in Seq(Regions)
        /\ Len(RemoveAt(grown, k + 1)) = Len(grown) - 1
        /\ \A i \in 1 .. Len(grown) - 1 :
             RemoveAt(grown, k + 1)[i] = IF i < k + 1 THEN grown[i]
                                         ELSE grown[i + 1]
    BY <1>4, <1>5, RemoveAtProperties
  <1>7. ASSUME NEW i \in 1 .. Len(free_regions) - 1
        PROVE  RemoveAt(grown, k + 1)[i] = IF i = k THEN r
                                           ELSE IF i < k THEN free_regions[i]
                                           ELSE free_regions[i + 1]
    BY <1>1, <1>4, <1>6
  <1> QED
    BY <1>4, <1>6, <1>7 DEF r, grown

\* Every step keeps the types, the capacity and the loop index in range.
LEMMA TypeStep == TypeOK /\ [Next]_vars => TypeOK'
  <1> SUFFICES ASSUME TypeOK, [Next]_vars PROVE TypeOK'
    OBVIOUS
  <1> USE DEF TypeOK
  <1>1. CASE InitEntry
    <2>1. /\ next \in DOMAIN memmap /\ Len(memmap) \in Nat
          /\ RegionOf(memmap[next]) \in Regions
      BY <1>1, EntriesTyped DEF InitEntry
    <2>2. CASE memmap[next].usable
      <3>1. Append(free_regions, RegionOf(memmap[next])) \in Seq(Regions)
              /\ Len(Append(free_regions, RegionOf(memmap[next])))
                   = Len(free_regions) + 1
        BY <2>1, AppendProperties
      <3>2. CASE Len(free_regions) >= MaxFreeRegions
        BY <1>1, <2>1, <2>2, <3>2 DEF InitEntry, AddFreeRegion
      <3>3. CASE ~(Len(free_regions) >= MaxFreeRegions)
        <4>1. /\ free_regions' = Append(free_regions, RegionOf(memmap[next]))
              /\ next' = next + 1
              /\ UNCHANGED <<status, memmap, held, misjoined>>
          BY <1>1, <2>2, <3>3 DEF InitEntry, AddFreeRegion
        <4>2. /\ Len(free_regions') <= MaxFreeRegions /\ status = "init"
              /\ Len(free_regions') \in Nat /\ MaxFreeRegions \in Nat
          BY <1>1, <2>1, <3>1, <3>3, <4>1, LenProperties, CapacityAssumption
          DEF InitEntry
        <4>3. next + 1 \in 1 .. Len(memmap) + 1
          BY <2>1
        <4> QED
          BY <3>1, <4>1, <4>2, <4>3
      <3> QED
        BY <3>2, <3>3
    <2>3. CASE ~memmap[next].usable
      BY <1>1, <2>1, <2>3 DEF InitEntry
    <2> QED BY <2>2, <2>3
  <1>2. CASE FinishInit
    BY <1>2 DEF FinishInit
  <1>3. ASSUME NEW c \in Clients, NEW n \in RequestSizes, Allocate(c, n)
        PROVE  TypeOK'
    <2>1. PICK i \in Fits(n) :
            /\ held' = [held EXCEPT ![c] =
                          [start |-> free_regions[i].start, num |-> n]]
            /\ free_regions' = [free_regions EXCEPT ![i] =
                                  [start |-> @.start + n, num |-> @.num - n]]
      BY <1>3 DEF Allocate
    <2>2. /\ i \in 1 .. Len(free_regions) /\ n \in Nat
          /\ free_regions[i].start \in Nat /\ free_regions[i].num \in Nat
          /\ free_regions[i].num >= n
      BY RegionsTyped, RequestAssumption DEF Fits
    <2>3. [start |-> free_regions[i].start, num |-> n] \in Regions
      BY <2>2 DEF Regions
    <2>4. [start |-> free_regions[i].start + n,
           num |-> free_regions[i].num - n] \in Regions
      <3>1. /\ free_regions[i].start + n \in Nat
            /\ free_regions[i].num - n \in Nat
        BY <2>2
      <3> QED BY <3>1 DEF Regions
    <2>5. /\ free_regions' \in Seq(Regions)
          /\ Len(free_regions') = Len(free_regions)
      BY <2>1, <2>2, <2>4, ExceptSeq
    <2>6. held' \in [Clients -> Regions]
      BY <2>1, <2>3
    <2> QED BY <1>3, <2>5, <2>6 DEF Allocate
  <1>4. ASSUME NEW c \in Clients, NEW n \in RequestSizes, AllocateHalts(c, n)
        PROVE  TypeOK'
    BY <1>4 DEF AllocateHalts
  <1>5. ASSUME NEW c \in Clients, Deallocate(c)
        PROVE  TypeOK'
    <2> DEFINE b == held[c]
               k == RegionIndex(b.start)
    <2>1. /\ b \in Regions /\ b.start \in Nat /\ b.num \in Nat
          /\ NoBlock \in Regions
      BY DEF Regions, NoBlock
    <2>2. /\ k \in 1 .. Len(free_regions) + 1
          /\ Len(free_regions) > 0 => k \in 1 .. Len(free_regions)
          /\ Len(free_regions) \in Nat
      BY <2>1, RegionIndexRange, RegionsTyped
    <2>3. held' \in [Clients -> Regions]
      BY <1>5, <2>1 DEF Deallocate
    <2> HIDE DEF k, b
    <2>4. CASE MergesBack(k, b) /\ GrowPrevious(k, b)
      <3>1. k - 1 \in 1 .. Len(free_regions)
        BY <2>2, <2>4 DEF MergesBack
      <3>2. /\ free_regions[k - 1] \in Regions
            /\ [free_regions[k - 1] EXCEPT !.num = @ + b.num] \in Regions
        BY <2>1, <3>1, RegionsTyped, SMTT(30) DEF Regions
      <3>3. free_regions' = [free_regions EXCEPT ![k - 1] =
                               [free_regions[k - 1] EXCEPT !.num = @ + b.num]]
        BY <2>4 DEF GrowPrevious
      <3> QED BY <1>5, <2>3, <2>4, <3>1, <3>2, <3>3, ExceptSeq
              DEF Deallocate, GrowPrevious
    <2>5. CASE MergesForward(k, b) /\ JoinNext(k, b)
      <3>1. k \in 1 .. Len(free_regions) /\ k < Len(free_regions)
        BY <2>2, <2>5 DEF MergesForward
      <3>2. /\ free_regions' \in Seq(Regions)
            /\ Len(free_regions') = Len(free_regions) - 1
        BY <2>1, <2>5, <3>1, JoinNextTyped DEF JoinNext
      <3> QED BY <1>5, <2>2, <2>3, <2>5, <3>2, CapacityAssumption
              DEF Deallocate, JoinNext
    <2>6. CASE InsertRegion(k, b)
      <3>1. /\ free_regions' \in Seq(Regions)
            /\ Len(free_regions') = Len(free_regions) + 1
        BY <2>1, <2>2, <2>6, InsertAtProperties DEF InsertRegion
      <3>2. Len(free_regions) <= MaxFreeRegions /\ status = "running"
        BY <1>5, <2>2, CapacityAssumption DEF Deallocate
      <3> QED BY <1>5, <2>2, <2>3, <2>6, <3>1, <3>2, CapacityAssumption
              DEF Deallocate, InsertRegion
    <2> QED BY <1>5, <2>4, <2>5, <2>6 DEF Deallocate, b, k
  <1>6. CASE UNCHANGED vars
    BY <1>6 DEF vars
  <1> QED BY <1>1, <1>2, <1>3, <1>4, <1>5, <1>6 DEF Next

\* Type correctness of the allocator: among the rest, the free list has more
\* entries than the array in status "overrun" only, which nothing but the
\* insertion of deallocate into a full list leads to, and then one more.
THEOREM TypeCorrect == Spec => []TypeOK
  <1>1. Init => TypeOK
    <2> SUFFICES ASSUME Init PROVE TypeOK
      OBVIOUS
    <2>1. memmap \in Memmaps /\ next \in 1 .. Len(memmap) + 1
      BY EntriesTyped DEF Init
    <2>2. free_regions \in Seq(Regions) /\ Len(free_regions) = 0
      BY EmptySeq DEF Init
    <2>3. held \in [Clients -> Regions]
      BY DEF Init, Regions, NoBlock
    <2>4. /\ Len(free_regions) <= MaxFreeRegions
          /\ MaxFreeRegions \in Nat /\ status # "overrun"
      BY <2>2, CapacityAssumption DEF Init
    <2>5. /\ status \in {"init", "running", "halted", "overrun"}
          /\ misjoined \in BOOLEAN
      BY DEF Init
    <2> QED BY <2>1, <2>2, <2>3, <2>4, <2>5 DEF TypeOK
  <1> QED BY <1>1, TypeStep, PTL DEF Spec

-----------------------------------------------------------------------------
\* While somebody holds a block the list has a region: allocate leaves the
\* region it cuts in the list, and a merge removes one of two.
LEMMA CountStep == TypeOK /\ CountNeverWraps /\ [Next]_vars => CountNeverWraps'
  <1> SUFFICES ASSUME TypeOK, CountNeverWraps, [Next]_vars
               PROVE  CountNeverWraps'
    OBVIOUS
  <1>t. TypeOK'
    BY TypeStep
  <1> USE DEF CountNeverWraps
  <1>1. CASE InitEntry
    BY <1>1, AppendProperties, RegionsTyped, EntriesTyped
    DEF InitEntry, AddFreeRegion, TypeOK
  <1>2. CASE FinishInit
    BY <1>2 DEF FinishInit
  <1>3. ASSUME NEW c \in Clients, NEW n \in RequestSizes, Allocate(c, n)
        PROVE  CountNeverWraps'
    <2>1. PICK i \in Fits(n) :
            free_regions' = [free_regions EXCEPT ![i] =
                               [start |-> @.start + n, num |-> @.num - n]]
      BY <1>3 DEF Allocate
    <2>2. i \in 1 .. Len(free_regions) /\ Len(free_regions) \in Nat
      BY RegionsTyped DEF Fits, TypeOK
    <2>3. i \in DOMAIN free_regions'
      BY <2>1 DEF Fits
    <2>4. DOMAIN free_regions' = 1 .. Len(free_regions')
          /\ Len(free_regions') \in Nat
      BY <1>t, LenProperties DEF TypeOK
    <2> QED BY <2>3, <2>4
  <1>4. ASSUME NEW c \in Clients, NEW n \in RequestSizes, AllocateHalts(c, n)
        PROVE  CountNeverWraps'
    BY <1>4 DEF AllocateHalts
  <1>5. ASSUME NEW c \in Clients, Deallocate(c)
        PROVE  CountNeverWraps'
    <2> DEFINE b == held[c]
               k == RegionIndex(b.start)
    <2>1. b \in Regions /\ b.start \in Nat
      BY DEF Regions, TypeOK
    <2>2. /\ Len(free_regions) \in Nat /\ Len(free_regions) > 0
          /\ k \in 1 .. Len(free_regions)
      BY <1>5, <2>1, RegionIndexRange, RegionsTyped DEF Deallocate, TypeOK
    <2> HIDE DEF b, k
    <2>3. ASSUME MergesBack(k, b), GrowPrevious(k, b)
          PROVE  Len(free_regions') > 0
      <3>1. DOMAIN free_regions' = DOMAIN free_regions
        BY <2>3 DEF GrowPrevious
      <3>2. /\ DOMAIN free_regions' = 1 .. Len(free_regions')
            /\ Len(free_regions') \in Nat
        BY <1>t, LenProperties DEF TypeOK
      <3>3. DOMAIN free_regions = 1 .. Len(free_regions)
        BY LenProperties DEF TypeOK
      <3>4. 1 \in DOMAIN free_regions'
        BY <2>2, <3>1, <3>3
      <3> QED BY <3>2, <3>4
    <2>4. ASSUME MergesForward(k, b), JoinNext(k, b)
          PROVE  Len(free_regions') > 0
      <3>1. k < Len(free_regions)
        BY <2>4 DEF MergesForward
      <3>2. Len(free_regions') = Len(free_regions) - 1
        BY <2>1, <2>2, <2>4, <3>1, JoinNextTyped DEF JoinNext, TypeOK
      <3> QED BY <2>2, <3>1, <3>2
    <2>5. ASSUME InsertRegion(k, b)
          PROVE  Len(free_regions') > 0
      <3>1. k \in 1 .. Len(free_regions) + 1
        BY <2>2
      <3>2. Len(InsertAt(free_regions, k, b)) = Len(free_regions) + 1
        BY <2>1, <3>1, InsertAtProperties DEF TypeOK
      <3> QED BY <2>2, <2>5, <3>2 DEF InsertRegion
    <2> QED BY <1>5, <2>3, <2>4, <2>5 DEF Deallocate, b, k
  <1>6. CASE UNCHANGED vars
    BY <1>6 DEF vars
  <1> QED BY <1>1, <1>2, <1>3, <1>4, <1>5, <1>6 DEF Next

\* The unsigned subtraction num_free_regions - 1 in deallocate never wraps.
THEOREM CountSafe == Spec => []CountNeverWraps
  <1>1. Init => CountNeverWraps
    BY DEF Init, CountNeverWraps
  <1> QED BY <1>1, CountStep, TypeCorrect, PTL DEF Spec

-----------------------------------------------------------------------------
(* Frames: what the list surgery does to the sets of pages.                  *)

\* Two runs of frames are apart exactly when they share no frame.
LEMMA ApartIsDisjoint ==
  ASSUME NEW r \in Regions, NEW q \in Regions
  PROVE  Apart(r, q) <=> Span(r) \cap Span(q) = {}
  <1>1. /\ r.start \in Nat /\ r.num \in Nat
        /\ q.start \in Nat /\ q.num \in Nat
    BY DEF Regions
  <1>2. ASSUME Apart(r, q), NEW p \in Span(r), p \in Span(q)
        PROVE  FALSE
    BY <1>1, <1>2 DEF Apart, Span, End
  <1>3. ASSUME ~Apart(r, q)
        PROVE  \E p \in Span(r) : p \in Span(q)
    <2>1. CASE r.start <= q.start
      <3>1. q.start \in Span(r) /\ q.start \in Span(q)
        BY <1>1, <1>3, <2>1 DEF Apart, Span, End
      <3> QED BY <3>1
    <2>2. CASE ~(r.start <= q.start)
      <3>1. r.start \in Span(r) /\ r.start \in Span(q)
        BY <1>1, <1>3, <2>2 DEF Apart, Span, End
      <3> QED BY <3>1
    <2> QED BY <2>1, <2>2
  <1> QED BY <1>2, <1>3

Joined(r, b) == [start |-> r.start, num |-> r.num + b.num]

\* Growing a region by a block that starts where the region ends.
LEMMA JoinedRegion ==
  ASSUME NEW r \in Regions, NEW b \in Regions, End(r) = b.start
  PROVE  /\ Joined(r, b) \in Regions
         /\ End(Joined(r, b)) = End(b)
         /\ Span(Joined(r, b)) = Span(r) \cup Span(b)
         /\ \A q \in Regions :
              Apart(r, q) /\ Apart(b, q)
                => Apart(Joined(r, b), q) /\ Apart(q, Joined(r, b))
  <1>1. /\ r.start \in Nat /\ r.num \in Nat
        /\ b.start \in Nat /\ b.num \in Nat
    BY DEF Regions
  <1>2. /\ Joined(r, b).start = r.start
        /\ Joined(r, b).num = r.num + b.num
        /\ Joined(r, b).num \in Nat
    BY <1>1 DEF Joined
  <1>3. Joined(r, b) \in Regions
    BY <1>1, <1>2 DEF Joined, Regions
  <1>4. End(Joined(r, b)) = End(b)
    BY <1>1, <1>2 DEF End
  <1>5. Span(Joined(r, b)) = Span(r) \cup Span(b)
    <2>1. \A p : p \in Span(Joined(r, b)) <=> p \in Span(r) \/ p \in Span(b)
      BY <1>1, <1>2 DEF Span, End
    <2> QED BY <2>1
  <1>6. ASSUME NEW q \in Regions, Apart(r, q), Apart(b, q)
        PROVE  Apart(Joined(r, b), q) /\ Apart(q, Joined(r, b))
    <2>1. Joined(r, b).start = r.start /\ Joined(r, b).num = r.num + b.num
      BY <1>2
    <2>2. q.start \in Nat /\ q.num \in Nat
      BY DEF Regions
    <2> QED BY <1>1, <1>6, <2>1, <2>2 DEF Apart, End
  <1> QED BY <1>3, <1>4, <1>5, <1>6

LEMMA ApartSymmetric ==
  \A r, q \in Regions : Apart(r, q) => Apart(q, r)
  BY DEF Apart

\* allocate cuts the front off one region: the block is free frames, and they
\* stop being free.
LEMMA AllocateFrames ==
  ASSUME TypeOK, Exclusive, NEW c \in Clients, NEW n \in RequestSizes,
         Allocate(c, n)
  PROVE  /\ Span(held'[c]) \subseteq FreePages
         /\ held' = [held EXCEPT ![c] = held'[c]]
         /\ held'[c] \in Regions /\ held'[c].num = n
         /\ End(held'[c]) <= FrameLimit
         /\ FreePages' = FreePages \ Span(held'[c])
         /\ Exclusive'
  <1>1. PICK i \in Fits(n) :
          /\ free_regions[i].start + n <= FrameLimit
          /\ held' = [held EXCEPT ![c] =
                        [start |-> free_regions[i].start, num |-> n]]
          /\ free_regions' = [free_regions EXCEPT ![i] =
                                [start |-> @.start + n, num |-> @.num - n]]
    BY DEF Allocate
  <1> DEFINE r == free_regions[i]
             b == [start |-> r.start, num |-> n]
             rest == [start |-> r.start + n, num |-> r.num - n]
  <1>2. /\ i \in DOMAIN free_regions /\ r \in Regions
        /\ n \in Nat /\ n > 0 /\ r.start \in Nat /\ r.num \in Nat /\ r.num >= n
    BY RegionsTyped, RequestAssumption DEF Fits, TypeOK
  <1>3. /\ b \in Regions /\ rest \in Regions
        /\ b.start = r.start /\ b.num = n
        /\ rest.start = r.start + n /\ rest.num = r.num - n
    <2>1. r.start + n \in Nat /\ r.num - n \in Nat
      BY <1>2
    <2> QED BY <1>2, <2>1 DEF Regions
  <1>4. /\ held'[c] = b /\ held' = [held EXCEPT ![c] = b]
        /\ \A d \in Clients : d # c => held'[d] = held[d]
    BY <1>1 DEF TypeOK
  <1>5. /\ DOMAIN free_regions' = DOMAIN free_regions
        /\ free_regions'[i] = rest
        /\ \A j \in DOMAIN free_regions :
             j # i => free_regions'[j] = free_regions[j]
    BY <1>1, <1>2
  <1> HIDE DEF r, b, rest
  <1>6. /\ Span(b) \cup Span(rest) = Span(r)
        /\ Span(b) \cap Span(rest) = {}
        /\ Apart(rest, b)
    <2>1. \A p : p \in Span(r) <=> p \in Span(b) \/ p \in Span(rest)
      BY <1>2, <1>3 DEF Span, End
    <2>2. Apart(rest, b)
      BY <1>2, <1>3 DEF Apart, End
    <2>3. Span(rest) \cap Span(b) = {}
      BY <1>3, <2>2, ApartIsDisjoint
    <2> QED BY <2>1, <2>2, <2>3
  <1>7. ASSUME NEW q \in Regions, Apart(r, q)
        PROVE  /\ Apart(b, q) /\ Apart(q, b)
               /\ Apart(rest, q) /\ Apart(q, rest)
    <2>1. q.start \in Nat /\ q.num \in Nat
      BY DEF Regions
    <2> QED BY <1>2, <1>3, <1>7, <2>1 DEF Apart, End
  <1>8. \A j \in DOMAIN free_regions : free_regions[j] \in Regions
    BY RegionsTyped DEF TypeOK
  <1>9. \A d \in Clients : held[d] \in Regions
    BY DEF TypeOK
  <1>10. /\ \A j \in DOMAIN free_regions : j # i => Apart(r, free_regions[j])
         /\ \A d \in Clients : Apart(r, held[d])
    BY <1>2 DEF Exclusive, r
  <1>11. Exclusive'
    <2>1. ASSUME NEW j \in DOMAIN free_regions', NEW m \in DOMAIN free_regions',
                 j # m
          PROVE  Apart(free_regions'[j], free_regions'[m])
      BY <1>5, <1>7, <1>8, <1>10, <2>1 DEF Exclusive
    <2>2. ASSUME NEW j \in DOMAIN free_regions', NEW d \in Clients
          PROVE  Apart(free_regions'[j], held'[d])
      <3>1. CASE j = i /\ d = c
        BY <1>4, <1>5, <1>6, <3>1
      <3>2. CASE j = i /\ d # c
        BY <1>4, <1>5, <1>7, <1>9, <1>10, <3>2
      <3>3. CASE j # i /\ d = c
        BY <1>4, <1>5, <1>7, <1>8, <1>10, <3>3
      <3>4. CASE j # i /\ d # c
        BY <1>4, <1>5, <3>4 DEF Exclusive
      <3> QED BY <3>1, <3>2, <3>3, <3>4
    <2>3. ASSUME NEW d \in Clients, NEW e \in Clients, d # e
          PROVE  Apart(held'[d], held'[e])
      BY <1>4, <1>7, <1>9, <1>10, <2>3 DEF Exclusive
    <2> QED BY <2>1, <2>2, <2>3 DEF Exclusive
  <1>12. \A j \in DOMAIN free_regions :
           j # i => Span(free_regions[j]) \cap Span(b) = {}
    BY <1>3, <1>7, <1>8, <1>10, ApartIsDisjoint
  <1>13. FreePages' = FreePages \ Span(b)
    <2>1. ASSUME NEW p, p \in FreePages'
          PROVE  p \in FreePages \ Span(b)
      <3>1. PICK j \in DOMAIN free_regions : p \in Span(free_regions'[j])
        BY <1>5, <2>1 DEF FreePages
      <3>2. CASE j = i
        BY <1>2, <1>5, <1>6, <3>1, <3>2 DEF FreePages, r
      <3>3. CASE j # i
        BY <1>5, <1>12, <3>1, <3>3 DEF FreePages
      <3> QED BY <3>2, <3>3
    <2>2. ASSUME NEW p, p \in FreePages, p \notin Span(b)
          PROVE  p \in FreePages'
      <3>1. PICK j \in DOMAIN free_regions : p \in Span(free_regions[j])
        BY <2>2 DEF FreePages
      <3>2. CASE j = i
        BY <1>2, <1>5, <1>6, <2>2, <3>1, <3>2 DEF FreePages, r
      <3>3. CASE j # i
        BY <1>5, <3>1, <3>3 DEF FreePages
      <3> QED BY <3>2, <3>3
    <2> QED BY <2>1, <2>2
  <1>14. Span(b) \subseteq FreePages
    BY <1>2, <1>6 DEF FreePages, r
  <1>15. End(b) <= FrameLimit
    BY <1>1, <1>3 DEF End, r
  <1> QED BY <1>3, <1>4, <1>11, <1>13, <1>14, <1>15

\* Every branch of deallocate keeps the list a list of disjoint runs and adds
\* exactly the frames returned, unless it merges into the wrong region or runs
\* past the array.
LEMMA DeallocateFrames ==
  ASSUME TypeOK, Exclusive, NEW c \in Clients, Deallocate(c),
         ~misjoined', status' # "overrun"
  PROVE  /\ FreePages' = FreePages \cup Span(held[c])
         /\ held' = [held EXCEPT ![c] = NoBlock]
         /\ Exclusive'
  <1> DEFINE b == held[c]
             k == RegionIndex(b.start)
             fr == free_regions
             n == Len(free_regions)
  <1>1. /\ n \in Nat /\ DOMAIN fr = 1 .. n
        /\ \A i \in 1 .. n : fr[i] \in Regions
    BY RegionsTyped DEF TypeOK
  <1>2. /\ b \in Regions /\ b.start \in Nat /\ b.num \in Nat
        /\ NoBlock \in Regions /\ NoBlock.num = 0 /\ Span(NoBlock) = {}
    BY DEF TypeOK, Regions, NoBlock, Span, End
  <1>3. k \in 1 .. n + 1 /\ (n > 0 => k \in 1 .. n)
    BY <1>1, <1>2, RegionIndexRange DEF TypeOK
  <1>4. held' = [held EXCEPT ![c] = NoBlock]
    BY DEF Deallocate
  <1>5. held'[c] = NoBlock /\ \A d \in Clients : d # c => held'[d] = held[d]
    BY <1>4 DEF TypeOK
  <1>6. \A d \in Clients : d # c => held[d] \in Regions /\ Apart(b, held[d])
    BY DEF TypeOK, Exclusive
  <1>7. \A i \in 1 .. n : Apart(fr[i], b) /\ Apart(b, fr[i])
    BY <1>1, <1>2, ApartSymmetric DEF Exclusive
  <1>8. \A i, j \in 1 .. n : i # j => Apart(fr[i], fr[j])
    BY <1>1 DEF Exclusive
  <1>9. \A i \in 1 .. n, d \in Clients : Apart(fr[i], held[d])
    BY <1>1 DEF Exclusive
  \* It is enough that the new list is disjoint inside and from the other
  \* clients' blocks, and covers the old frames and the block.
  <1>10. ASSUME \A i, j \in DOMAIN free_regions' :
                   i # j => Apart(free_regions'[i], free_regions'[j]),
                \A i \in DOMAIN free_regions' :
                   free_regions'[i] \in Regions,
                \A i \in DOMAIN free_regions', d \in Clients :
                   d # c => Apart(free_regions'[i], held[d])
         PROVE  Exclusive'
    <2>1. ASSUME NEW i \in DOMAIN free_regions', NEW d \in Clients
          PROVE  Apart(free_regions'[i], held'[d])
      BY <1>2, <1>5, <1>10 DEF Apart
    <2>2. ASSUME NEW d \in Clients, NEW e \in Clients, d # e
          PROVE  Apart(held'[d], held'[e])
      BY <1>2, <1>5, <2>2 DEF Apart, Exclusive
    <2> QED BY <1>10, <2>1, <2>2 DEF Exclusive
  <1>11. b = held[c] /\ fr = free_regions
    OBVIOUS
  <1>12. \/ MergesBack(k, b) /\ GrowPrevious(k, b)
         \/ MergesForward(k, b) /\ JoinNext(k, b)
         \/ InsertRegion(k, b)
    BY DEF Deallocate
  <1> HIDE DEF b, k, fr, n
  <1>13. CASE MergesBack(k, b) /\ GrowPrevious(k, b)
    <2> DEFINE r == Joined(fr[k - 1], b)
    <2>1. k - 1 \in 1 .. n /\ End(fr[k - 1]) = b.start
      BY <1>1, <1>3, <1>11, <1>13 DEF MergesBack
    <2>2. /\ r \in Regions /\ Span(r) = Span(fr[k - 1]) \cup Span(b)
          /\ \A q \in Regions : Apart(fr[k - 1], q) /\ Apart(b, q)
                                  => Apart(r, q) /\ Apart(q, r)
      BY <1>1, <1>2, <2>1, JoinedRegion
    <2>3. [fr[k - 1] EXCEPT !.num = @ + b.num] = r
      BY <1>1, <2>1 DEF Joined, Regions
    <2>4. free_regions' = [fr EXCEPT ![k - 1] = r]
      BY <1>11, <1>13, <2>3 DEF GrowPrevious
    <2>5. /\ DOMAIN free_regions' = 1 .. n
          /\ \A i \in 1 .. n :
               free_regions'[i] = IF i = k - 1 THEN r ELSE fr[i]
      BY <1>1, <2>1, <2>4
    <2> HIDE DEF r
    <2>6. Exclusive'
      <3>1. \A i, j \in DOMAIN free_regions' :
              i # j => Apart(free_regions'[i], free_regions'[j])
        BY <1>1, <1>7, <1>8, <2>1, <2>2, <2>5
      <3>2. \A i \in DOMAIN free_regions', d \in Clients :
              d # c => Apart(free_regions'[i], held[d])
        BY <1>6, <1>9, <2>1, <2>2, <2>5
      <3> QED BY <1>1, <1>10, <2>2, <2>5, <3>1, <3>2
    <2>7. FreePages' = FreePages \cup Span(b)
      <3>1. ASSUME NEW p, p \in FreePages'
            PROVE  p \in FreePages \cup Span(b)
        BY <1>1, <1>11, <2>1, <2>2, <2>5, <3>1 DEF FreePages
      <3>2. ASSUME NEW p, p \in FreePages
            PROVE  p \in FreePages'
        BY <1>1, <1>11, <2>1, <2>2, <2>5, <3>2 DEF FreePages
      <3>3. ASSUME NEW p, p \in Span(b)
            PROVE  p \in FreePages'
        BY <2>1, <2>2, <2>5, <3>3 DEF FreePages
      <3> QED BY <3>1, <3>2, <3>3
    <2> QED BY <1>4, <1>11, <2>6, <2>7
  <1>14. CASE MergesForward(k, b) /\ JoinNext(k, b)
    <2> DEFINE r1 == Joined(fr[k], b)
               r  == Joined(r1, fr[k + 1])
    <2>1. /\ k \in 1 .. n /\ k < n /\ k + 1 \in 1 .. n
          /\ End(b) = fr[k + 1].start
      BY <1>1, <1>3, <1>11, <1>14 DEF MergesForward, n
    <2>2. End(fr[k]) = b.start
      BY <1>11, <1>14 DEF JoinNext, TypeOK
    <2>3. /\ r1 \in Regions /\ Span(r1) = Span(fr[k]) \cup Span(b)
          /\ End(r1) = End(b)
          /\ \A q \in Regions : Apart(fr[k], q) /\ Apart(b, q) => Apart(r1, q)
      BY <1>1, <1>2, <2>1, <2>2, JoinedRegion
    <2>4. /\ r \in Regions /\ Span(r) = Span(r1) \cup Span(fr[k + 1])
          /\ \A q \in Regions : Apart(r1, q) /\ Apart(fr[k + 1], q)
                                  => Apart(r, q) /\ Apart(q, r)
      <3>1. End(r1) = fr[k + 1].start
        BY <2>1, <2>3
      <3> HIDE DEF r1
      <3> QED BY <1>1, <2>1, <2>3, <3>1, JoinedRegion
    <2>5. [start |-> fr[k].start, num |-> fr[k].num + b.num + fr[k + 1].num] = r
      BY DEF Joined
    <2>6. /\ free_regions' \in Seq(Regions)
          /\ Len(free_regions') = n - 1
          /\ \A i \in 1 .. n - 1 :
               free_regions'[i] =
                 IF i = k THEN r ELSE IF i < k THEN fr[i] ELSE fr[i + 1]
      <3>1. k \in 1 .. Len(free_regions) /\ k < Len(free_regions)
        BY <2>1 DEF n
      <3> HIDE DEF r, r1
      <3>2. free_regions' = RemoveAt(
              [free_regions EXCEPT
                 ![k].num = @ + b.num + free_regions[k + 1].num], k + 1)
        BY <1>14 DEF JoinNext
      <3>3. [start |-> free_regions[k].start,
             num |-> free_regions[k].num + b.num + free_regions[k + 1].num] = r
        BY <1>11, <2>5
      <3>4. /\ free_regions' \in Seq(Regions)
            /\ Len(free_regions') = Len(free_regions) - 1
            /\ \A i \in 1 .. Len(free_regions) - 1 :
                 free_regions'[i] =
                   IF i = k THEN r
                   ELSE IF i < k THEN free_regions[i]
                   ELSE free_regions[i + 1]
        <4>1. free_regions \in Seq(Regions) /\ b \in Regions
          BY <1>2 DEF TypeOK
        <4>2. /\ free_regions' \in Seq(Regions)
              /\ Len(free_regions') = Len(free_regions) - 1
              /\ \A i \in 1 .. Len(free_regions) - 1 :
                   free_regions'[i] =
                     IF i = k THEN [start |-> free_regions[k].start,
                                    num |-> free_regions[k].num + b.num
                                              + free_regions[k + 1].num]
                     ELSE IF i < k THEN free_regions[i]
                     ELSE free_regions[i + 1]
          <5> DEFINE t == RemoveAt([free_regions EXCEPT
                             ![k].num = @ + b.num + free_regions[k + 1].num], k + 1)
          <5>1. /\ t \in Seq(Regions)
                /\ Len(t) = Len(free_regions) - 1
                /\ \A i \in 1 .. Len(free_regions) - 1 :
                     t[i] =
                       IF i = k THEN [start |-> free_regions[k].start,
                                      num |-> free_regions[k].num + b.num
                                                + free_regions[k + 1].num]
                       ELSE IF i < k THEN free_regions[i]
                       ELSE free_regions[i + 1]
            BY <3>1, <4>1, JoinNextTyped, ZenonT(40)
          <5>2. free_regions' = t
            BY <3>2, Zenon
          <5> HIDE DEF t
          <5> QED
            BY <5>1, <5>2, Zenon
        <4> QED BY <3>3, <4>2
      <3> QED BY <1>11, <3>4 DEF n
    <2>7. DOMAIN free_regions' = 1 .. n - 1
      BY <2>6, LenProperties
    <2> HIDE DEF r, r1
    <2>8. \A q \in Regions :
            Apart(fr[k], q) /\ Apart(b, q) /\ Apart(fr[k + 1], q)
              => Apart(r, q) /\ Apart(q, r)
      BY <2>3, <2>4
    \* Where the regions of the new list come from.
    <2>9. \A i \in 1 .. n - 1 : i # k =>
            \E j \in 1 .. n : /\ j # k /\ j # k + 1 /\ free_regions'[i] = fr[j]
                              /\ j = IF i < k THEN i ELSE i + 1
      BY <1>1, <2>1, <2>6
    <2>10. Exclusive'
      <3>1. ASSUME NEW i \in 1 .. n - 1, NEW j \in 1 .. n - 1, i # j
            PROVE  Apart(free_regions'[i], free_regions'[j])
        <4>1. CASE i # k /\ j # k
          <5>1. PICK m \in 1 .. n : /\ free_regions'[i] = fr[m]
                                    /\ m = IF i < k THEN i ELSE i + 1
            BY <2>9, <4>1
          <5>2. PICK l \in 1 .. n : /\ free_regions'[j] = fr[l]
                                    /\ l = IF j < k THEN j ELSE j + 1
            BY <2>9, <4>1
          <5>3. m # l
            BY <1>1, <2>1, <3>1, <4>1, <5>1, <5>2
          <5> QED BY <1>8, <5>1, <5>2, <5>3
        <4>2. CASE i = k /\ j # k
          <5>1. PICK m \in 1 .. n :
                  m # k /\ m # k + 1 /\ free_regions'[j] = fr[m]
            BY <2>9, <4>2
          <5> QED BY <1>1, <1>7, <1>8, <2>1, <2>6, <2>8, <4>2, <5>1
        <4>3. CASE i # k /\ j = k
          <5>1. PICK m \in 1 .. n :
                  m # k /\ m # k + 1 /\ free_regions'[i] = fr[m]
            BY <2>9, <4>3
          <5> QED BY <1>1, <1>7, <1>8, <2>1, <2>6, <2>8, <4>3, <5>1
        <4> QED BY <3>1, <4>1, <4>2, <4>3
      <3>2. ASSUME NEW i \in 1 .. n - 1, NEW d \in Clients, d # c
            PROVE  Apart(free_regions'[i], held[d])
        <4>1. CASE i = k
          BY <1>6, <1>9, <2>1, <2>6, <2>8, <3>2, <4>1
        <4>2. CASE i # k
          BY <1>9, <2>9, <4>2
        <4> QED BY <4>1, <4>2
      <3>3. \A i \in 1 .. n - 1 : free_regions'[i] \in Regions
        BY <1>1, <2>4, <2>6, <2>9
      <3> QED BY <1>10, <2>7, <3>1, <3>2, <3>3
    <2>11. FreePages' = FreePages \cup Span(b)
      <3>1. Span(r) = Span(fr[k]) \cup Span(b) \cup Span(fr[k + 1])
        BY <2>3, <2>4
      <3>2. ASSUME NEW p, p \in FreePages'
            PROVE  p \in FreePages \cup Span(b)
        <4>1. PICK i \in 1 .. n - 1 : p \in Span(free_regions'[i])
          BY <2>7, <3>2 DEF FreePages
        <4>2. CASE i = k
          BY <1>1, <1>11, <2>1, <2>6, <3>1, <4>1, <4>2 DEF FreePages
        <4>3. CASE i # k
          BY <1>1, <1>11, <2>9, <4>1, <4>3 DEF FreePages
        <4> QED BY <4>2, <4>3
      <3>3. k \in 1 .. n - 1
        BY <1>1, <2>1
      <3>4. free_regions'[k] = r
        BY <2>6, <3>3
      <3>5. Span(r) \subseteq FreePages'
        BY <2>7, <3>3, <3>4 DEF FreePages
      <3>6. ASSUME NEW p, p \in FreePages
            PROVE  p \in FreePages'
        <4>1. PICK j \in 1 .. n : p \in Span(fr[j])
          BY <1>1, <1>11, <3>6 DEF FreePages
        <4>2. CASE j = k \/ j = k + 1
          BY <3>1, <3>5, <4>1, <4>2
        <4>3. CASE j < k
          <5>1. j \in 1 .. n - 1 /\ free_regions'[j] = fr[j]
            BY <1>1, <2>1, <2>6, <4>3
          <5> QED BY <2>7, <4>1, <5>1 DEF FreePages
        <4>4. CASE j > k + 1
          <5>1. /\ j - 1 \in 1 .. n - 1 /\ ~(j - 1 < k) /\ j - 1 # k
                /\ (j - 1) + 1 = j
            BY <1>1, <2>1, <4>4
          <5>2. free_regions'[j - 1] = fr[j]
            BY <2>6, <5>1
          <5> QED BY <2>7, <4>1, <5>1, <5>2 DEF FreePages
        <4> QED BY <1>1, <2>1, <4>2, <4>3, <4>4
      <3> QED BY <3>1, <3>2, <3>5, <3>6
    <2> QED BY <1>4, <1>11, <2>10, <2>11
  <1>15. CASE InsertRegion(k, b)
    <2>1. free_regions' = InsertAt(fr, k, b)
      BY <1>11, <1>15 DEF InsertRegion
    <2>2. /\ free_regions' \in Seq(Regions)
          /\ Len(free_regions') = n + 1
          /\ \A i \in 1 .. n + 1 :
               free_regions'[i] =
                 IF i < k THEN fr[i] ELSE IF i = k THEN b ELSE fr[i - 1]
      BY <1>2, <1>3, <1>11, <2>1, InsertAtProperties DEF TypeOK, n
    <2>3. DOMAIN free_regions' = 1 .. n + 1
      BY <2>2, LenProperties
    <2>4. \A i \in 1 .. n + 1 : i # k =>
            \E j \in 1 .. n : /\ free_regions'[i] = fr[j]
                              /\ j = IF i < k THEN i ELSE i - 1
      BY <1>1, <1>3, <2>2
    <2>5. Exclusive'
      <3>1. ASSUME NEW i \in 1 .. n + 1, NEW j \in 1 .. n + 1, i # j
            PROVE  Apart(free_regions'[i], free_regions'[j])
        <4>1. CASE i # k /\ j # k
          BY <1>1, <1>3, <1>8, <2>4, <3>1, <4>1
        <4>2. CASE i = k /\ j # k
          BY <1>3, <1>7, <2>2, <2>4, <4>2
        <4>3. CASE i # k /\ j = k
          BY <1>3, <1>7, <2>2, <2>4, <4>3
        <4> QED BY <3>1, <4>1, <4>2, <4>3
      <3>2. ASSUME NEW i \in 1 .. n + 1, NEW d \in Clients, d # c
            PROVE  Apart(free_regions'[i], held[d])
        BY <1>3, <1>6, <1>9, <2>2, <2>4, <3>2
      <3>3. \A i \in 1 .. n + 1 : free_regions'[i] \in Regions
        BY <1>1, <1>2, <2>2, <2>4
      <3> QED BY <1>10, <2>3, <3>1, <3>2, <3>3
    <2>6. FreePages' = FreePages \cup Span(b)
      <3>1. ASSUME NEW p, p \in FreePages'
            PROVE  p \in FreePages \cup Span(b)
        BY <1>1, <1>11, <2>2, <2>3, <2>4, <3>1 DEF FreePages
      <3>2. Span(b) \subseteq FreePages'
        BY <1>3, <2>2, <2>3 DEF FreePages
      <3>3. ASSUME NEW p, p \in FreePages
            PROVE  p \in FreePages'
        <4>1. PICK j \in 1 .. n : p \in Span(fr[j])
          BY <1>1, <1>11, <3>3 DEF FreePages
        <4>2. CASE j < k
          <5>1. j \in 1 .. n + 1 /\ free_regions'[j] = fr[j]
            BY <1>1, <2>2, <4>2
          <5> QED BY <2>3, <4>1, <5>1 DEF FreePages
        <4>3. CASE j >= k
          <5>1. /\ j + 1 \in 1 .. n + 1 /\ ~(j + 1 < k) /\ j + 1 # k
                /\ (j + 1) - 1 = j
            BY <1>1, <1>3, <4>3
          <5>2. free_regions'[j + 1] = fr[j]
            BY <2>2, <5>1
          <5> QED BY <2>3, <4>1, <5>1, <5>2 DEF FreePages
        <4> QED BY <1>1, <1>3, <4>2, <4>3
      <3> QED BY <3>1, <3>2, <3>3
    <2> QED BY <1>4, <1>11, <2>5, <2>6
  <1> QED BY <1>12, <1>13, <1>14, <1>15

\* The loop of FreelistPMMInit adds the frames of one usable entry, none of
\* which was in the list or handed out before.
LEMMA InitEntryFrames ==
  ASSUME TypeOK, Exclusive, Complete, InitEntry,
         free_regions' # free_regions
  PROVE  /\ RegionOf(memmap[next]) \in Regions
         /\ End(RegionOf(memmap[next])) <= FrameLimit
         /\ Span(RegionOf(memmap[next])) \cap (FreePages \cup HeldPages) = {}
         /\ FreePages' = FreePages \cup Span(RegionOf(memmap[next]))
         /\ RegisteredPages' =
              RegisteredPages \cup Span(RegionOf(memmap[next]))
         /\ Exclusive'
  <1> DEFINE e == RegionOf(memmap[next])
  <1>1. /\ next \in DOMAIN memmap /\ memmap[next].usable /\ e \in Regions
        /\ \A i \in DOMAIN memmap : RegionOf(memmap[i]) \in Regions
        /\ next \in Nat /\ DOMAIN memmap = 1 .. Len(memmap)
        /\ Len(memmap) \in Nat
    BY EntriesTyped DEF InitEntry, TypeOK
  <1>2. /\ free_regions' = Append(free_regions, e)
        /\ next' = next + 1 /\ memmap' = memmap /\ held' = held
    BY <1>1 DEF InitEntry, AddFreeRegion
  <1>3. /\ End(e) <= FrameLimit
        /\ \A i \in Registered : Apart(e, RegionOf(memmap[i]))
    <2>1. /\ \A i \in DOMAIN memmap :
               memmap[i].usable => End(RegionOf(memmap[i])) <= FrameLimit
          /\ \A i, j \in DOMAIN memmap :
               i # j /\ memmap[i].usable /\ memmap[j].usable
                 => Apart(RegionOf(memmap[i]), RegionOf(memmap[j]))
      BY MemmapAssumption DEF TypeOK
    <2> QED BY <1>1, <2>1 DEF Registered
  <1>4. Span(e) \cap RegisteredPages = {}
    <2>1. \A i \in Registered : Span(e) \cap Span(RegionOf(memmap[i])) = {}
      BY <1>1, <1>3, ApartIsDisjoint DEF Registered
    <2> QED BY <2>1 DEF RegisteredPages
  <1>5. Registered' = Registered \cup {next}
    BY <1>1, <1>2 DEF Registered
  <1>6. RegisteredPages' = RegisteredPages \cup Span(e)
    BY <1>2, <1>5 DEF RegisteredPages
  <1>7. /\ Len(free_regions) \in Nat
        /\ DOMAIN free_regions = 1 .. Len(free_regions)
        /\ \A i \in 1 .. Len(free_regions) : free_regions[i] \in Regions
    BY RegionsTyped DEF TypeOK
  <1>8. /\ free_regions' \in Seq(Regions)
        /\ Len(free_regions') = Len(free_regions) + 1
        /\ \A i \in 1 .. Len(free_regions) :
             free_regions'[i] = free_regions[i]
        /\ free_regions'[Len(free_regions) + 1] = e
    BY <1>1, <1>2, AppendProperties DEF TypeOK
  <1>9. DOMAIN free_regions' = 1 .. Len(free_regions) + 1
    BY <1>8, LenProperties
  <1> HIDE DEF e
  <1>10. FreePages' = FreePages \cup Span(e)
    <2>1. ASSUME NEW p, p \in FreePages'
          PROVE  p \in FreePages \cup Span(e)
      BY <1>7, <1>8, <1>9, <2>1 DEF FreePages
    <2>2. ASSUME NEW p, p \in FreePages
          PROVE  p \in FreePages'
      BY <1>7, <1>8, <1>9, <2>2 DEF FreePages
    <2>3. Span(e) \subseteq FreePages'
      BY <1>7, <1>8, <1>9 DEF FreePages
    <2> QED BY <2>1, <2>2, <2>3
  <1>11. Span(e) \cap (FreePages \cup HeldPages) = {}
    BY <1>4 DEF Complete
  <1>12. Exclusive'
    <2>1. ASSUME NEW q \in Regions, Span(q) \subseteq FreePages \cup HeldPages
          PROVE  Apart(e, q) /\ Apart(q, e)
      BY <1>1, <1>11, <2>1, ApartIsDisjoint, ApartSymmetric DEF e
    <2>2. \A i \in 1 .. Len(free_regions) :
            Apart(e, free_regions[i]) /\ Apart(free_regions[i], e)
      BY <1>7, <2>1 DEF FreePages
    <2>3. \A d \in Clients : Apart(e, held[d])
      BY <2>1 DEF HeldPages, TypeOK
    <2>4. ASSUME NEW i \in DOMAIN free_regions', NEW j \in DOMAIN free_regions',
                 i # j
          PROVE  Apart(free_regions'[i], free_regions'[j])
      <3>1. CASE i # Len(free_regions) + 1 /\ j # Len(free_regions) + 1
        BY <1>7, <1>8, <1>9, <2>4, <3>1 DEF Exclusive
      <3>2. CASE i = Len(free_regions) + 1 \/ j = Len(free_regions) + 1
        BY <1>7, <1>8, <1>9, <2>2, <2>4, <3>2
      <3> QED BY <3>1, <3>2
    <2>5. ASSUME NEW i \in DOMAIN free_regions', NEW d \in Clients
          PROVE  Apart(free_regions'[i], held'[d])
      <3>1. CASE i = Len(free_regions) + 1
        BY <1>2, <1>8, <2>3, <3>1
      <3>2. CASE i \in 1 .. Len(free_regions)
        BY <1>2, <1>7, <1>8, <3>2 DEF Exclusive
      <3> QED BY <1>7, <1>9, <3>1, <3>2
    <2>6. \A c, d \in Clients : c # d => Apart(held'[c], held'[d])
      BY <1>2 DEF Exclusive
    <2> QED BY <2>4, <2>5, <2>6 DEF Exclusive
  <1> QED BY <1>1, <1>3, <1>6, <1>10, <1>11, <1>12 DEF e

\* The two ways to go wrong are never undone.
LEMMA NeverUndone ==
  ASSUME TypeOK, [Next]_vars, ~misjoined', status' # "overrun"
  PROVE  ~misjoined /\ status # "overrun"
  <1>1. ~misjoined
    <2>1. misjoined \in BOOLEAN
      BY DEF TypeOK
    <2> QED BY <2>1 DEF Next, vars, InitEntry, FinishInit, Allocate,
               AllocateHalts, Deallocate, GrowPrevious, JoinNext, InsertRegion
  <1>2. status # "overrun"
    BY DEF Next, vars, InitEntry, FinishInit, Allocate, AllocateHalts,
           Deallocate
  <1> QED BY <1>1, <1>2

\* One step keeps the partition of the usable frames.
LEMMA PartitionStep ==
  TypeOK /\ Partition /\ [Next]_vars => Partition'
  <1> SUFFICES ASSUME TypeOK, Partition, [Next]_vars,
                      ~misjoined', status' # "overrun"
               PROVE  Exclusive' /\ Complete'
    BY DEF Partition
  <1>1. ~misjoined /\ status # "overrun"
    BY NeverUndone
  <1>3. Exclusive /\ Complete
    BY <1>1 DEF Partition
  <1>4. ASSUME UNCHANGED <<memmap, next, free_regions, held>>
        PROVE  Exclusive' /\ Complete'
    BY <1>3, <1>4 DEF Exclusive, Complete, FreePages, HeldPages,
                      RegisteredPages, Registered
  <1>5. CASE InitEntry
    <2>1. CASE free_regions' # free_regions
      <3>1. HeldPages' = HeldPages
        BY <1>5 DEF InitEntry, HeldPages
      <3> QED BY <1>3, <1>5, <2>1, <3>1, InitEntryFrames DEF Complete
    <2>2. CASE free_regions' = free_regions
      <3>1. CASE next' = next
        BY <1>4, <1>5, <2>2, <3>1 DEF InitEntry
      <3>2. CASE next' # next
        <4>1. ~memmap[next].usable
          <5>1. Append(free_regions, RegionOf(memmap[next])) # free_regions
            <6>1. next \in DOMAIN memmap /\ RegionOf(memmap[next]) \in Regions
              BY <1>5, EntriesTyped DEF InitEntry, TypeOK
            <6>2. Len(Append(free_regions, RegionOf(memmap[next])))
                    = Len(free_regions) + 1
              BY <6>1, AppendProperties DEF TypeOK
            <6>3. Len(free_regions) \in Nat
              BY RegionsTyped DEF TypeOK
            <6> QED BY <6>2, <6>3
          <5> QED BY <1>5, <2>2, <3>2, <5>1 DEF InitEntry, AddFreeRegion
        <4>2. next' = next + 1 /\ next \in Nat /\ memmap' = memmap
              /\ held' = held
          BY <1>5, <4>1, EntriesTyped DEF InitEntry, TypeOK
        <4>3. Registered' = Registered
          BY <4>1, <4>2, EntriesTyped DEF Registered, TypeOK
        <4> QED BY <1>3, <2>2, <4>2, <4>3
                DEF Exclusive, Complete, FreePages, HeldPages, RegisteredPages
      <3> QED BY <3>1, <3>2
    <2> QED BY <2>1, <2>2
  <1>6. CASE FinishInit
    BY <1>4, <1>6 DEF FinishInit
  <1>7. ASSUME NEW c \in Clients, NEW n \in RequestSizes, Allocate(c, n)
        PROVE  Exclusive' /\ Complete'
    <2>1. /\ Span(held'[c]) \subseteq FreePages
          /\ held' = [held EXCEPT ![c] = held'[c]]
          /\ FreePages' = FreePages \ Span(held'[c])
          /\ Exclusive'
      BY <1>3, <1>7, AllocateFrames
    <2>2. RegisteredPages' = RegisteredPages
      BY <1>7 DEF Allocate, RegisteredPages, Registered
    <2>3. HeldPages' = HeldPages \cup Span(held'[c])
      <3>1. DOMAIN held = Clients /\ Span(held[c]) = {}
        BY <1>7 DEF TypeOK, Allocate, NoBlock, Span, End
      <3> HIDE DEF Span
      <3> QED BY <2>1, <3>1 DEF HeldPages
    <2> QED BY <1>3, <2>1, <2>2, <2>3 DEF Complete
  <1>8. ASSUME NEW c \in Clients, NEW n \in RequestSizes, AllocateHalts(c, n)
        PROVE  Exclusive' /\ Complete'
    BY <1>4, <1>8 DEF AllocateHalts
  <1>9. ASSUME NEW c \in Clients, Deallocate(c)
        PROVE  Exclusive' /\ Complete'
    <2>1. /\ FreePages' = FreePages \cup Span(held[c])
          /\ held' = [held EXCEPT ![c] = NoBlock]
          /\ Exclusive'
      BY <1>3, <1>9, DeallocateFrames
    <2>2. RegisteredPages' = RegisteredPages
      BY <1>9 DEF Deallocate, RegisteredPages, Registered
    <2>3. HeldPages = HeldPages' \cup Span(held[c])
      <3>1. DOMAIN held = Clients /\ Span(NoBlock) = {}
        BY DEF TypeOK, NoBlock, Span, End
      <3> HIDE DEF Span
      <3> QED BY <2>1, <3>1 DEF HeldPages
    <2> QED BY <1>3, <2>1, <2>2, <2>3 DEF Complete
  <1>10. CASE UNCHANGED vars
    BY <1>4, <1>10 DEF vars
  <1> QED BY <1>5, <1>6, <1>7, <1>8, <1>9, <1>10 DEF Next

\* Until a forward merge first takes the wrong region, every usable frame that
\* was registered has exactly one owner, whatever the map, the clients and the
\* order of their calls.
THEOREM PartitionHolds == Spec => []Partition
  <1>1. Init => Partition
    <2> SUFFICES ASSUME Init PROVE Exclusive /\ Complete
      BY DEF Partition
    <2>1. DOMAIN free_regions = {} /\ Registered = {}
      BY EntriesTyped DEF Init, Registered
    <2>2. \A c \in Clients : held[c] = NoBlock
      BY DEF Init
    <2>3. NoBlock.num = 0 /\ Span(NoBlock) = {}
      BY DEF NoBlock, Span, End
    <2>4. Exclusive
      BY <2>1, <2>2, <2>3 DEF Exclusive, Apart
    <2>5. FreePages = {} /\ HeldPages = {} /\ RegisteredPages = {}
      BY <2>1, <2>2, <2>3 DEF FreePages, HeldPages, RegisteredPages
    <2> QED BY <2>4, <2>5 DEF Complete
  <1> QED BY <1>1, PartitionStep, TypeCorrect, PTL DEF Spec

\* A step of the allocator is a step of PageAllocator, or changes no owner.
LEMMA ImplementationStep ==
  TypeOK /\ Partition /\ [Next]_vars
    => [misjoined' \/ status' = "overrun" \/ PA!Next]_(PA!vars)
  <1> DEFINE H == [d \in Clients |-> Span(held[d])]
  <1> SUFFICES ASSUME TypeOK, Partition, [Next]_vars,
                      ~misjoined', status' # "overrun"
               PROVE  PA!Next \/ (FreePages' = FreePages /\ H' = H)
    BY DEF PA!vars
  <1>1. ~misjoined /\ status # "overrun"
    BY NeverUndone
  <1>2. Exclusive /\ Complete
    BY <1>1 DEF Partition
  <1>3. ASSUME UNCHANGED <<free_regions, held>>
        PROVE  FreePages' = FreePages /\ H' = H
    BY <1>3 DEF FreePages
  <1>4. CASE InitEntry
    <2>1. CASE free_regions' = free_regions
      BY <1>3, <1>4, <2>1 DEF InitEntry
    <2>2. CASE free_regions' # free_regions
      <3> DEFINE e == RegionOf(memmap[next])
      <3>1. /\ e \in Regions /\ End(e) <= FrameLimit
            /\ Span(e) \cap (FreePages \cup HeldPages) = {}
            /\ FreePages' = FreePages \cup Span(e)
        BY <1>2, <1>4, <2>2, InitEntryFrames
      <3>2. e.start \in 0 .. FrameLimit /\ e.num \in 0 .. FrameLimit
        BY <3>1, LimitAssumption DEF Regions, End
      <3>3. PA!Run(e.start, e.num) = Span(e)
        BY <3>1 DEF PA!Run, Span, End, Regions
      <3>4. H' = H
        BY <1>4 DEF InitEntry
      <3> HIDE DEF e
      <3>5. \A c \in Clients : Span(e) \cap H[c] = {}
        BY <3>1 DEF HeldPages
      <3>6. PA!Register(e.start, e.num)
        BY <3>1, <3>3, <3>4, <3>5 DEF PA!Register
      <3> QED BY <3>2, <3>6 DEF PA!Next
    <2> QED BY <2>1, <2>2
  <1>5. CASE FinishInit
    BY <1>3, <1>5 DEF FinishInit
  <1>6. ASSUME NEW c \in Clients, NEW n \in RequestSizes, Allocate(c, n)
        PROVE  PA!Next
    <2> DEFINE b == held'[c]
    <2>1. /\ Span(b) \subseteq FreePages
          /\ held' = [held EXCEPT ![c] = b]
          /\ b \in Regions /\ b.num = n /\ End(b) <= FrameLimit
          /\ FreePages' = FreePages \ Span(b)
      BY <1>2, <1>6, AllocateFrames
    <2>2. b.start \in 0 .. FrameLimit
      BY <2>1, LimitAssumption DEF Regions, End
    <2>3. PA!Run(b.start, n) = Span(b)
      BY <2>1 DEF PA!Run, Span, End, Regions
    <2>4. H[c] = {}
      BY <1>6 DEF Allocate, NoBlock, Span, End
    <2> HIDE DEF b
    <2>5. H' = [H EXCEPT ![c] = Span(b)]
      BY <2>1 DEF TypeOK
    <2>6. PA!Allocate(c, b.start, n)
      BY <2>1, <2>3, <2>4, <2>5 DEF PA!Allocate
    <2> QED BY <2>2, <2>6 DEF PA!Next
  <1>7. ASSUME NEW c \in Clients, NEW n \in RequestSizes, AllocateHalts(c, n)
        PROVE  FreePages' = FreePages /\ H' = H
    BY <1>3, <1>7 DEF AllocateHalts
  <1>8. ASSUME NEW c \in Clients, Deallocate(c)
        PROVE  PA!Next
    <2>1. /\ FreePages' = FreePages \cup Span(held[c])
          /\ held' = [held EXCEPT ![c] = NoBlock]
      BY <1>2, <1>8, DeallocateFrames
    <2>2. Span(NoBlock) = {}
      BY DEF NoBlock, Span, End
    <2>3. H' = [H EXCEPT ![c] = {}]
      BY <2>1, <2>2 DEF TypeOK
    <2>4. PA!Deallocate(c)
      BY <2>1, <2>3 DEF PA!Deallocate
    <2> QED BY <2>4 DEF PA!Next
  <1>9. CASE UNCHANGED vars
    BY <1>3, <1>9 DEF vars
  <1> QED BY <1>4, <1>5, <1>6, <1>7, <1>8, <1>9 DEF Next

\* The free list implements the abstract allocator until it first goes wrong.
THEOREM AllocatorImplemented == Spec => ImplementsAllocator
  <1>1. Init => PA!Init
    BY DEF Init, PA!Init, FreePages, NoBlock, Span, End
  <1> QED BY <1>1, ImplementationStep, TypeCorrect, PartitionHolds, PTL
          DEF Spec, ImplementsAllocator

-----------------------------------------------------------------------------
(* Sums over finite sets, by induction over the number of elements.         *)

\* Induction over the numbers, for a set of numbers: its least non-member has a
\* predecessor, which is a member.
LEMMA NatSetInduction ==
  ASSUME NEW S, 0 \in S, \A n \in Nat : n \in S => n + 1 \in S
  PROVE  Nat \subseteq S
  <1> DEFINE R == OpToRel(<, Nat)
  <1>1. \A x, y \in Nat : <<x, y>> \in R <=> x < y
    BY DEF OpToRel
  <1>2. IsWellFoundedOn(R, Nat)
    BY NatLessThanWellFounded, Zenon
  <1> HIDE DEF R
  <1>3. SUFFICES ASSUME Nat \ S # {} PROVE FALSE
    BY Zenon
  <1>4. PICK x \in Nat \ S : \A y \in Nat \ S : ~(<<y, x>> \in R)
    <2>1. Nat \ S \subseteq Nat
      OBVIOUS
    <2> QED BY <1>2, <1>3, <2>1, WFMin, Zenon
  <1>5. x # 0
    BY <1>4
  <1>6. x - 1 \in Nat /\ x - 1 < x /\ x - 1 + 1 = x
    BY <1>4, <1>5
  <1>7. x - 1 \in S
    BY <1>1, <1>4, <1>6
  <1> QED
    BY <1>4, <1>6, <1>7

\* h sums f over the subsets of T, taking out first what c picks.
Sums(h, f, c, T) ==
  h = [s \in SUBSET T |->
         IF s = {} THEN 0 ELSE f[c[s]] + h[s \ {c[s]}]]

Picks(c, T) == \A s \in SUBSET T : s # {} => c[s] \in s

\* A finite set without one of its elements has one element less.
LEMMA SmallerSubset ==
  ASSUME NEW T, IsFiniteSet(T), NEW s \in SUBSET T, NEW x \in s
  PROVE  /\ Cardinality(s) \in Nat /\ Cardinality(s \ {x}) \in Nat
         /\ Cardinality(s \ {x}) + 1 = Cardinality(s)
         /\ s \ {x} \in SUBSET T
  <1>1. IsFiniteSet(s)
    BY FS_Subset
  <1>2. /\ IsFiniteSet(s \ {x})
        /\ Cardinality(s \ {x}) = Cardinality(s) - 1
    BY <1>1, FS_RemoveElement
  <1>3. Cardinality(s) \in Nat /\ Cardinality(s \ {x}) \in Nat
    BY <1>1, <1>2, FS_CardinalityType
  <1> QED BY <1>2, <1>3

\* The recursive definition has a solution: one for the sets of up to n elements
\* extends to those of n + 1.
LEMMA SumsExist ==
  ASSUME NEW T, IsFiniteSet(T), NEW f, NEW c, Picks(c, T)
  PROVE  \E h : Sums(h, f, c, T)
  <1> DEFINE Small(n) == {s \in SUBSET T : Cardinality(s) <= n}
             Value(h, s) == IF s = {} THEN 0 ELSE f[c[s]] + h[s \ {c[s]}]
             Good == {n \in Nat : \E h : h = [s \in Small(n) |-> Value(h, s)]}
  <1>0. \A s \in SUBSET T : Cardinality(s) \in Nat
    BY FS_Subset, FS_CardinalityType
  <1>1. 0 \in Good
    <2> DEFINE h == [s \in Small(0) |-> 0]
    <2>1. ASSUME NEW s \in Small(0) PROVE s = {}
      <3>1. IsFiniteSet(s) /\ Cardinality(s) = 0
        BY <1>0, FS_Subset
      <3> QED BY <3>1, FS_EmptySet
    <2>2. h = [s \in Small(0) |-> Value(h, s)]
      BY <2>1
    <2> QED BY <2>2
  <1>2. ASSUME NEW n \in Nat, n \in Good PROVE n + 1 \in Good
    <2>1. PICK h : h = [s \in Small(n) |-> Value(h, s)]
      BY <1>2
    <2> DEFINE g == [s \in Small(n + 1) |->
                       IF s \in Small(n) THEN h[s] ELSE Value(h, s)]
    <2>2. ASSUME NEW s \in Small(n + 1), s # {}
          PROVE  s \ {c[s]} \in Small(n)
      <3>1. s \in SUBSET T /\ c[s] \in s
        BY <2>2 DEF Picks
      <3>2. s \ {c[s]} \in SUBSET T /\ Cardinality(s \ {c[s]}) \in Nat
            /\ Cardinality(s \ {c[s]}) + 1 = Cardinality(s)
            /\ Cardinality(s) \in Nat
        BY <3>1, SmallerSubset
      <3>3. Cardinality(s) <= n + 1
        BY <2>2
      <3>4. Cardinality(s \ {c[s]}) <= n
        BY ONLY <3>2, <3>3, n \in Nat
      <3> QED BY <3>2, <3>4
    <2>3. Small(n) \subseteq Small(n + 1)
      BY <1>0
    <2>4. \A s \in Small(n) : g[s] = h[s] /\ h[s] = Value(h, s)
      BY <2>1, <2>3
    <2>5. ASSUME NEW s \in Small(n + 1)
          PROVE  g[s] = Value(g, s)
      <3>1. g[s] = Value(h, s)
        BY <2>4, Zenon
      <3>2. Value(h, s) = Value(g, s)
        BY <2>2, <2>4, Zenon
      <3> QED BY <3>1, <3>2
    <2>6. g = [s \in Small(n + 1) |-> Value(g, s)]
      <3>1. g = [s \in Small(n + 1) |-> g[s]]
        OBVIOUS
      <3> HIDE DEF g
      <3> QED BY <2>5, <3>1, Zenon
    <2> HIDE DEF g, Value, Small
    <2>7. \E hh : hh = [s \in Small(n + 1) |-> Value(hh, s)]
      BY <2>6, Zenon
    <2>8. n + 1 \in Nat
      OBVIOUS
    <2> QED BY <2>7, <2>8, Zenon
  <1>3. Cardinality(T) \in Good
    <2>1. Nat \subseteq Good
      <3> HIDE DEF Good
      <3> QED BY <1>1, <1>2, NatSetInduction
    <2> QED BY <1>0, <2>1
  <1>4. Small(Cardinality(T)) = SUBSET T
    <2>1. \A s \in SUBSET T : Cardinality(s) <= Cardinality(T)
      BY FS_Subset
    <2> QED BY <2>1
  <1> QED BY <1>3, <1>4 DEF Sums

\* In whatever order elements are taken out.
AddsUp(h, f, T) ==
  /\ h[{}] = 0
  /\ \A s \in SUBSET T :
       h[s] \in Int /\ \A x \in s : h[s] = f[x] + h[s \ {x}]

\* The order in which c picks does not matter.
LEMMA SumsProperties ==
  ASSUME NEW T, IsFiniteSet(T), NEW f, NEW c, Picks(c, T),
         \A x \in T : f[x] \in Int,
         NEW h, Sums(h, f, c, T)
  PROVE  AddsUp(h, f, T)
  <1>0. h[{}] = 0
    BY DEF Sums
  <1>1. ASSUME NEW s \in SUBSET T, s # {}
        PROVE  c[s] \in s /\ h[s] = f[c[s]] + h[s \ {c[s]}]
    BY <1>1 DEF Sums, Picks
  <1> DEFINE Fine(s) == h[s] \in Int /\ \A x \in s : h[s] = f[x] + h[s \ {x}]
             Good == {n \in Nat : \A s \in SUBSET T :
                         Cardinality(s) <= n => Fine(s)}
  <1>2. \A s \in SUBSET T : Cardinality(s) \in Nat /\ IsFiniteSet(s)
    BY FS_Subset, FS_CardinalityType
  <1>3. 0 \in Good
    <2>1. ASSUME NEW s \in SUBSET T, Cardinality(s) <= 0 PROVE s = {}
      BY <1>2, <2>1, FS_EmptySet
    <2>2. Fine({})
      BY <1>0
    <2> HIDE DEF Fine
    <2> QED BY <2>1, <2>2
  <1>4. ASSUME NEW n \in Nat, n \in Good PROVE n + 1 \in Good
    <2>1. ASSUME NEW s \in SUBSET T, Cardinality(s) <= n + 1, s # {}
          PROVE  Fine(s)
      <3>1. ASSUME NEW x \in s
            PROVE  s \ {x} \in SUBSET T /\ Fine(s \ {x})
        <4>1. /\ Cardinality(s) \in Nat /\ Cardinality(s \ {x}) \in Nat
              /\ Cardinality(s \ {x}) + 1 = Cardinality(s)
              /\ s \ {x} \in SUBSET T
          BY SmallerSubset
        <4>2. Cardinality(s \ {x}) <= n
          BY ONLY <2>1, <4>1, n \in Nat
        <4> QED BY <1>4, <4>1, <4>2
      <3> DEFINE p == c[s]
      <3>2. p \in s /\ h[s] = f[p] + h[s \ {p}]
        BY <1>1, <2>1
      <3> HIDE DEF p
      <3>3. p \in T /\ f[p] \in Int /\ h[s \ {p}] \in Int
        BY <3>1, <3>2
      <3>4. ASSUME NEW x \in s PROVE h[s] = f[x] + h[s \ {x}]
        <4>1. CASE x = p
          BY <3>2, <4>1
        <4>2. CASE x # p
          <5>1. h[s \ {p}] = f[x] + h[(s \ {p}) \ {x}]
            BY <3>1, <3>2, <4>2
          <5>2. h[s \ {x}] = f[p] + h[(s \ {x}) \ {p}]
            BY <3>1, <3>2, <4>2
          <5>3. (s \ {p}) \ {x} = (s \ {x}) \ {p}
            OBVIOUS
          <5>4. /\ h[(s \ {x}) \ {p}] \in Int
                /\ f[x] \in Int
            <6>1. (s \ {x}) \ {p} \in SUBSET T
                  /\ Cardinality((s \ {x}) \ {p}) <= n
              <7> DEFINE y == s \ {x}
              <7>1. p \in y /\ y \in SUBSET T
                BY <3>2, <4>2
              <7>2. /\ Cardinality(y) \in Nat
                    /\ Cardinality(y \ {p}) \in Nat
                    /\ Cardinality(y \ {p}) + 1 = Cardinality(y)
                <8> HIDE DEF y
                <8> QED BY <7>1, SmallerSubset
              <7>3. /\ Cardinality(s) \in Nat
                    /\ Cardinality(s \ {x}) + 1 = Cardinality(s)
                BY SmallerSubset
              <7>4. Cardinality((s \ {x}) \ {p}) <= n
                BY ONLY <2>1, <7>2, <7>3, n \in Nat
              <7> QED BY <7>1, <7>4
            <6> QED BY <1>4, <6>1
          <5>5. h[s \ {p}] = f[x] + h[(s \ {x}) \ {p}]
            BY <5>1, <5>3, Zenon
          <5> QED BY ONLY <3>2, <3>3, <5>2, <5>4, <5>5
        <4> QED BY <4>1, <4>2
      <3>5. h[s] \in Int
        BY ONLY <3>2, <3>3
      <3> QED BY <3>4, <3>5, Zenon
    <2>2. Fine({})
      BY <1>0
    <2> HIDE DEF Fine
    <2> QED BY <2>1, <2>2
  <1>5. Nat \subseteq Good
    <2> HIDE DEF Good
    <2> QED BY <1>3, <1>4, NatSetInduction
  <1> QED BY <1>0, <1>2, <1>5 DEF AddsUp

\* The choice MapThenSumSet makes.
Selection(S) == [s \in SUBSET S |-> CHOOSE x \in s : TRUE]

\* The sum of f over S.
Total(f, S) == (CHOOSE h : Sums(h, f, Selection(S), S))[S]

\* What CHOOSE picks is in the set.
LEMMA SelectionPicks == ASSUME NEW S PROVE Picks(Selection(S), S)
  <1> SUFFICES ASSUME NEW s \in SUBSET S, s # {} PROVE Selection(S)[s] \in s
    BY DEF Picks
  <1>1. Selection(S)[s] = CHOOSE x \in s : TRUE
    BY DEF Selection
  <1>2. \E x \in s : TRUE
    OBVIOUS
  <1>3. (CHOOSE x \in s : TRUE) \in s
    BY <1>2, Zenon
  <1> QED BY <1>1, <1>3, Zenon

\* Total is what such a solution gives for the whole set.
LEMMA TotalSums ==
  ASSUME NEW S, IsFiniteSet(S), NEW f
  PROVE  \E h : Sums(h, f, Selection(S), S) /\ Total(f, S) = h[S]
  <1>1. \E h : Sums(h, f, Selection(S), S)
    BY SelectionPicks, SumsExist
  <1>2. Sums(CHOOSE h : Sums(h, f, Selection(S), S), f, Selection(S), S)
    BY <1>1, Zenon
  <1> QED BY <1>2, Zenon DEF Total

\* Two solutions, each with its own set and order, agree where the functions do.
LEMMA SumsAgree ==
  ASSUME NEW S, IsFiniteSet(S), NEW f, NEW c, Picks(c, S), NEW h, Sums(h, f, c, S),
         NEW T, IsFiniteSet(T), NEW g, NEW d, Picks(d, T), NEW k, Sums(k, g, d, T),
         \A x \in S : f[x] \in Int, \A x \in T : g[x] \in Int,
         NEW U \in SUBSET (S \cap T), \A x \in U : f[x] = g[x]
  PROVE  h[U] = k[U]
  <1> DEFINE Same(s) == h[s] = k[s]
             Good == {n \in Nat : \A s \in SUBSET U :
                         Cardinality(s) <= n => Same(s)}
  <1>1. IsFiniteSet(U)
    BY FS_Subset
  <1>2. \A s \in SUBSET U : Cardinality(s) \in Nat /\ IsFiniteSet(s)
    BY <1>1, FS_Subset, FS_CardinalityType
  <1>3. /\ h[{}] = 0
        /\ \A s \in SUBSET S :
             h[s] \in Int /\ \A x \in s : h[s] = f[x] + h[s \ {x}]
    <2>1. AddsUp(h, f, S)
      BY SumsProperties
    <2> QED BY <2>1 DEF AddsUp
  <1>4. /\ k[{}] = 0
        /\ \A s \in SUBSET T :
             k[s] \in Int /\ \A x \in s : k[s] = g[x] + k[s \ {x}]
    <2>1. AddsUp(k, g, T)
      BY SumsProperties
    <2> QED BY <2>1 DEF AddsUp
  <1>8. Same({})
    BY <1>3, <1>4
  <1>5. 0 \in Good
    <2>1. ASSUME NEW s \in SUBSET U, Cardinality(s) <= 0 PROVE s = {}
      BY <1>2, <2>1, FS_EmptySet
    <2> HIDE DEF Same
    <2> QED BY <1>8, <2>1
  <1>6. ASSUME NEW n \in Nat, n \in Good PROVE n + 1 \in Good
    <2>1. ASSUME NEW s \in SUBSET U, Cardinality(s) <= n + 1, s # {}
          PROVE  Same(s)
      <3>1. PICK x \in s : TRUE
        BY <2>1
      <3>2. /\ Cardinality(s) \in Nat /\ Cardinality(s \ {x}) \in Nat
            /\ Cardinality(s \ {x}) + 1 = Cardinality(s)
            /\ s \ {x} \in SUBSET U
        BY <1>1, SmallerSubset
      <3>3. Cardinality(s \ {x}) <= n
        BY ONLY <2>1, <3>2, n \in Nat
      <3>4. h[s \ {x}] = k[s \ {x}]
        BY <1>6, <3>2, <3>3
      <3>5. h[s] = f[x] + h[s \ {x}] /\ k[s] = g[x] + k[s \ {x}]
        BY <1>3, <1>4
      <3>6. f[x] = g[x]
        OBVIOUS
      <3> QED BY ONLY <3>4, <3>5, <3>6, Zenon
    <2> HIDE DEF Same
    <2> QED BY <1>8, <2>1
  <1>7. Nat \subseteq Good
    <2> HIDE DEF Good
    <2> QED BY <1>5, <1>6, NatSetInduction
  <1> QED BY <1>1, <1>2, <1>7

\* The sum of integers is one, and that of none is 0.
LEMMA TotalType ==
  ASSUME NEW S, IsFiniteSet(S), NEW f, \A x \in S : f[x] \in Int
  PROVE  Total(f, S) \in Int /\ (S = {} => Total(f, S) = 0)
  <1>1. PICK h : Sums(h, f, Selection(S), S) /\ Total(f, S) = h[S]
    BY TotalSums
  <1>2. /\ h[{}] = 0
        /\ \A s \in SUBSET S :
             h[s] \in Int /\ \A x \in s : h[s] = f[x] + h[s \ {x}]
    BY <1>1, SelectionPicks, SumsProperties DEF AddsUp
  <1> QED BY <1>1, <1>2

\* Functions that agree on the set have the same sum.
LEMMA TotalSame ==
  ASSUME NEW S, IsFiniteSet(S), NEW f, NEW g,
         \A x \in S : f[x] \in Int /\ f[x] = g[x]
  PROVE  Total(f, S) = Total(g, S)
  <1>1. PICK h : Sums(h, f, Selection(S), S) /\ Total(f, S) = h[S]
    BY TotalSums
  <1>2. PICK k : Sums(k, g, Selection(S), S) /\ Total(g, S) = k[S]
    BY TotalSums
  <1>3. S \in SUBSET (S \cap S) /\ \A x \in S : g[x] \in Int
    OBVIOUS
  <1> QED BY <1>1, <1>2, <1>3, SelectionPicks, SumsAgree

\* The sum of zeros is 0.
LEMMA TotalZero ==
  ASSUME NEW S, IsFiniteSet(S), NEW f, \A x \in S : f[x] = 0
  PROVE  Total(f, S) = 0
  <1>1. PICK h : Sums(h, f, Selection(S), S) /\ Total(f, S) = h[S]
    BY TotalSums
  <1>2. AddsUp(h, f, S)
    BY <1>1, SelectionPicks, SumsProperties
  <1> DEFINE Zero(s) == h[s] = 0
             Good == {n \in Nat : \A s \in SUBSET S :
                         Cardinality(s) <= n => Zero(s)}
  <1>3. \A s \in SUBSET S : Cardinality(s) \in Nat /\ IsFiniteSet(s)
    BY FS_Subset, FS_CardinalityType
  <1>4. Zero({})
    BY <1>2 DEF AddsUp
  <1>5. 0 \in Good
    <2>1. ASSUME NEW s \in SUBSET S, Cardinality(s) <= 0 PROVE s = {}
      BY <1>3, <2>1, FS_EmptySet
    <2> HIDE DEF Zero
    <2> QED BY <1>4, <2>1
  <1>6. ASSUME NEW n \in Nat, n \in Good PROVE n + 1 \in Good
    <2>1. ASSUME NEW s \in SUBSET S, Cardinality(s) <= n + 1, s # {}
          PROVE  Zero(s)
      <3>1. PICK x \in s : TRUE
        BY <2>1
      <3>2. /\ Cardinality(s) \in Nat /\ Cardinality(s \ {x}) \in Nat
            /\ Cardinality(s \ {x}) + 1 = Cardinality(s)
            /\ s \ {x} \in SUBSET S
        BY SmallerSubset
      <3>3. Cardinality(s \ {x}) <= n
        BY ONLY <2>1, <3>2, n \in Nat
      <3>4. h[s \ {x}] = 0
        BY <1>6, <3>2, <3>3
      <3>5. h[s] = f[x] + h[s \ {x}]
        BY <1>2 DEF AddsUp
      <3> QED BY <3>4, <3>5
    <2> HIDE DEF Zero
    <2> QED BY <1>4, <2>1
  <1>7. Nat \subseteq Good
    <2> HIDE DEF Good
    <2> QED BY <1>5, <1>6, NatSetInduction
  <1> QED BY <1>1, <1>3, <1>7

\* One more element.
LEMMA TotalAdd ==
  ASSUME NEW S, IsFiniteSet(S), NEW x, x \notin S,
         NEW f, \A y \in S \cup {x} : f[y] \in Int
  PROVE  Total(f, S \cup {x}) = f[x] + Total(f, S)
  <1> DEFINE T == S \cup {x}
  <1>1. IsFiniteSet(T)
    BY FS_AddElement
  <1>2. T \ {x} = S
    OBVIOUS
  <1>3. S \in SUBSET (T \cap S) /\ x \in T /\ T \in SUBSET T
    OBVIOUS
  <1>4. \A y \in T : f[y] \in Int
    OBVIOUS
  <1> HIDE DEF T
  <1>5. PICK h : Sums(h, f, Selection(T), T) /\ Total(f, T) = h[T]
    BY <1>1, TotalSums
  <1>6. PICK k : Sums(k, f, Selection(S), S) /\ Total(f, S) = k[S]
    BY TotalSums
  <1>7. h[T] = f[x] + h[T \ {x}]
    BY <1>1, <1>3, <1>4, <1>5, SelectionPicks, SumsProperties DEF AddsUp
  <1>8. h[S] = k[S]
    BY <1>1, <1>3, <1>4, <1>5, <1>6, SelectionPicks, SumsAgree
  <1> QED BY <1>2, <1>5, <1>6, <1>7, <1>8 DEF T

\* One element less.
LEMMA TotalWithout ==
  ASSUME NEW S, IsFiniteSet(S), NEW x \in S,
         NEW f, \A y \in S : f[y] \in Int
  PROVE  Total(f, S) = f[x] + Total(f, S \ {x})
  <1> DEFINE R == S \ {x}
  <1>1. IsFiniteSet(R) /\ x \notin R /\ R \cup {x} = S
    BY FS_RemoveElement
  <1> HIDE DEF R
  <1>2. Total(f, R \cup {x}) = f[x] + Total(f, R)
    BY <1>1, TotalAdd
  <1> QED BY <1>1, <1>2 DEF R

\* One element changed.
LEMMA TotalChange ==
  ASSUME NEW S, IsFiniteSet(S), NEW x \in S, NEW f, NEW g,
         \A y \in S : f[y] \in Int /\ g[y] \in Int,
         \A y \in S : y # x => f[y] = g[y]
  PROVE  Total(g, S) = Total(f, S) - f[x] + g[x]
  <1> DEFINE R == S \ {x}
  <1>1. Total(f, S) = f[x] + Total(f, R)
    BY TotalWithout
  <1>2. Total(g, S) = g[x] + Total(g, R)
    BY TotalWithout
  <1>3. IsFiniteSet(R)
    BY FS_RemoveElement
  <1>4. \A y \in R : f[y] \in Int /\ f[y] = g[y]
    OBVIOUS
  <1> HIDE DEF R
  <1>5. Total(f, R) = Total(g, R) /\ Total(f, R) \in Int
    BY <1>3, <1>4, TotalSame, TotalType
  <1>6. f[x] \in Int /\ g[x] \in Int
    OBVIOUS
  <1> QED BY ONLY <1>1, <1>2, <1>5, <1>6

\* g is f of 1 .. n with something put in at k.
Inserts(g, f, k, n) ==
  \A i \in 1 .. n : (i < k => g[i] = f[i]) /\ (i >= k => g[i + 1] = f[i])

\* One more element, inserted among the others.
LEMMA TotalInsert ==
  ASSUME NEW n \in Nat, NEW k \in 1 .. n + 1, NEW f, NEW g,
         \A i \in 1 .. n : f[i] \in Int,
         g[k] \in Int, Inserts(g, f, k, n)
  PROVE  Total(g, 1 .. n + 1) = Total(f, 1 .. n) + g[k]
  <1> DEFINE F(m) == Total(f, 1 .. m)
             G(m) == Total(g, 1 .. m)
             Same(m) == /\ m < k => G(m) = F(m)
                        /\ m >= k => G(m) = F(m - 1) + g[k]
             Good == {m \in Nat : m <= n + 1 => Same(m)}
  <1>1. \A i \in 1 .. n + 1 : g[i] \in Int
    <2>1. ASSUME NEW i \in 1 .. n + 1 PROVE g[i] \in Int
      <3>1. CASE i < k
        BY <3>1 DEF Inserts
      <3>2. CASE i = k
        BY <3>2
      <3>3. CASE i > k
        <4>1. i - 1 >= k /\ i - 1 \in 1 .. n /\ i - 1 + 1 = i
          BY <3>3
        <4> QED BY <4>1 DEF Inserts
      <3> QED BY <3>1, <3>2, <3>3
    <2> QED BY <2>1
  <1>2. ASSUME NEW h, NEW l \in Nat, \A i \in 1 .. l : h[i] \in Int,
               NEW m \in Nat, m + 1 <= l
        PROVE  /\ Total(h, 1 .. m + 1) = h[m + 1] + Total(h, 1 .. m)
               /\ Total(h, 1 .. m) \in Int
    <2>1. IsFiniteSet(1 .. m)
      BY FS_Interval
    <2>2. 1 .. m + 1 = (1 .. m) \cup {m + 1} /\ m + 1 \notin 1 .. m
      OBVIOUS
    <2>3. \A y \in (1 .. m) \cup {m + 1} : h[y] \in Int
      BY <1>2
    <2>4. Total(h, (1 .. m) \cup {m + 1}) = h[m + 1] + Total(h, 1 .. m)
      BY <2>1, <2>2, <2>3, TotalAdd
    <2>5. Total(h, 1 .. m) \in Int
      BY <2>1, <2>3, TotalType
    <2> QED BY <2>2, <2>4, <2>5
  <1>3. 0 \in Good
    <2>1. 1 .. 0 = {}
      OBVIOUS
    <2>2. F(0) = 0 /\ G(0) = 0
      <3>1. Total(f, {}) = 0 /\ Total(g, {}) = 0
        BY TotalType, FS_EmptySet
      <3> QED BY <2>1, <3>1
    <2> HIDE DEF F, G
    <2> QED BY <2>2
  <1>4. ASSUME NEW m \in Nat, m \in Good PROVE m + 1 \in Good
    <2> SUFFICES ASSUME m + 1 <= n + 1 PROVE Same(m + 1)
      OBVIOUS
    <2>1. Same(m)
      BY <1>4
    <2>2. G(m + 1) = g[m + 1] + G(m) /\ G(m) \in Int
      <3> DEFINE l == n + 1
      <3>1. l \in Nat /\ m + 1 <= l
        OBVIOUS
      <3>2. \A i \in 1 .. l : g[i] \in Int
        BY <1>1
      <3> HIDE DEF l
      <3> QED BY <1>2, <3>1, <3>2
    <2>3. m >= 1 => F(m) = f[m] + F(m - 1) /\ F(m - 1) \in Int
      <3>1. ASSUME m >= 1
            PROVE  Total(f, 1 .. m) = f[m] + Total(f, 1 .. m - 1)
                   /\ Total(f, 1 .. m - 1) \in Int
        <4> DEFINE j == m - 1
        <4>1. j \in Nat /\ j + 1 <= n /\ j + 1 = m
          BY <3>1
        <4> HIDE DEF j
        <4>2. /\ Total(f, 1 .. j + 1) = f[j + 1] + Total(f, 1 .. j)
              /\ Total(f, 1 .. j) \in Int
          BY <1>2, <4>1
        <4> QED BY <4>1, <4>2 DEF j
      <3> QED BY <3>1
    <2>5. m + 1 < k => F(m + 1) = f[m + 1] + F(m) /\ F(m) \in Int
      BY <1>2
    <2>4. g[k] \in Int /\ (m + 1 < k => g[m + 1] = f[m + 1])
          /\ (m >= k => g[m + 1] = f[m] /\ f[m] \in Int)
      BY DEF Inserts
    <2>6. m + 1 \in Nat /\ k \in Int /\ m + 1 - 1 = m
      OBVIOUS
    <2>7. m < k => F(m) \in Int
      BY <2>1, <2>2 
    <2> HIDE DEF F, G
    <2>8. CASE m + 1 < k
      BY <2>1, <2>2, <2>4, <2>5, <2>6, <2>8
    <2>9. CASE m + 1 = k
      BY <2>1, <2>2, <2>4, <2>6, <2>7, <2>9
    <2>10. CASE m >= k
      <3>1. m >= 1
        BY <2>10
      <3> QED BY <2>1, <2>2, <2>3, <2>4, <2>6, <2>10, <3>1
    <2> QED BY <2>6, <2>8, <2>9, <2>10
  <1>5. n + 1 \in Good
    <2>1. Nat \subseteq Good
      <3> HIDE DEF Good
      <3> QED BY <1>3, <1>4, NatSetInduction
    <2> QED BY <2>1
  <1>6. n + 1 >= k /\ n + 1 - 1 = n
    OBVIOUS
  <1> QED BY <1>5, <1>6

-----------------------------------------------------------------------------
\* PagesIn adds up the sizes of the blocks.
LEMMA PagesTotal ==
  ASSUME NEW b, NEW D, D = DOMAIN b
  PROVE  PagesIn(b) = Total([x \in D |-> b[x].num], D)
  <1> DEFINE f == [x \in D |-> b[x].num]
  <1>1. \A h : h = [s \in SUBSET D |-> IF s = {} THEN 0 ELSE
                     b[CHOOSE x \in s : TRUE].num
                       + h[s \ {CHOOSE x \in s : TRUE}]]
               <=> Sums(h, f, Selection(D), D)
    <2>1. ASSUME NEW s \in SUBSET D, s # {}
          PROVE  /\ Selection(D)[s] = CHOOSE x \in s : TRUE
                 /\ f[Selection(D)[s]] = b[CHOOSE x \in s : TRUE].num
      <3>1. Selection(D)[s] = CHOOSE x \in s : TRUE
        BY Zenon DEF Selection
      <3>2. Selection(D)[s] \in D
        BY <2>1, SelectionPicks DEF Picks
      <3>3. f[Selection(D)[s]] = b[Selection(D)[s]].num
        BY <3>2
      <3> QED BY <3>1, <3>3, Zenon
    <2> HIDE DEF f
    <2>2. ASSUME NEW h
          PROVE  [s \in SUBSET D |-> IF s = {} THEN 0 ELSE
                     b[CHOOSE x \in s : TRUE].num
                       + h[s \ {CHOOSE x \in s : TRUE}]]
                 = [s \in SUBSET D |-> IF s = {} THEN 0 ELSE
                      f[Selection(D)[s]] + h[s \ {Selection(D)[s]}]]
      BY ONLY <2>1, Zenon
    <2> QED BY ONLY <2>2, Zenon DEF Sums
  <1>2. PagesIn(b)
        = (CHOOSE h : h = [s \in SUBSET D |-> IF s = {} THEN 0 ELSE
                     b[CHOOSE x \in s : TRUE].num
                       + h[s \ {CHOOSE x \in s : TRUE}]])[D]
    BY Zenon DEF PagesIn, MapThenSumSet, MapThenFoldSet
  <1> HIDE DEF f
  <1> QED BY <1>1, <1>2, Zenon DEF Total, f

Sized(b, D) == \A x \in D : b[x].num \in Int

\* The pages of finitely many blocks are a number, and 0 when all are empty.
LEMMA PagesTyped ==
  ASSUME NEW b, IsFiniteSet(DOMAIN b), Sized(b, DOMAIN b)
  PROVE  /\ PagesIn(b) \in Int
         /\ (\A x \in DOMAIN b : b[x].num = 0) => PagesIn(b) = 0
  <1> DEFINE D == DOMAIN b
             f == [x \in D |-> b[x].num]
  <1>1. PagesIn(b) = Total(f, D)
    BY PagesTotal
  <1>2. IsFiniteSet(D) /\ \A x \in D : f[x] \in Int
    BY DEF Sized
  <1>3. Total(f, D) \in Int
    BY <1>2, TotalType
  <1>4. ASSUME \A x \in DOMAIN b : b[x].num = 0
        PROVE  PagesIn(b) = 0
    <2>1. \A x \in D : f[x] = 0
      BY <1>4
    <2> QED BY <1>1, <1>2, <2>1, TotalZero
  <1> QED BY <1>1, <1>3, <1>4

\* One block changes its size.
LEMMA PagesChanged ==
  ASSUME NEW b, NEW d, IsFiniteSet(DOMAIN b), DOMAIN d = DOMAIN b,
         Sized(b, DOMAIN b), NEW x \in DOMAIN b, d[x].num \in Int,
         \A y \in DOMAIN b : y # x => d[y].num = b[y].num
  PROVE  PagesIn(d) = PagesIn(b) - b[x].num + d[x].num
  <1> DEFINE D == DOMAIN b
             f == [y \in D |-> b[y].num]
             g == [y \in D |-> d[y].num]
  <1>1. PagesIn(b) = Total(f, D) /\ PagesIn(d) = Total(g, D)
    BY PagesTotal
  <1>2. /\ IsFiniteSet(D) /\ x \in D
        /\ \A y \in D : f[y] \in Int /\ g[y] \in Int
        /\ \A y \in D : y # x => f[y] = g[y]
        /\ f[x] = b[x].num /\ g[x] = d[x].num
    BY DEF Sized
  <1> HIDE DEF D, f, g
  <1> QED BY <1>1, <1>2, TotalChange

SizesInserted(d, b, k, n) ==
  \A y \in 1 .. n : /\ y < k => d[y].num = b[y].num
                    /\ y >= k => d[y + 1].num = b[y].num

\* One block joins a list at position k, the others keep their order.
LEMMA PagesInserted ==
  ASSUME NEW b, NEW d, NEW n \in Nat, DOMAIN b = 1 .. n, DOMAIN d = 1 .. n + 1,
         Sized(b, 1 .. n), NEW k \in 1 .. n + 1, d[k].num \in Int,
         SizesInserted(d, b, k, n)
  PROVE  PagesIn(d) = PagesIn(b) + d[k].num
  <1> DEFINE f == [y \in 1 .. n |-> b[y].num]
             g == [y \in 1 .. n + 1 |-> d[y].num]
  <1>1. PagesIn(b) = Total(f, 1 .. n) /\ PagesIn(d) = Total(g, 1 .. n + 1)
    BY PagesTotal
  <1>2. \A y \in 1 .. n : f[y] \in Int /\ f[y] = b[y].num
    BY DEF Sized
  <1>3. \A y \in 1 .. n + 1 : g[y] = d[y].num
    OBVIOUS
  <1> HIDE DEF f, g
  <1>4. Inserts(g, f, k, n)
    <2>1. ASSUME NEW y \in 1 .. n
          PROVE  (y < k => g[y] = f[y]) /\ (y >= k => g[y + 1] = f[y])
      <3>1. y \in 1 .. n + 1 /\ y + 1 \in 1 .. n + 1
        OBVIOUS
      <3> QED BY <1>2, <1>3, <3>1 DEF SizesInserted
    <2> QED BY <2>1 DEF Inserts
  <1>5. g[k] \in Int /\ g[k] = d[k].num
    BY <1>3
  <1>6. Total(g, 1 .. n + 1) = Total(f, 1 .. n) + g[k]
    BY <1>2, <1>4, <1>5, TotalInsert
  <1> QED BY <1>1, <1>5, <1>6

-----------------------------------------------------------------------------
\* The domains are finite, and the sizes numbers.
LEMMA BlocksTyped ==
  ASSUME TypeOK
  PROVE  /\ IsFiniteSet(DOMAIN free_regions) /\ IsFiniteSet(DOMAIN held)
         /\ Sized(free_regions, DOMAIN free_regions) /\ Sized(held, DOMAIN held)
         /\ DOMAIN held = Clients
         /\ PagesIn(free_regions) \in Int /\ PagesIn(held) \in Int
  <1>1. /\ Len(free_regions) \in Nat
        /\ DOMAIN free_regions = 1 .. Len(free_regions)
        /\ Sized(free_regions, DOMAIN free_regions)
    BY RegionsTyped DEF TypeOK, Sized
  <1>2. IsFiniteSet(DOMAIN free_regions)
    BY <1>1, FS_Interval
  <1>3. DOMAIN held = Clients /\ Sized(held, DOMAIN held)
    BY DEF TypeOK, Sized, Regions
  <1>4. IsFiniteSet(DOMAIN held)
    BY <1>3, ClientsAssumption
  <1> QED BY <1>1, <1>2, <1>3, <1>4, PagesTyped

\* A client gets or returns a block.
LEMMA HeldChanged ==
  ASSUME TypeOK, NEW c \in Clients, NEW b, b.num \in Int,
         held' = [held EXCEPT ![c] = b]
  PROVE  PagesIn(held') = PagesIn(held) - held[c].num + b.num
  <1> DEFINE d == [held EXCEPT ![c] = b]
  <1>1. /\ IsFiniteSet(DOMAIN held) /\ Sized(held, DOMAIN held)
        /\ c \in DOMAIN held
    BY BlocksTyped
  <1>2. /\ DOMAIN d = DOMAIN held /\ d[c] = b
        /\ \A y \in DOMAIN held : y # c => d[y] = held[y]
    BY <1>1
  <1>3. held' = d
    OBVIOUS
  <1> HIDE DEF d
  <1>4. PagesIn(d) = PagesIn(held) - held[c].num + d[c].num
    BY <1>1, <1>2, PagesChanged
  <1> QED BY <1>2, <1>3, <1>4

\* allocate takes from one region what the client gets.
LEMMA AllocatePages ==
  ASSUME TypeOK, NEW c \in Clients, NEW n \in RequestSizes, Allocate(c, n)
  PROVE  PagesIn(free_regions') + PagesIn(held')
           = PagesIn(free_regions) + PagesIn(held)
  <1>1. PICK i \in Fits(n) :
          /\ held' = [held EXCEPT ![c] =
                        [start |-> free_regions[i].start, num |-> n]]
          /\ free_regions' = [free_regions EXCEPT ![i] =
                                [start |-> @.start + n, num |-> @.num - n]]
    BY DEF Allocate
  <1> DEFINE b == [start |-> free_regions[i].start, num |-> n]
             r == [start |-> free_regions[i].start + n,
                   num |-> free_regions[i].num - n]
             d == [free_regions EXCEPT ![i] = r]
  <1>2. /\ i \in DOMAIN free_regions /\ n \in Int
        /\ free_regions[i].num \in Int
    BY RegionsTyped, RequestAssumption DEF Fits, TypeOK
  <1>3. held' = [held EXCEPT ![c] = b] /\ b.num = n /\ free_regions' = d
        /\ r.num = free_regions[i].num - n
    BY <1>1
  <1>4. /\ DOMAIN d = DOMAIN free_regions /\ d[i] = r
        /\ \A y \in DOMAIN free_regions : y # i => d[y] = free_regions[y]
    BY <1>2
  <1>5. held[c].num = 0
    BY DEF Allocate, NoBlock
  <1> HIDE DEF b, r, d
  <1>6. PagesIn(held') = PagesIn(held) - held[c].num + n
    BY <1>2, <1>3, HeldChanged
  <1>7. r.num \in Int
    BY <1>2, <1>3
  <1>8. PagesIn(d) = PagesIn(free_regions) - free_regions[i].num + r.num
    BY <1>2, <1>4, <1>7, BlocksTyped, PagesChanged
  <1>9. PagesIn(free_regions) \in Int /\ PagesIn(held) \in Int
    BY BlocksTyped
  <1> QED BY ONLY <1>2, <1>3, <1>5, <1>6, <1>8, <1>9

\* The list after a forward merge.
LEMMA JoinNextList ==
  ASSUME free_regions \in Seq(Regions), NEW b \in Regions,
         NEW k \in 1 .. Len(free_regions), k < Len(free_regions), JoinNext(k, b)
  PROVE  /\ free_regions' \in Seq(Regions)
         /\ Len(free_regions') = Len(free_regions) - 1
         /\ \A i \in 1 .. Len(free_regions) - 1 :
              free_regions'[i] =
                IF i = k THEN [start |-> free_regions[k].start,
                               num |-> free_regions[k].num + b.num
                                         + free_regions[k + 1].num]
                ELSE IF i < k THEN free_regions[i]
                ELSE free_regions[i + 1]
  <1> DEFINE t == RemoveAt([free_regions EXCEPT
                     ![k].num = @ + b.num + free_regions[k + 1].num], k + 1)
  <1>1. /\ t \in Seq(Regions)
        /\ Len(t) = Len(free_regions) - 1
        /\ \A i \in 1 .. Len(free_regions) - 1 :
             t[i] = IF i = k THEN [start |-> free_regions[k].start,
                                   num |-> free_regions[k].num + b.num
                                             + free_regions[k + 1].num]
                    ELSE IF i < k THEN free_regions[i]
                    ELSE free_regions[i + 1]
    BY JoinNextTyped, ZenonT(40)
  <1>2. free_regions' = t
    BY DEF JoinNext
  <1> HIDE DEF t
  <1> QED BY ONLY <1>1, <1>2, Zenon

\* Every branch of deallocate gives the list what the client had.
LEMMA DeallocatePages ==
  ASSUME TypeOK, NEW c \in Clients, Deallocate(c), status' # "overrun"
  PROVE  PagesIn(free_regions') + PagesIn(held')
           = PagesIn(free_regions) + PagesIn(held)
  <1> DEFINE b == held[c]
             k == RegionIndex(b.start)
             fr == free_regions
             n == Len(free_regions)
  <1>1. /\ n \in Nat /\ DOMAIN fr = 1 .. n
        /\ \A i \in 1 .. n : fr[i] \in Regions /\ fr[i].num \in Int
    BY RegionsTyped DEF TypeOK
  <1>2. /\ b \in Regions /\ b.start \in Nat /\ b.num \in Int
        /\ NoBlock.num = 0
    BY DEF TypeOK, Regions, NoBlock
  <1>3. k \in 1 .. n + 1 /\ (n > 0 => k \in 1 .. n)
    BY <1>1, <1>2, RegionIndexRange DEF TypeOK
  <1>4. PagesIn(held') = PagesIn(held) - b.num
    <2>1. held' = [held EXCEPT ![c] = NoBlock]
      BY DEF Deallocate
    <2>2. PagesIn(held') = PagesIn(held) - held[c].num + NoBlock.num
      <3>1. NoBlock.num \in Int
        BY <1>2
      <3> HIDE DEF b, k, fr, n
      <3> QED BY <2>1, <3>1, HeldChanged
    <2>3. PagesIn(held) \in Int
      BY BlocksTyped
    <2> QED BY <1>2, <2>2, <2>3
  <1>5. b = held[c] /\ fr = free_regions /\ n = Len(free_regions)
    OBVIOUS
  <1>6. \/ MergesBack(k, b) /\ GrowPrevious(k, b)
        \/ MergesForward(k, b) /\ JoinNext(k, b)
        \/ InsertRegion(k, b)
    BY DEF Deallocate
  <1>7. IsFiniteSet(DOMAIN fr) /\ Sized(fr, DOMAIN fr) /\ PagesIn(fr) \in Int
    BY BlocksTyped
  <1>8. PagesIn(held) \in Int
    BY BlocksTyped
  <1> SUFFICES PagesIn(free_regions') = PagesIn(fr) + b.num
    BY <1>2, <1>4, <1>7, <1>8
  <1> HIDE DEF b, k, fr, n
  <1>9. CASE MergesBack(k, b) /\ GrowPrevious(k, b)
    <2> DEFINE x == k - 1
               r == [fr[x] EXCEPT !.num = @ + b.num]
               d == [fr EXCEPT ![x] = r]
    <2>1. x \in 1 .. n
      BY <1>1, <1>3, <1>5, <1>9 DEF MergesBack
    <2>2. r.num = fr[x].num + b.num
      BY <1>1, <2>1 DEF Regions
    <2>3. free_regions' = d
      BY <1>5, <1>9 DEF GrowPrevious
    <2> HIDE DEF x, r
    <2>4. /\ DOMAIN d = DOMAIN fr /\ d[x] = r
          /\ \A y \in DOMAIN fr : y # x => d[y] = fr[y]
      BY <1>1, <2>1
    <2> HIDE DEF d
    <2>5. r.num \in Int /\ fr[x].num \in Int
      BY <1>1, <1>2, <2>1, <2>2
    <2>6. PagesIn(d) = PagesIn(fr) - fr[x].num + r.num
      BY <1>1, <1>7, <2>1, <2>4, <2>5, PagesChanged
    <2> QED BY <1>2, <1>7, <2>2, <2>3, <2>5, <2>6
  <1>10. CASE MergesForward(k, b) /\ JoinNext(k, b)
    <2> DEFINE r == [start |-> fr[k].start,
                     num |-> fr[k].num + b.num + fr[k + 1].num]
               gone == RemoveAt(fr, k + 1)
    <2>1. k \in 1 .. n /\ k < n /\ k + 1 \in 1 .. n
      BY <1>1, <1>3, <1>5, <1>10 DEF MergesForward
    <2>2. r.num = fr[k].num + b.num + fr[k + 1].num
      OBVIOUS
    <2>3. /\ free_regions' \in Seq(Regions) /\ Len(free_regions') = n - 1
          /\ \A i \in 1 .. n - 1 :
               free_regions'[i] = IF i = k THEN r
                                  ELSE IF i < k THEN fr[i] ELSE fr[i + 1]
      <3>1. /\ free_regions \in Seq(Regions) /\ b \in Regions
            /\ k \in 1 .. Len(free_regions) /\ k < Len(free_regions)
            /\ JoinNext(k, b)
        BY <1>2, <1>5, <1>10, <2>1 DEF TypeOK
      <3>2. /\ free_regions' \in Seq(Regions)
            /\ Len(free_regions') = Len(free_regions) - 1
            /\ \A i \in 1 .. Len(free_regions) - 1 :
                 free_regions'[i] =
                   IF i = k THEN [start |-> free_regions[k].start,
                                  num |-> free_regions[k].num + b.num
                                            + free_regions[k + 1].num]
                   ELSE IF i < k THEN free_regions[i]
                   ELSE free_regions[i + 1]
        BY ONLY <3>1, JoinNextList, ZenonT(40)
      <3> QED BY ONLY <1>5, <3>2, Zenon DEF r
    <2>4. /\ gone \in Seq(Regions) /\ Len(gone) = n - 1
          /\ \A i \in 1 .. n - 1 :
               gone[i] = IF i < k + 1 THEN fr[i] ELSE fr[i + 1]
      BY <1>5, <2>1, RemoveAtProperties DEF TypeOK
    <2> HIDE DEF r, gone
    <2> DEFINE m == n - 1
    <2>5. m \in Nat /\ m + 1 = n /\ k + 1 \in 1 .. m + 1 /\ k \in 1 .. m
      BY <1>1, <2>1
    <2>6. DOMAIN gone = 1 .. m /\ DOMAIN free_regions' = 1 .. m
      BY <2>3, <2>4, LenProperties
    <2>7. \A i \in 1 .. m : gone[i] = IF i < k + 1 THEN fr[i] ELSE fr[i + 1]
      BY <2>4
    <2>8. \A i \in 1 .. m :
            free_regions'[i] = IF i = k THEN r
                               ELSE IF i < k THEN fr[i] ELSE fr[i + 1]
      BY <2>3
    <2> HIDE DEF m
    <2>9. PagesIn(fr) = PagesIn(gone) + fr[k + 1].num
      <3>1. DOMAIN fr = 1 .. m + 1
        BY <1>1, <2>5
      <3>2. Sized(gone, 1 .. m)
        <4>1. ASSUME NEW i \in 1 .. m PROVE gone[i].num \in Int
          <5>1. i \in 1 .. n /\ i + 1 \in 1 .. n
            BY <2>5
          <5> QED BY <1>1, <2>7, <5>1
        <4> QED BY <4>1 DEF Sized
      <3>3. fr[k + 1].num \in Int
        BY <1>1, <2>1
      <3>4. \A y \in 1 .. k : fr[y].num = gone[y].num
        BY <2>5, <2>7
      <3>5. \A y \in k + 1 .. m : fr[y + 1].num = gone[y].num
        BY <2>5, <2>7
      <3> DEFINE j == k + 1
      <3>6. j \in 1 .. m + 1 /\ j - 1 = k /\ fr[j].num \in Int
        BY <2>5, <3>3
      <3>7. \A y \in 1 .. j - 1 : fr[y].num = gone[y].num
        BY <3>4, <3>6
      <3>8. \A y \in j .. m : fr[y + 1].num = gone[y].num
        BY <3>5
      <3>9. PagesIn(fr) = PagesIn(gone) + fr[j].num
        <4> HIDE DEF j
        <4>1. SizesInserted(fr, gone, j, m)
          <5>1. ASSUME NEW y \in 1 .. m
                PROVE  /\ y < j => fr[y].num = gone[y].num
                       /\ y >= j => fr[y + 1].num = gone[y].num
            BY <2>5, <3>6, <3>7, <3>8
          <5> QED BY <5>1 DEF SizesInserted
        <4> QED BY <2>5, <2>6, <3>1, <3>2, <3>6, <4>1, PagesInserted
      <3> QED BY <3>9
    <2>10. PagesIn(free_regions') = PagesIn(gone) - gone[k].num + r.num
      <3>1. IsFiniteSet(DOMAIN gone)
        BY <2>5, <2>6, FS_Interval
      <3>2. Sized(gone, DOMAIN gone)
        <4>1. ASSUME NEW i \in 1 .. m PROVE gone[i].num \in Int
          <5>1. i \in 1 .. n /\ i + 1 \in 1 .. n
            BY <2>5
          <5> QED BY <1>1, <2>7, <5>1
        <4> QED BY <2>6, <4>1 DEF Sized
      <3>3. free_regions'[k] = r /\ r.num \in Int
        BY <1>1, <1>2, <2>1, <2>2, <2>5, <2>8
      <3>4. \A y \in 1 .. m : y # k => free_regions'[y] = gone[y]
        BY <2>5, <2>7, <2>8
      <3> DEFINE new == free_regions'
      <3>5. /\ DOMAIN new = DOMAIN gone /\ k \in DOMAIN gone
            /\ new[k].num \in Int /\ new[k] = r
            /\ \A y \in DOMAIN gone : y # k => new[y].num = gone[y].num
        BY <2>5, <2>6, <3>3, <3>4
      <3> HIDE DEF new
      <3>6. PagesIn(new) = PagesIn(gone) - gone[k].num + new[k].num
        BY <3>1, <3>2, <3>5, PagesChanged
      <3> QED BY <3>5, <3>6 DEF new
    <2>11. gone[k] = fr[k] /\ fr[k].num \in Int /\ fr[k + 1].num \in Int
      BY <1>1, <2>1, <2>5, <2>7
    <2>12. PagesIn(gone) \in Int
      <3>1. IsFiniteSet(DOMAIN gone)
        BY <2>5, <2>6, FS_Interval
      <3>2. Sized(gone, DOMAIN gone)
        <4>1. ASSUME NEW i \in 1 .. m PROVE gone[i].num \in Int
          <5>1. i \in 1 .. n /\ i + 1 \in 1 .. n
            BY <2>5
          <5> QED BY <1>1, <2>7, <5>1
        <4> QED BY <2>6, <4>1 DEF Sized
      <3> QED BY <3>1, <3>2, PagesTyped
    <2> QED BY <1>2, <1>7, <2>2, <2>9, <2>10, <2>11, <2>12
  <1>11. CASE InsertRegion(k, b)
    <2> DEFINE new == InsertAt(fr, k, b)
    <2>1. free_regions' = new
      BY <1>5, <1>11 DEF InsertRegion
    <2>2. /\ new \in Seq(Regions) /\ Len(new) = n + 1
          /\ \A i \in 1 .. n + 1 :
               new[i] = IF i < k THEN fr[i] ELSE IF i = k THEN b ELSE fr[i - 1]
      <3>1. fr \in Seq(Regions) /\ b \in Regions /\ k \in 1 .. Len(fr) + 1
        BY <1>2, <1>3, <1>5 DEF TypeOK
      <3>2. n = Len(fr)
        BY <1>5
      <3>3. /\ InsertAt(fr, k, b) \in Seq(Regions)
            /\ Len(InsertAt(fr, k, b)) = Len(fr) + 1
            /\ \A i \in 1 .. Len(fr) + 1 :
                 InsertAt(fr, k, b)[i] =
                   IF i < k THEN fr[i] ELSE IF i = k THEN b ELSE fr[i - 1]
        BY <3>1, InsertAtProperties
      <3> QED BY ONLY <3>2, <3>3, Zenon
    <2> HIDE DEF new
    <2>3. DOMAIN new = 1 .. n + 1 /\ new[k] = b
      BY <1>1, <1>3, <2>2, LenProperties
    <2>4. \A y \in 1 .. k - 1 : new[y].num = fr[y].num
      BY <1>1, <1>3, <2>2
    <2>5. ASSUME NEW y \in k .. n PROVE new[y + 1].num = fr[y].num
      <3>1. y + 1 \in 1 .. n + 1 /\ ~(y + 1 < k) /\ y + 1 # k /\ y + 1 - 1 = y
        BY <1>1, <1>3
      <3> QED BY <2>2, <3>1
    <2>6. Sized(fr, 1 .. n)
      BY <1>1 DEF Sized
    <2>7. SizesInserted(new, fr, k, n)
      <3>1. ASSUME NEW y \in 1 .. n
            PROVE  /\ y < k => new[y].num = fr[y].num
                   /\ y >= k => new[y + 1].num = fr[y].num
        BY <1>1, <1>3, <2>4, <2>5
      <3> QED BY <3>1 DEF SizesInserted
    <2>8. PagesIn(new) = PagesIn(fr) + new[k].num
      BY <1>1, <1>2, <1>3, <2>3, <2>6, <2>7, PagesInserted
    <2> QED BY <2>1, <2>3, <2>8
  <1> QED BY <1>5, <1>6, <1>9, <1>10, <1>11

\* A block of a name not used before.
LEMMA PagesAdded ==
  ASSUME NEW b, NEW d, IsFiniteSet(DOMAIN b), NEW x, x \notin DOMAIN b,
         DOMAIN d = DOMAIN b \cup {x}, Sized(b, DOMAIN b), d[x].num \in Int,
         \A y \in DOMAIN b : d[y].num = b[y].num
  PROVE  PagesIn(d) = PagesIn(b) + d[x].num
  <1> DEFINE D == DOMAIN b
             E == D \cup {x}
             f == [y \in D |-> b[y].num]
             g == [y \in E |-> d[y].num]
  <1>1. PagesIn(b) = Total(f, D) /\ PagesIn(d) = Total(g, E)
    BY PagesTotal
  <1>2. /\ IsFiniteSet(D) /\ x \notin D /\ E = D \cup {x}
        /\ \A y \in D : f[y] \in Int /\ f[y] = g[y]
        /\ \A y \in D \cup {x} : g[y] \in Int
        /\ g[x] = d[x].num
    BY DEF Sized
  <1> HIDE DEF D, E, f, g
  <1>3. Total(g, D \cup {x}) = g[x] + Total(g, D)
    BY <1>2, TotalAdd
  <1>4. Total(f, D) = Total(g, D) /\ Total(f, D) \in Int
    BY <1>2, TotalSame, TotalType
  <1>5. g[x] \in Int
    BY <1>2
  <1>6. Total(g, E) = g[x] + Total(f, D)
    BY <1>2, <1>3, <1>4
  <1> QED BY ONLY <1>1, <1>2, <1>4, <1>5, <1>6

RegisteredBlocks == [i \in Registered |-> RegionOf(memmap[i])]

\* The loop of FreelistPMMInit adds as much to the list as to the registered
\* entries.
LEMMA InitEntryPages ==
  ASSUME TypeOK, InitEntry, next' # next
  PROVE  \E n \in Int :
           /\ PagesIn(free_regions') = PagesIn(free_regions) + n
           /\ PagesIn(RegisteredBlocks') = PagesIn(RegisteredBlocks) + n
  <1>1. /\ next' = next + 1 /\ memmap' = memmap /\ next \in Nat
        /\ next \in DOMAIN memmap /\ DOMAIN memmap = 1 .. Len(memmap)
        /\ Len(memmap) \in Nat
    BY EntriesTyped DEF TypeOK, InitEntry, AddFreeRegion
  <1>2. /\ IsFiniteSet(DOMAIN RegisteredBlocks)
        /\ Sized(RegisteredBlocks, DOMAIN RegisteredBlocks)
        /\ DOMAIN RegisteredBlocks = Registered
    <2>1. IsFiniteSet(Registered)
      <3>1. IsFiniteSet(1 .. Len(memmap))
        BY <1>1, FS_Interval
      <3>2. Registered \subseteq 1 .. Len(memmap)
        BY <1>1 DEF Registered
      <3> QED BY <3>1, <3>2, FS_Subset
    <2>2. \A i \in Registered : RegionOf(memmap[i]).num \in Int
      BY EntriesTyped DEF TypeOK, Registered, Regions
    <2> QED BY <2>1, <2>2 DEF RegisteredBlocks, Sized
  <1>3. PagesIn(RegisteredBlocks) \in Int /\ PagesIn(free_regions) \in Int
    BY <1>2, PagesTyped, BlocksTyped
  <1>4. CASE ~memmap[next].usable
    <2>1. free_regions' = free_regions
      BY <1>4 DEF InitEntry
    <2>2. Registered' = Registered
      BY <1>1, <1>4 DEF Registered
    <2>3. RegisteredBlocks' = RegisteredBlocks
      BY <1>1, <2>2 DEF RegisteredBlocks
    <2>4. /\ PagesIn(free_regions') = PagesIn(free_regions) + 0
          /\ PagesIn(RegisteredBlocks') = PagesIn(RegisteredBlocks) + 0
      BY <1>3, <2>1, <2>3
    <2> QED BY <2>4
  <1>5. CASE memmap[next].usable
    <2> DEFINE r == RegionOf(memmap[next])
               n == Len(free_regions)
               new == Append(free_regions, r)
               d == [i \in Registered \cup {next} |-> RegionOf(memmap[i])]
    <2>1. r \in Regions /\ r.num \in Int
      BY <1>1, EntriesTyped DEF TypeOK, Regions
    <2>2. free_regions' = new
      BY <1>5 DEF InitEntry, AddFreeRegion
    <2>3. /\ n \in Nat /\ DOMAIN free_regions = 1 .. n
          /\ DOMAIN new = 1 .. n + 1 /\ new[n + 1] = r
          /\ \A i \in 1 .. n : new[i] = free_regions[i]
      <3>1. /\ new \in Seq(Regions) /\ Len(new) = n + 1
            /\ \A i \in 1 .. n : new[i] = free_regions[i]
            /\ new[n + 1] = r
        BY <2>1, AppendProperties DEF TypeOK
      <3> HIDE DEF new
      <3> QED BY <3>1, RegionsTyped, LenProperties DEF TypeOK
    <2> HIDE DEF r, new
    <2>4. PagesIn(new) = PagesIn(free_regions) + r.num
      <3> DEFINE k == n + 1
      <3>1. k \in 1 .. n + 1 /\ new[k] = r /\ new[k].num \in Int
        BY <2>1, <2>3
      <3>2. SizesInserted(new, free_regions, k, n)
        BY <2>3 DEF SizesInserted
      <3>3. Sized(free_regions, 1 .. n)
        BY <2>3, BlocksTyped
      <3> HIDE DEF k, n
      <3>4. PagesIn(new) = PagesIn(free_regions) + new[k].num
        BY <2>3, <3>1, <3>2, <3>3, PagesInserted
      <3> QED BY <3>1, <3>4
    <2>5. RegisteredBlocks' = d
      <3>1. Registered' = Registered \cup {next}
        BY <1>1, <1>5 DEF Registered
      <3> QED BY <1>1, <3>1 DEF RegisteredBlocks
    <2>6. PagesIn(d) = PagesIn(RegisteredBlocks) + r.num
      <3>1. next \notin DOMAIN RegisteredBlocks
        BY <1>1, <1>2 DEF Registered
      <3>2. DOMAIN d = DOMAIN RegisteredBlocks \cup {next} /\ d[next] = r
        BY <1>2 DEF r
      <3>3. \A y \in DOMAIN RegisteredBlocks : d[y].num = RegisteredBlocks[y].num
        BY <1>2 DEF RegisteredBlocks
      <3> HIDE DEF d
      <3>4. PagesIn(d) = PagesIn(RegisteredBlocks) + d[next].num
        BY <1>2, <2>1, <3>1, <3>2, <3>3, PagesAdded
      <3> QED BY <3>2, <3>4
    <2> QED BY <1>3, <2>1, <2>2, <2>4, <2>5, <2>6
  <1> QED BY <1>4, <1>5

\* Every step moves pages from one owner to another or registers an entry.
LEMMA PagesStep ==
  TypeOK /\ PagesConserved /\ [Next]_vars => PagesConserved'
  <1> SUFFICES ASSUME TypeOK, PagesConserved, [Next]_vars, status' # "overrun"
               PROVE  PagesIn(free_regions') + PagesIn(held')
                        = PagesIn(RegisteredBlocks')
    BY DEF PagesConserved, RegisteredBlocks
  <1>1. PagesIn(free_regions) + PagesIn(held) = PagesIn(RegisteredBlocks)
    <2>1. status # "overrun"
      BY DEF Next, vars, InitEntry, FinishInit, Allocate, AllocateHalts,
             Deallocate
    <2> QED BY <2>1 DEF PagesConserved, RegisteredBlocks
  <1>2. ASSUME UNCHANGED <<memmap, next, free_regions, held>>
        PROVE  PagesIn(free_regions') + PagesIn(held')
                 = PagesIn(RegisteredBlocks')
    <2>1. RegisteredBlocks' = RegisteredBlocks
      BY <1>2 DEF RegisteredBlocks, Registered
    <2> QED BY <1>1, <1>2, <2>1
  <1>3. CASE InitEntry
    <2>1. CASE next' = next
      <3>1. UNCHANGED <<memmap, free_regions, held>>
        BY <1>3, <2>1 DEF InitEntry, AddFreeRegion, TypeOK
      <3> QED BY <1>2, <2>1, <3>1
    <2>2. CASE next' # next
      <3>1. PICK n \in Int :
              /\ PagesIn(free_regions') = PagesIn(free_regions) + n
              /\ PagesIn(RegisteredBlocks') = PagesIn(RegisteredBlocks) + n
        BY <1>3, <2>2, InitEntryPages
      <3>2. PagesIn(held') = PagesIn(held)
        BY <1>3 DEF InitEntry
      <3>3. PagesIn(free_regions) \in Int /\ PagesIn(held) \in Int
        BY BlocksTyped
      <3> QED BY ONLY <1>1, <3>1, <3>2, <3>3
    <2> QED BY <2>1, <2>2
  <1>4. CASE FinishInit
    BY <1>2, <1>4 DEF FinishInit
  <1>5. ASSUME NEW c \in Clients, NEW n \in RequestSizes, Allocate(c, n)
        PROVE  PagesIn(free_regions') + PagesIn(held')
                 = PagesIn(RegisteredBlocks')
    <2>1. RegisteredBlocks' = RegisteredBlocks
      BY <1>5 DEF Allocate, RegisteredBlocks, Registered
    <2> QED BY <1>1, <1>5, <2>1, AllocatePages
  <1>6. ASSUME NEW c \in Clients, NEW n \in RequestSizes, AllocateHalts(c, n)
        PROVE  PagesIn(free_regions') + PagesIn(held')
                 = PagesIn(RegisteredBlocks')
    BY <1>2, <1>6 DEF AllocateHalts
  <1>7. ASSUME NEW c \in Clients, Deallocate(c)
        PROVE  PagesIn(free_regions') + PagesIn(held')
                 = PagesIn(RegisteredBlocks')
    <2>1. RegisteredBlocks' = RegisteredBlocks
      BY <1>7 DEF Deallocate, RegisteredBlocks, Registered
    <2> QED BY <1>1, <1>7, <2>1, DeallocatePages
  <1>8. CASE UNCHANGED vars
    BY <1>2, <1>8 DEF vars
  <1> QED BY <1>3, <1>4, <1>5, <1>6, <1>7, <1>8 DEF Next

\* No sequence of calls, merges and halts creates or loses a page in total: the
\* sizes of the free regions and of the blocks handed out always add up to the
\* usable pages registered, for every memory map and every number of clients,
\* also after a forward merge has corrupted the list.
THEOREM PagesNeverLost == Spec => []PagesConserved
  <1>1. Init => PagesConserved
    <2> SUFFICES ASSUME Init
                 PROVE  PagesIn(free_regions) + PagesIn(held)
                          = PagesIn(RegisteredBlocks)
      BY DEF PagesConserved, RegisteredBlocks
    <2>1. DOMAIN free_regions = {} /\ DOMAIN RegisteredBlocks = {}
      BY EntriesTyped DEF Init, Registered, RegisteredBlocks
    <2>2. /\ IsFiniteSet(DOMAIN held) /\ DOMAIN held = Clients
          /\ \A c \in Clients : held[c].num = 0
      BY ClientsAssumption DEF Init, NoBlock
    <2>3. PagesIn(held) = 0
      BY <2>2, PagesTyped DEF Sized
    <2>4. PagesIn(free_regions) = 0 /\ PagesIn(RegisteredBlocks) = 0
      BY <2>1, FS_EmptySet, PagesTyped DEF Sized
    <2> QED BY <2>3, <2>4
  <1> QED BY <1>1, PagesStep, TypeCorrect, PTL DEF Spec

-----------------------------------------------------------------------------
\* Each branch of deallocate leaves a region as large as the block.
LEMMA DeallocateLeavesRoom ==
  ASSUME TypeOK, NEW c \in Clients, Deallocate(c), status' = "running"
  PROVE  \E i \in DOMAIN free_regions' : free_regions'[i].num >= held[c].num
  <1> DEFINE b == held[c]
             k == RegionIndex(b.start)
             fr == free_regions
             n == Len(free_regions)
  <1>1. /\ n \in Nat /\ DOMAIN fr = 1 .. n
        /\ \A i \in 1 .. n : fr[i] \in Regions /\ fr[i].num \in Nat
    BY RegionsTyped DEF TypeOK
  <1>2. b \in Regions /\ b.start \in Nat /\ b.num \in Nat
    BY DEF TypeOK, Regions
  <1>3. k \in 1 .. n + 1 /\ (n > 0 => k \in 1 .. n)
    BY <1>1, <1>2, RegionIndexRange DEF TypeOK
  <1>4. b = held[c] /\ fr = free_regions /\ n = Len(free_regions)
    OBVIOUS
  <1>5. \/ MergesBack(k, b) /\ GrowPrevious(k, b)
        \/ MergesForward(k, b) /\ JoinNext(k, b)
        \/ InsertRegion(k, b)
    BY DEF Deallocate
  <1> HIDE DEF b, k, fr, n
  <1>6. CASE MergesBack(k, b) /\ GrowPrevious(k, b)
    <2> DEFINE x == k - 1
               r == [fr[x] EXCEPT !.num = @ + b.num]
    <2>1. x \in 1 .. n
      BY <1>1, <1>3, <1>4, <1>6 DEF MergesBack
    <2>2. r.num = fr[x].num + b.num
      BY <1>1, <2>1 DEF Regions
    <2>3. free_regions' = [fr EXCEPT ![x] = r]
      BY <1>4, <1>6 DEF GrowPrevious
    <2> HIDE DEF x, r
    <2>4. x \in DOMAIN free_regions' /\ free_regions'[x] = r
      BY <1>1, <2>1, <2>3
    <2>5. r.num >= b.num
      BY <1>1, <1>2, <2>1, <2>2
    <2> QED BY <1>4, <2>4, <2>5
  <1>7. CASE MergesForward(k, b) /\ JoinNext(k, b)
    <2> DEFINE r == [start |-> fr[k].start,
                     num |-> fr[k].num + b.num + fr[k + 1].num]
    <2>1. k \in 1 .. n /\ k < n /\ k + 1 \in 1 .. n
      BY <1>1, <1>3, <1>4, <1>7 DEF MergesForward
    <2>2. r.num = fr[k].num + b.num + fr[k + 1].num
      OBVIOUS
    <2>3. /\ free_regions \in Seq(Regions) /\ b \in Regions
          /\ k \in 1 .. Len(free_regions) /\ k < Len(free_regions)
          /\ JoinNext(k, b)
      BY <1>2, <1>4, <1>7, <2>1 DEF TypeOK
    <2>4. /\ free_regions' \in Seq(Regions)
          /\ Len(free_regions') = Len(free_regions) - 1
          /\ \A i \in 1 .. Len(free_regions) - 1 :
               free_regions'[i] =
                 IF i = k THEN [start |-> free_regions[k].start,
                                num |-> free_regions[k].num + b.num
                                          + free_regions[k + 1].num]
                 ELSE IF i < k THEN free_regions[i]
                 ELSE free_regions[i + 1]
      BY ONLY <2>3, JoinNextList, ZenonT(40)
    <2>5. k \in 1 .. Len(free_regions) - 1
      BY <1>1, <1>4, <2>1
    <2>6. free_regions'[k] = r
      BY ONLY <1>4, <2>4, <2>5, Zenon DEF r
    <2>7. DOMAIN free_regions' = 1 .. Len(free_regions) - 1
      BY <2>4, LenProperties
    <2> HIDE DEF r
    <2>8. r.num >= b.num
      BY <1>1, <1>2, <2>1, <2>2
    <2> QED BY <1>4, <2>5, <2>6, <2>7, <2>8
  <1>8. CASE InsertRegion(k, b)
    <2>1. free_regions' = InsertAt(fr, k, b)
      BY <1>4, <1>8 DEF InsertRegion
    <2>2. /\ InsertAt(fr, k, b) \in Seq(Regions)
          /\ Len(InsertAt(fr, k, b)) = Len(fr) + 1
          /\ \A i \in 1 .. Len(fr) + 1 :
               InsertAt(fr, k, b)[i] =
                 IF i < k THEN fr[i] ELSE IF i = k THEN b ELSE fr[i - 1]
      <3>1. fr \in Seq(Regions) /\ b \in Regions /\ k \in 1 .. Len(fr) + 1
        BY <1>2, <1>3, <1>4 DEF TypeOK
      <3> QED BY ONLY <3>1, InsertAtProperties
    <2>3. k \in 1 .. Len(fr) + 1 /\ ~(k < k)
      BY <1>1, <1>3, <1>4
    <2>4. InsertAt(fr, k, b)[k] = b
      BY <2>2, <2>3
    <2>5. k \in DOMAIN InsertAt(fr, k, b)
      BY <2>2, <2>3, LenProperties
    <2>6. b.num >= b.num
      BY <1>2
    <2> QED BY <1>4, <2>1, <2>4, <2>5, <2>6
  <1> QED BY <1>4, <1>5, <1>6, <1>7, <1>8

\* After deallocate the list always has a region that serves a request as large
\* as the block returned: no order of merges hides the pages of a block among
\* regions too small for it.
THEOREM FreedBlocksServe == Spec => FreedBlockIsReusable
  <1> DEFINE Reusable(c) ==
        held[c] # NoBlock /\ held'[c] = NoBlock /\ status' = "running"
          => \E i \in DOMAIN free_regions' :
               free_regions'[i].num >= held[c].num
  <1>1. TypeOK /\ [Next]_vars => [\A c \in Clients : Reusable(c)]_vars
    <2> SUFFICES ASSUME TypeOK, Next, NEW c \in Clients, held[c] # NoBlock,
                        held'[c] = NoBlock, status' = "running"
                 PROVE  \E i \in DOMAIN free_regions' :
                          free_regions'[i].num >= held[c].num
      OBVIOUS
    <2>1. ~InitEntry /\ ~FinishInit
      BY DEF InitEntry, FinishInit
    <2>2. ASSUME NEW d \in Clients, NEW n \in RequestSizes, Allocate(d, n)
          PROVE  FALSE
      <3>1. PICK i \in Fits(n) :
              held' = [held EXCEPT ![d] =
                         [start |-> free_regions[i].start, num |-> n]]
        BY <2>2 DEF Allocate
      <3>2. d # c
        BY <2>2 DEF Allocate
      <3> QED BY <3>1, <3>2 DEF TypeOK
    <2>3. ASSUME NEW d \in Clients, NEW n \in RequestSizes, AllocateHalts(d, n)
          PROVE  FALSE
      BY <2>3 DEF AllocateHalts
    <2>4. PICK d \in Clients : Deallocate(d)
      BY <2>1, <2>2, <2>3 DEF Next
    <2>5. d = c
      BY <2>4 DEF Deallocate, TypeOK
    <2> QED BY <2>4, <2>5, DeallocateLeavesRoom
  <1>2. Spec => []TypeOK /\ [][Next]_vars
    BY TypeCorrect, PTL DEF Spec
  <1> QED BY <1>1, <1>2, PTL DEF FreedBlockIsReusable
==============================================================================
