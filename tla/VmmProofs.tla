------------------------------ MODULE VmmProofs ------------------------------
(***************************************************************************)
(* Machine-checked proofs about Vmm for every number of entries in a table,*)
(* every set of usable frames and every order the allocator offers them in.*)
(***************************************************************************)
EXTENDS Vmm, TLAPS

\* What a running walk knows: the table it stands in has the level it is at.
CallAtLevel ==
  call # NoCall =>
    /\ phase # "boot"
    /\ call.table \in Tables /\ level[call.table] = call.l

\* Before VMMInit there are no tables, and after its first lines a root.
RootKnown ==
  /\ phase = "boot" => pml4 = Null /\ Tables = {}
  /\ phase # "boot" => pml4 \in Tables

\* The tables on the way to v, and where a walk to v at level l stands.
Dir3(v) == Child(pml4, v[4])
Dir2(v) == Child(Dir3(v), v[3])

OnPath(v, l, t) ==
  /\ l = 4 => t = pml4
  /\ l = 3 => t = Dir3(v)
  /\ l = 2 => t = Dir2(v)
  /\ l = 1 => t = TableFor(v)

\* WalkOnPath without its case distinction.
CallOnPath == call # NoCall => OnPath(call.v, call.l, call.table)

IsTable(t, l) == t \in Tables /\ level[t] = l

\* The inductive invariant.
IInv ==
  /\ TypeOK /\ TreeShaped /\ TablesAllocated
  /\ CallOnPath /\ CallAtLevel /\ RootKnown

\* The two halves of TreeShaped.
Descends ==
  \A t \in Tables, i \in Idx :
    level[t] > 1 =>
      \/ mem[t][i].frame = Null
      \/ mem[t][i].frame \in Tables /\ level[mem[t][i].frame] = level[t] - 1
EnteredOnce ==
  \A t, u \in Tables, i, j \in Idx :
    level[t] > 1 /\ level[u] > 1 /\ mem[t][i].frame # Null
      /\ mem[t][i].frame = mem[u][j].frame => t = u /\ i = j

LEMMA TreeHalves == TreeShaped <=> Descends /\ EnteredOnce
  BY DEF TreeShaped, Descends, EnteredOnce

LEMMA NullIsNoFrame == Null \notin Usable /\ Usable \subseteq Phys
  BY FramesAssumption, ContentsAssumption

\* What VMMMapPage and VMMUnmapPage write are entries.
LEMMA Written ==
  /\ Empty \in Slots /\ Empty.frame = Null /\ ~Empty.present
  /\ \A f \in Phys : /\ Link(f) \in Slots /\ Leaf(f) \in Slots
                     /\ Link(f).frame = f /\ ~Link(f).present
                     /\ Leaf(f).frame = f /\ Leaf(f).present
  BY DEF Empty, Slots, Link, Leaf

LEMMA NoCallIsNoCall == NoCall \notin Calls
  BY DEF NoCall, Calls

LEMMA OfferedIsFree ==
  ASSUME NEW S \in SUBSET Usable, NEW f \in Offered(S)
  PROVE  f \in S /\ f \in Usable
  BY OfferedAssumption

LEMMA PowPositive ==
  ASSUME NEW l \in 1 .. 4
  PROVE  Pow(l) \in Nat \ {0}
  <1>1. Entries * Entries \in Nat \ {0}
    BY EntriesAssumption
  <1>2. Entries * Entries * Entries \in Nat \ {0}
    BY <1>1, EntriesAssumption
  <1> QED
    BY <1>1, <1>2, EntriesAssumption DEF Pow

LEMMA DigitInRange ==
  ASSUME NEW f \in Nat, NEW d \in Nat \ {0}
  PROVE  (f \div d) % Entries \in Idx
  <1>1. f \div d \in Int
    OBVIOUS
  <1> QED
    BY <1>1, EntriesAssumption DEF Idx

LEMMA IndicesTyped ==
  ASSUME NEW f \in Nat
  PROVE  Indices(f) \in VPages
  BY PowPositive, DigitInRange DEF Indices, VPages

LEMMA UsableIsNat == Usable \subseteq Nat
  BY FramesAssumption

\* d is the walk c one level down: the other fields stay.
Down(c, d, k, f) ==
  d \in Calls /\ d.v = c.v /\ d.p = c.p /\ d.l = k /\ d.table = f

LEMMA CallDown ==
  ASSUME NEW c \in Calls, NEW f \in Usable, NEW k \in 1 .. 4,
         NEW d, d = [c EXCEPT !.l = k, !.table = f]
  PROVE  Down(c, d, k, f)
  <1>1. [c EXCEPT !.l = k] \in Calls
    BY DEF Calls
  <1>2. \A e \in Calls : [e EXCEPT !.table = f] \in Calls
    BY DEF Calls
  <1>3. d \in Calls
    BY <1>1, <1>2, Zenon
  <1>4. /\ [c EXCEPT !.l = k, !.table = f].v = c.v
        /\ [c EXCEPT !.l = k, !.table = f].p = c.p
        /\ [c EXCEPT !.l = k, !.table = f].l = k
        /\ [c EXCEPT !.l = k, !.table = f].table = f
    BY DEF Calls
  <1> QED
    BY <1>3, <1>4, Zenon DEF Down

-----------------------------------------------------------------------------
LEMMA PathLevels ==
  ASSUME IInv, NEW v \in VPages
  PROVE  /\ pml4 = Null \/ IsTable(pml4, 4)
         /\ Dir3(v) = Null \/ (pml4 # Null /\ IsTable(Dir3(v), 3))
         /\ Dir2(v) = Null \/ (Dir3(v) # Null /\ IsTable(Dir2(v), 2))
         /\ TableFor(v) = Null \/ (Dir2(v) # Null /\ IsTable(TableFor(v), 1))
  <1> USE DEF IsTable
  <1>1. v[1] \in Idx /\ v[2] \in Idx /\ v[3] \in Idx /\ v[4] \in Idx
    BY DEF VPages
  <1>2. Descends
    BY TreeHalves DEF IInv
  <1>3. pml4 = Null \/ IsTable(pml4, 4)
    BY DEF IInv, TablesAllocated, RootKnown
  <1>4. \A t, i : i \in Idx /\ t \in Tables /\ level[t] > 1 =>
          \/ Child(t, i) = Null
          \/ Child(t, i) \in Tables /\ level[Child(t, i)] = level[t] - 1
    BY <1>2 DEF Descends, Child
  <1>5. \A i : Child(Null, i) = Null
    BY DEF Child
  <1>6. Dir3(v) = Null \/ (pml4 # Null /\ IsTable(Dir3(v), 3))
    BY <1>1, <1>3, <1>4, <1>5 DEF Dir3
  <1>7. Dir2(v) = Null \/ (Dir3(v) # Null /\ IsTable(Dir2(v), 2))
    BY <1>1, <1>4, <1>5, <1>6 DEF Dir2
  <1>8. TableFor(v) = Null \/ (Dir2(v) # Null /\ IsTable(TableFor(v), 1))
    BY <1>1, <1>4, <1>5, <1>7 DEF Dir2, Dir3, TableFor
  <1> QED
    BY <1>3, <1>6, <1>7, <1>8

LEMMA InitIInv == Init => IInv
  <1> SUFFICES ASSUME Init PROVE IInv
    OBVIOUS
  <1> USE NullIsNoFrame, NoCallIsNoCall DEF Init
  <1>1. TypeOK
    BY ContentsAssumption DEF TypeOK
  <1>2. Tables = {}
    BY DEF Tables
  <1> QED
    BY <1>1, <1>2
    DEF IInv, TreeShaped, TablesAllocated, CallOnPath, CallAtLevel, RootKnown

-----------------------------------------------------------------------------
LEMMA TypeStep ==
  ASSUME IInv, [Next]_vars
  PROVE  TypeOK'
  <1> USE NullIsNoFrame, NoCallIsNoCall
  <1>t. TypeOK
    BY DEF IInv
  <1>e. EmptyTable \in [Idx -> Slots]
    BY Written DEF EmptyTable
  <1>n. ASSUME NEW f \in Usable, NEW l \in 1 .. 4,
               NEW m \in [Usable -> [Idx -> Slots]], NewTable(f, l, m)
        PROVE  /\ free' \subseteq Usable /\ level' \in [Usable -> 0 .. 4]
               /\ mem' \in [Usable -> [Idx -> Slots]]
    BY <1>n, <1>t, <1>e DEF NewTable, TypeOK
  <1>c. Running => /\ call \in Calls /\ call.table \in Usable /\ call.p \in Phys
                   /\ call.l \in 1 .. 4 /\ call.v[call.l] \in Idx
    BY <1>t DEF Running, TypeOK, Calls, VPages
  <1>p. ASSUME Running, NEW x \in Slots
        PROVE  Point(x) \in [Usable -> [Idx -> Slots]]
    BY <1>t, <1>c, <1>p DEF Point, TypeOK
  <1>r. ASSUME NEW v \in VPages, NEW p \in Phys, phase # "boot", Enter(v, p)
        PROVE  call' \in Calls
    BY <1>r DEF IInv, RootKnown, Enter, Calls, Tables
  <1>1. CASE InitRoot
    <2> PICK f \in Offered(free) : pml4' = f /\ NewTable(f, 4, mem)
      BY <1>1 DEF InitRoot
    <2>1. f \in Usable
      BY OfferedIsFree, <1>t DEF TypeOK
    <2> QED
      BY <2>1, <1>1, <1>n, <1>t DEF InitRoot, TypeOK
  <1>2. CASE InitCall
    <2> PICK f \in todo : Enter(Indices(f), f) /\ todo' = todo \ {f}
      BY <1>2 DEF InitCall
    <2>1. f \in Usable /\ f \in Nat /\ f \in Phys
      BY UsableIsNat, <1>t DEF TypeOK
    <2>2. call' \in Calls
      BY <2>1, <1>r, <1>2, IndicesTyped DEF InitCall
    <2> QED
      BY <2>2, <1>2, <1>t DEF InitCall, TypeOK
  <1>3. CASE InitDone
    BY <1>3, <1>t DEF InitDone, TypeOK
  <1>4. ASSUME NEW v \in CallPages, NEW p \in CallFrames, MapCall(v, p)
        PROVE  TypeOK'
    <2>1. call' \in Calls
      BY <1>4, <1>r, CallsAssumption DEF MapCall
    <2> QED
      BY <2>1, <1>4, <1>t DEF MapCall, TypeOK
  <1>5. CASE Descend
    <2>0. Running /\ call.l > 1 /\ call \in Calls
      BY <1>5, <1>c DEF Descend
    <2>b. call.l - 1 \in 1 .. 4
      BY <2>0, <1>c
    <2>c. call \in Calls /\ call.l - 1 \in 1 .. 4
      BY <2>0, <2>b, Zenon
    <2>a. ASSUME NEW f \in Usable
          PROVE  [call EXCEPT !.l = @ - 1, !.table = f] \in Calls
      <3> DEFINE d == [call EXCEPT !.l = @ - 1, !.table = f]
      <3>1. d = [call EXCEPT !.l = call.l - 1, !.table = f]
        BY Zenon
      <3> HIDE DEF d
      <3>2. Down(call, d, call.l - 1, f)
        BY <2>c, <3>1, CallDown, ZenonT(60)
      <3>3. d \in Calls
        BY <3>2, Zenon DEF Down
      <3> QED
        BY <3>3, Zenon DEF d
    <2>1. CASE Here # Null
      <3>1. Here \in Usable
        BY <2>0, <2>1, <1>c, TreeHalves
        DEF IInv, CallAtLevel, Running, Descends, Here, Tables
      <3> QED
        BY <3>1, <2>1, <2>a, <1>5, <1>t DEF Descend, TypeOK, OutOfFrames
    <2>2. CASE Here = Null /\ OutOfFrames
      BY <2>2, <1>t DEF OutOfFrames, TypeOK
    <2>3. CASE \E f \in Offered(free) :
                 /\ NewTable(f, call.l - 1, Point(Link(f)))
                 /\ call' = [call EXCEPT !.l = @ - 1, !.table = f]
                 /\ UNCHANGED <<pml4, phase, todo>>
      <3> PICK f \in Offered(free) :
                 /\ NewTable(f, call.l - 1, Point(Link(f)))
                 /\ call' = [call EXCEPT !.l = @ - 1, !.table = f]
                 /\ UNCHANGED <<pml4, phase, todo>>
        BY <2>3
      <3>1. f \in Usable /\ Link(f) \in Slots
        BY OfferedIsFree, Written, <1>t DEF TypeOK
      <3>2. call.l - 1 \in 1 .. 4
        BY <2>0, <1>c
      <3> QED
        BY <3>1, <3>2, <2>0, <2>a, <1>n, <1>p, <1>t DEF TypeOK
    <2> QED
      BY <1>5, <2>1, <2>2, <2>3 DEF Descend
  <1>6. CASE StoreLeaf
    <2>1. Point(Leaf(call.p)) \in [Usable -> [Idx -> Slots]]
      BY <1>6, <1>c, <1>p, Written DEF StoreLeaf
    <2> QED
      BY <2>1, <1>6, <1>t DEF StoreLeaf, TypeOK
  <1>7. ASSUME NEW v \in CallPages, UnmapPage(v)
        PROVE  TypeOK'
    <2>1. v \in VPages /\ v[1] \in Idx
      BY CallsAssumption DEF VPages
    <2>2. TableFor(v) \in Usable
      BY <2>1, <1>7, PathLevels DEF UnmapPage, IsTable, Tables
    <2> QED
      BY <2>1, <2>2, <1>7, <1>t, Written DEF UnmapPage, TypeOK
  <1>8. CASE UNCHANGED vars
    BY <1>8, <1>t DEF vars, TypeOK
  <1> QED
    BY <1>1, <1>2, <1>3, <1>4, <1>5, <1>6, <1>7, <1>8 DEF Next

-----------------------------------------------------------------------------
\* What the new table of a walk changes.
New(f) ==
  /\ Running /\ call.l > 1 /\ Here = Null
  /\ f \in Offered(free)
  /\ NewTable(f, call.l - 1, Point(Link(f)))
  /\ call' = [call EXCEPT !.l = @ - 1, !.table = f]
  /\ UNCHANGED <<pml4, phase, todo>>

LEMMA RunningCall ==
  ASSUME IInv, Running
  PROVE  /\ call \in Calls /\ call.table \in Tables /\ level[call.table] = call.l
         /\ call.l \in 1 .. 4 /\ call.v \in VPages /\ call.v[call.l] \in Idx
         /\ call.p \in Phys /\ phase # "boot"
  <1>1. call \in Calls
    BY DEF IInv, TypeOK, Running
  <1>2. call.l \in 1 .. 4 /\ call.v \in VPages /\ call.p \in Phys
    BY <1>1 DEF Calls
  <1>3. call.v[call.l] \in Idx
    BY <1>2 DEF VPages
  <1> QED
    BY <1>1, <1>2, <1>3 DEF IInv, CallAtLevel, Running

LEMMA NewFrame ==
  ASSUME IInv, NEW f \in Usable, f \in free, NEW l \in 1 .. 4,
         NEW m \in [Usable -> [Idx -> Slots]], NewTable(f, l, m)
  PROVE  /\ f \notin Tables /\ Tables' = Tables \cup {f}
         /\ free' = free \ {f}
         /\ level'[f] = l /\ \A t \in Tables : level'[t] = level[t]
         /\ \A i \in Idx : mem'[f][i] = Empty
         /\ \A t \in Tables, i \in Idx : mem'[t][i] = m[t][i]
  <1>1. f \notin Tables
    BY DEF IInv, TablesAllocated
  <1>2. level' = [level EXCEPT ![f] = l] /\ mem' = [m EXCEPT ![f] = EmptyTable]
    BY DEF NewTable
  <1>3. Tables \subseteq Usable /\ level \in [Usable -> 0 .. 4]
    BY DEF Tables, IInv, TypeOK
  <1>4. Tables' = Tables \cup {f}
    BY <1>2, <1>3 DEF Tables
  <1>5. \A i \in Idx : mem'[f][i] = Empty
    BY <1>2 DEF EmptyTable
  <1>6. \A t \in Tables : level'[t] = level[t] /\ mem'[t] = m[t]
    BY <1>1, <1>2, <1>3
  <1> QED
    BY <1>1, <1>2, <1>3, <1>4, <1>5, <1>6 DEF NewTable

LEMMA NewEffect ==
  ASSUME IInv, NEW f \in Offered(free), New(f)
  PROVE  /\ f \in Usable /\ f \in Phys /\ f # Null
         /\ f \notin Tables /\ Tables' = Tables \cup {f}
         /\ free' = free \ {f}
         /\ level'[f] = call.l - 1 /\ \A t \in Tables : level'[t] = level[t]
         /\ \A i \in Idx : mem'[f][i] = Empty
         /\ mem'[call.table][call.v[call.l]] = Link(f)
         /\ \A t \in Tables, i \in Idx :
              ~(t = call.table /\ i = call.v[call.l]) => mem'[t][i] = mem[t][i]
         /\ call'.l = call.l - 1 /\ call'.table = f /\ call'.v = call.v
         /\ call' # NoCall /\ call'.p = call.p
  <1>1. f \in Usable /\ f \in free /\ f \in Phys /\ f # Null
    BY OfferedIsFree, NullIsNoFrame DEF IInv, TypeOK
  <1>2. Point(Link(f)) \in [Usable -> [Idx -> Slots]]
    BY <1>1, Written, RunningCall DEF New, Point, IInv, TypeOK
  <1>3. call.l - 1 \in 1 .. 4
    BY RunningCall DEF New
  <1>4. /\ Point(Link(f))[call.table][call.v[call.l]] = Link(f)
        /\ \A t \in Tables, i \in Idx :
              ~(t = call.table /\ i = call.v[call.l]) => Point(Link(f))[t][i] = mem[t][i]
    BY RunningCall DEF New, Point, IInv, TypeOK, Tables
  <1>5. /\ call'.l = call.l - 1 /\ call'.table = f /\ call'.v = call.v
        /\ call' \in Calls /\ call'.p = call.p
    <2>1. call' = [call EXCEPT !.l = call.l - 1, !.table = f]
      BY DEF New
    <2>2. call \in Calls
      BY RunningCall DEF New
    <2>3. f \in Usable
      BY <1>1
    <2>4. Down(call, call', call.l - 1, f)
      BY <1>3, <2>1, <2>2, <2>3, CallDown, Zenon
    <2> QED
      BY <2>4 DEF Down
  <1>6. call' # NoCall
    BY <1>5, NoCallIsNoCall
  <1>7. call.table \in Tables /\ call.v[call.l] \in Idx
    BY RunningCall DEF New
  <1>8. NewTable(f, call.l - 1, Point(Link(f)))
    BY DEF New
  <1>9. /\ f \notin Tables /\ Tables' = Tables \cup {f}
        /\ free' = free \ {f}
        /\ level'[f] = call.l - 1 /\ \A t \in Tables : level'[t] = level[t]
        /\ \A i \in Idx : mem'[f][i] = Empty
        /\ \A t \in Tables, i \in Idx : mem'[t][i] = Point(Link(f))[t][i]
    BY <1>1, <1>2, <1>3, <1>8, NewFrame
  <1> QED
    BY <1>1, <1>4, <1>5, <1>6, <1>7, <1>9

\* What VMMInit's first lines change.
LEMMA RootEffect ==
  ASSUME IInv, InitRoot
  PROVE  /\ pml4' \in Usable /\ pml4' # Null /\ Tables = {} /\ Tables' = {pml4'}
         /\ free' = free \ {pml4'} /\ level'[pml4'] = 4
         /\ \A i \in Idx : mem'[pml4'][i] = Empty
         /\ phase' = "init" /\ pml4 = Null /\ call = NoCall /\ call' = call
  <1> PICK f \in Offered(free) : pml4' = f /\ NewTable(f, 4, mem)
    BY DEF InitRoot
  <1>1. f \in Usable /\ f \in free /\ f # Null
    BY OfferedIsFree, NullIsNoFrame DEF IInv, TypeOK
  <1>2. pml4 = Null /\ call = NoCall
    BY DEF IInv, RootKnown, CallAtLevel, InitRoot
  <1>3. mem \in [Usable -> [Idx -> Slots]]
    BY DEF IInv, TypeOK
  <1>4. /\ f \notin Tables /\ Tables' = Tables \cup {f} /\ free' = free \ {f}
        /\ level'[f] = 4 /\ \A i \in Idx : mem'[f][i] = Empty
    BY <1>1, <1>3, NewFrame
  <1>5. Tables = {}
    BY DEF IInv, RootKnown, InitRoot
  <1> QED
    BY <1>1, <1>2, <1>4, <1>5 DEF InitRoot
-----------------------------------------------------------------------------
\* Steps that leave the tables and every entry above the last level alone.
SameTree ==
  /\ UNCHANGED <<level, free, pml4>>
  /\ \A t \in Tables, i \in Idx : level[t] > 1 => mem'[t][i] = mem[t][i]

LEMMA SameTreeStep ==
  ASSUME IInv, SameTree
  PROVE  Descends' /\ EnteredOnce' /\ TablesAllocated'
  <1>1. Tables' = Tables
    BY DEF Tables, SameTree
  <1>2. Descends /\ EnteredOnce /\ TablesAllocated
    BY TreeHalves DEF IInv
  <1> QED
    BY <1>1, <1>2 DEF SameTree, Descends, EnteredOnce, TablesAllocated

LEMMA NewTreeStep ==
  ASSUME IInv, NEW f \in Offered(free), New(f)
  PROVE  Descends' /\ EnteredOnce' /\ TablesAllocated'
  <1> DEFINE here == call.table
             k == call.v[call.l]
  <1>1. /\ f \in Usable /\ f # Null /\ f \notin Tables /\ Tables' = Tables \cup {f}
        /\ free' = free \ {f} /\ pml4' = pml4
        /\ level'[f] = call.l - 1 /\ \A t \in Tables : level'[t] = level[t]
        /\ \A i \in Idx : mem'[f][i].frame = Null
        /\ mem'[here][k].frame = f
        /\ \A t \in Tables, i \in Idx :
             ~(t = here /\ i = k) => mem'[t][i] = mem[t][i]
    BY NewEffect, Written DEF New
  <1>2. /\ here \in Tables /\ level[here] = call.l /\ k \in Idx
        /\ call.l \in 2 .. 4
    BY RunningCall DEF New
  <1>3. Descends /\ EnteredOnce /\ TablesAllocated
    BY TreeHalves DEF IInv
  <1>4. Descends'
    <2> SUFFICES ASSUME NEW t \in Tables', NEW i \in Idx, level'[t] > 1,
                        mem'[t][i].frame # Null
                 PROVE  /\ mem'[t][i].frame \in Tables'
                        /\ level'[mem'[t][i].frame] = level'[t] - 1
      BY DEF Descends
    <2>1. t \in Tables
      BY <1>1
    <2>2. CASE t = here /\ i = k
      BY <2>1, <2>2, <1>1, <1>2
    <2>3. CASE ~(t = here /\ i = k)
      BY <2>1, <2>3, <1>1, <1>3 DEF Descends
    <2> QED
      BY <2>2, <2>3
  <1>5. EnteredOnce'
    <2> SUFFICES ASSUME NEW t \in Tables', NEW u \in Tables', NEW i \in Idx,
                        NEW j \in Idx, level'[t] > 1, level'[u] > 1,
                        mem'[t][i].frame # Null,
                        mem'[t][i].frame = mem'[u][j].frame
                 PROVE  t = u /\ i = j
      BY DEF EnteredOnce
    <2>1. t \in Tables /\ u \in Tables /\ level[t] > 1 /\ level[u] > 1
      BY <1>1
    <2>2. \A x \in Tables, n \in Idx :
            level[x] > 1 /\ ~(x = here /\ n = k) => mem'[x][n].frame # f
      BY <1>1, <1>3 DEF Descends
    <2>3. CASE (t = here /\ i = k) \/ (u = here /\ j = k)
      BY <2>1, <2>2, <2>3, <1>1
    <2>4. CASE ~(t = here /\ i = k) /\ ~(u = here /\ j = k)
      BY <2>1, <2>4, <1>1, <1>3 DEF EnteredOnce
    <2> QED
      BY <2>3, <2>4
  <1>6. TablesAllocated'
    <2>1. pml4 \in Tables
      BY RunningCall DEF IInv, RootKnown, New
    <2>2. \A t \in Tables' : level'[t] = 4 <=> t = pml4'
      BY <2>1, <1>1, <1>2, <1>3 DEF TablesAllocated
    <2>3. \A g \in Usable : g \in free' <=> g \notin Tables'
      BY <1>1, <1>3 DEF TablesAllocated
    <2> QED
      BY <2>2, <2>3 DEF TablesAllocated
  <1> QED
    BY <1>4, <1>5, <1>6

LEMMA RootTreeStep ==
  ASSUME IInv, InitRoot
  PROVE  Descends' /\ EnteredOnce' /\ TablesAllocated'
  BY RootEffect, Written DEF Descends, EnteredOnce, TablesAllocated, IInv

LEMMA UnmapEffect ==
  ASSUME IInv, NEW v \in VPages, UnmapPage(v)
  PROVE  /\ IsTable(TableFor(v), 1) /\ SameTree /\ call = NoCall /\ phase # "boot"
         /\ mem' = [mem EXCEPT ![TableFor(v)][v[1]] = Empty]
         /\ UNCHANGED <<phase, todo, call>>
  <1>1. IsTable(TableFor(v), 1)
    BY PathLevels DEF UnmapPage
  <1> QED
    BY <1>1 DEF UnmapPage, SameTree, IInv, TypeOK, IsTable, Tables

LEMMA StoreEffect ==
  ASSUME IInv, StoreLeaf
  PROVE  /\ IsTable(call.table, 1) /\ SameTree /\ call' = NoCall /\ phase # "boot"
         /\ mem' = [mem EXCEPT ![call.table][call.v[1]] = Leaf(call.p)]
         /\ UNCHANGED <<phase, todo>>
  <1>1. IsTable(call.table, 1) /\ phase # "boot"
    BY RunningCall DEF StoreLeaf, IsTable
  <1> QED
    BY <1>1 DEF StoreLeaf, Point, SameTree, IInv, TypeOK, IsTable, Tables
-----------------------------------------------------------------------------
LEMMA WalkOnPathIsOnPath ==
  ASSUME call \in Calls \cup {NoCall}
  PROVE  WalkOnPath <=> CallOnPath
  <1>1. call # NoCall => call.l \in 1 .. 4
    BY DEF Calls
  <1>2. 1 # 2 /\ 1 # 3 /\ 1 # 4 /\ 2 # 3 /\ 2 # 4 /\ 3 # 4
    OBVIOUS
  <1>3. call # NoCall => call.l = 1 \/ call.l = 2 \/ call.l = 3 \/ call.l = 4
    BY <1>1
  <1> DEFINE t == CASE call.l = 4 -> pml4
                    [] call.l = 3 -> Dir3(call.v)
                    [] call.l = 2 -> Dir2(call.v)
                    [] call.l = 1 -> TableFor(call.v)
  <1> USE DEF CallOnPath
  <1>4. WalkOnPath <=> (call # NoCall => call.table = t)
    BY Zenon DEF WalkOnPath, Dir3, Dir2
  <1>5. CASE call.l = 1
    <2>1. t = TableFor(call.v)
      BY <1>2, <1>5, Zenon
    <2> QED
      BY <1>4, <1>5, <2>1 DEF OnPath
  <1>6. CASE call.l = 2
    <2>1. t = Dir2(call.v)
      BY <1>2, <1>6, Zenon
    <2> QED
      BY <1>4, <1>6, <2>1 DEF OnPath
  <1>7. CASE call.l = 3
    <2>1. t = Dir3(call.v)
      BY <1>2, <1>7, Zenon
    <2> QED
      BY <1>4, <1>7, <2>1 DEF OnPath
  <1>8. CASE call.l = 4
    <2>1. t = pml4
      BY <1>2, <1>8, Zenon
    <2> QED
      BY <1>4, <1>8, <2>1 DEF OnPath
  <1> QED
    BY <1>3, <1>4, <1>5, <1>6, <1>7, <1>8

\* A path is the same as far down as the tables above it are.
SameAbove(n) ==
  /\ pml4' = pml4
  /\ \A t \in Tables, i \in Idx : level[t] > n => mem'[t][i] = mem[t][i]

LEMMA PathKept ==
  ASSUME IInv, NEW v \in VPages, NEW n \in 0 .. 4, SameAbove(n)
  PROVE  /\ n < 4 => Dir3(v)' = Dir3(v)
         /\ n < 3 => Dir2(v)' = Dir2(v)
         /\ n < 2 => TableFor(v)' = TableFor(v)
  <1>1. v[1] \in Idx /\ v[2] \in Idx /\ v[3] \in Idx /\ v[4] \in Idx
    BY DEF VPages
  <1>2. /\ pml4 = Null \/ IsTable(pml4, 4)
        /\ Dir3(v) = Null \/ IsTable(Dir3(v), 3)
        /\ Dir2(v) = Null \/ IsTable(Dir2(v), 2)
    BY PathLevels
  <1>3. n < 4 => Dir3(v)' = Dir3(v)
    BY <1>1, <1>2 DEF SameAbove, IsTable, Dir3, Child
  <1>4. n < 3 => Dir2(v)' = Dir2(v)
    BY <1>1, <1>2, <1>3 DEF SameAbove, IsTable, Dir2, Child
  <1>5. TableFor(v) = Child(Dir2(v), v[2]) /\ TableFor(v)' = Child(Dir2(v), v[2])'
    BY DEF TableFor, Dir2, Dir3
  <1>6. n < 2 => TableFor(v)' = TableFor(v)
    BY <1>1, <1>2, <1>4, <1>5 DEF SameAbove, IsTable, Child
  <1> QED
    BY <1>3, <1>4, <1>6

LEMMA StandsOnPath ==
  ASSUME IInv, Running
  PROVE  OnPath(call.v, call.l, call.table) /\ call.table # Null
  BY RunningCall, NullIsNoFrame DEF IInv, CallOnPath, Running, Tables

\* The next table of a path, when the entry is t.
LEMMA OneDown ==
  ASSUME NEW v \in VPages, NEW l \in 2 .. 4, NEW t, NEW m, t # Null,
         OnPath(v, l, t), m = mem[t][v[l]].frame
  PROVE  OnPath(v, l - 1, m)
  <1>1. m = Child(t, v[l])
    BY DEF Child
  <1>2. CASE l = 4
    BY <1>1, <1>2 DEF OnPath, Dir3
  <1>3. CASE l = 3
    BY <1>1, <1>3 DEF OnPath, Dir2
  <1>4. CASE l = 2
    BY <1>1, <1>4 DEF OnPath, TableFor, Dir2, Dir3
  <1> QED
    BY <1>2, <1>3, <1>4

\* A walk that begins stands at the root.
LEMMA EnterStep ==
  ASSUME IInv, phase # "boot", NEW v \in VPages, NEW p \in Phys, Enter(v, p),
         UNCHANGED <<mem, level, pml4>>, phase' # "boot"
  PROVE  CallOnPath' /\ CallAtLevel'
  <1>1. call'.l = 4 /\ call'.table = pml4 /\ call'.v = v
    BY DEF Enter
  <1>2. pml4 \in Tables /\ level[pml4] = 4
    BY DEF IInv, RootKnown, TablesAllocated
  <1>3. CallOnPath'
    BY <1>1 DEF CallOnPath, OnPath
  <1> QED
    BY <1>1, <1>2, <1>3 DEF CallAtLevel, Tables

\* A walk goes on through the table there is.
LEMMA FollowStep ==
  ASSUME IInv, Running, call.l > 1, Here # Null,
         call' = [call EXCEPT !.l = @ - 1, !.table = Here],
         UNCHANGED <<free, mem, pml4, level, phase, todo>>
  PROVE  CallOnPath' /\ CallAtLevel'
  <1>1. call \in Calls /\ call.l \in 2 .. 4 /\ call.v \in VPages
    BY RunningCall
  <1>2. Here \in Tables /\ level[Here] = call.l - 1
    BY <1>1, RunningCall, TreeHalves DEF IInv, Descends, Here
  <1>3. Here \in Usable /\ call.l - 1 \in 1 .. 4
    BY <1>1, <1>2 DEF Tables
  <1>4. Down(call, call', call.l - 1, Here)
    BY <1>1, <1>3, CallDown, Zenon
  <1>5. OnPath(call.v, call.l - 1, Here)
    BY <1>1, StandsOnPath, OneDown DEF Here
  <1> QED
    BY <1>2, <1>4, <1>5, RunningCall
    DEF CallOnPath, CallAtLevel, OnPath, Down, Tables, Dir3, Dir2, TableFor, Child

\* A walk goes on through a table of its own.
LEMMA NewStep ==
  ASSUME IInv, NEW f \in Offered(free), New(f)
  PROVE  CallOnPath' /\ CallAtLevel' /\ RootKnown'
  <1>0. PICK v, l, t : v = call.v /\ l = call.l /\ t = call.table
    OBVIOUS
  <1>1. /\ l \in 2 .. 4 /\ v \in VPages /\ t \in Tables /\ level[t] = l
        /\ phase # "boot" /\ pml4' = pml4 /\ phase' = phase
    BY <1>0, RunningCall DEF New
  <1>2. /\ f \in Usable /\ f \notin Tables /\ Tables' = Tables \cup {f}
        /\ level'[f] = l - 1 /\ mem'[t][v[l]].frame = f
        /\ \A u \in Tables, i \in Idx :
             ~(u = t /\ i = v[l]) => mem'[u][i] = mem[u][i]
        /\ call'.l = l - 1 /\ call'.table = f /\ call'.v = v /\ call' # NoCall
    BY <1>0, NewEffect, Written
  <1>3. SameAbove(l)
    BY <1>1, <1>2 DEF SameAbove
  <1>4. OnPath(v, l, t) /\ t # Null
    BY <1>0, StandsOnPath DEF New
  <1>5. /\ l < 4 => Dir3(v)' = Dir3(v)
        /\ l < 3 => Dir2(v)' = Dir2(v)
    BY <1>1, <1>3, PathKept
  <1>6. f = Child(t, v[l])'
    BY <1>2, <1>4 DEF Child
  <1>7. OnPath(v, l - 1, f)'
    <2>1. CASE l = 4
      BY <2>1, <1>1, <1>4, <1>6 DEF OnPath, Dir3, Child
    <2>2. CASE l = 3
      BY <2>2, <1>1, <1>4, <1>5, <1>6 DEF OnPath, Dir2, Child
    <2>3. CASE l = 2
      <3>1. TableFor(v)' = Child(Dir2(v), v[2])'
        BY DEF TableFor, Dir2, Dir3
      <3>2. t = Dir2(v)'
        BY <2>3, <1>4, <1>5 DEF OnPath
      <3> QED
        BY <2>3, <3>1, <3>2, <1>6 DEF OnPath, Child
    <2> QED
      BY <1>1, <2>1, <2>2, <2>3
  <1>8. CallOnPath'
    BY <1>2, <1>7 DEF CallOnPath, OnPath
  <1>9. RootKnown'
    BY <1>1, <1>2 DEF IInv, RootKnown
  <1> QED
    BY <1>0, <1>1, <1>2, <1>8, <1>9 DEF CallAtLevel

\* A step that enters no table and stays out of the boot phase.
LEMMA Stays ==
  ASSUME IInv, UNCHANGED <<mem, level, pml4, call>>,
         phase # "boot" => phase' # "boot", phase = "boot" => phase' = "boot"
  PROVE  CallOnPath' /\ CallAtLevel' /\ RootKnown'
  BY DEF IInv, CallOnPath, OnPath, Dir3, Dir2, TableFor, Child, CallAtLevel,
         RootKnown, Tables

LEMMA SameTreeBoot ==
  ASSUME IInv, SameTree, call' = NoCall, phase # "boot", phase' = phase
  PROVE  CallOnPath' /\ CallAtLevel' /\ RootKnown'
  BY DEF IInv, CallOnPath, CallAtLevel, RootKnown, SameTree, Tables

LEMMA TreeStep ==
  ASSUME IInv, [Next]_vars
  PROVE  /\ Descends' /\ EnteredOnce' /\ TablesAllocated'
         /\ CallOnPath' /\ CallAtLevel' /\ RootKnown'
  <1> DEFINE Goal == /\ Descends' /\ EnteredOnce' /\ TablesAllocated'
                     /\ CallOnPath' /\ CallAtLevel' /\ RootKnown'
  <1>a. ASSUME UNCHANGED <<mem, level, free, pml4>>
        PROVE  Descends' /\ EnteredOnce' /\ TablesAllocated'
    BY <1>a, SameTreeStep DEF SameTree
  <1>b. ASSUME phase # "boot", UNCHANGED <<level, pml4>>, phase' # "boot"
        PROVE  RootKnown'
    BY <1>b DEF IInv, RootKnown, Tables
  <1>1. CASE InitRoot
    <2>1. CallOnPath' /\ CallAtLevel' /\ RootKnown'
      BY <1>1, RootEffect DEF CallOnPath, CallAtLevel, RootKnown
    <2> QED
      BY <1>1, <2>1, RootTreeStep
  <1>2. CASE InitCall
    <2> PICK f \in todo : Enter(Indices(f), f)
      BY <1>2 DEF InitCall
    <2>1. f \in Nat /\ f \in Phys /\ Indices(f) \in VPages
      BY UsableIsNat, NullIsNoFrame, IndicesTyped DEF IInv, TypeOK
    <2>2. phase # "boot" /\ phase' # "boot" /\ UNCHANGED <<mem, level, free, pml4>>
      BY <1>2 DEF InitCall
    <2> QED
      BY <2>1, <2>2, <1>a, <1>b, EnterStep
  <1>3. CASE InitDone
    <2>1. UNCHANGED <<mem, level, free, pml4, call>> /\ phase = "init"
            /\ phase' = "ready"
      BY <1>3 DEF InitDone
    <2> QED
      BY <2>1, <1>a, Stays
  <1>4. ASSUME NEW v \in CallPages, NEW p \in CallFrames, MapCall(v, p)
        PROVE  Goal
    <2>1. v \in VPages /\ p \in Phys /\ Enter(v, p) /\ phase = "ready"
            /\ UNCHANGED <<mem, level, free, pml4, phase>>
      BY <1>4, CallsAssumption DEF MapCall
    <2>2. CallOnPath' /\ CallAtLevel'
      BY <2>1, EnterStep
    <2> QED
      BY <2>1, <2>2, <1>a, <1>b
  <1>5. CASE Descend
    <2>1. CASE Here # Null
      <3>1. /\ Running /\ call.l > 1
            /\ call' = [call EXCEPT !.l = @ - 1, !.table = Here]
            /\ UNCHANGED <<free, mem, pml4, level, phase, todo>>
        BY <1>5, <2>1 DEF Descend
      <3>2. CallOnPath' /\ CallAtLevel'
        BY <2>1, <3>1, FollowStep
      <3>3. phase # "boot"
        BY <3>1, RunningCall
      <3> QED
        BY <3>1, <3>2, <3>3, <1>a, <1>b
    <2>2. CASE OutOfFrames
      <3>1. phase # "boot" /\ phase' = "halted"
        BY <1>5, <2>2, RunningCall DEF Descend, OutOfFrames
      <3>2. UNCHANGED <<mem, level, free, pml4, call>>
        BY <2>2 DEF OutOfFrames
      <3> QED
        BY <3>1, <3>2, <1>a, Stays
    <2>3. CASE \E f \in Offered(free) : New(f)
      BY <2>3, NewTreeStep, NewStep
    <2> QED
      BY <1>5, <2>1, <2>2, <2>3 DEF Descend, New
  <1>6. CASE StoreLeaf
    BY <1>6, StoreEffect, SameTreeStep, SameTreeBoot
  <1>7. ASSUME NEW v \in CallPages, UnmapPage(v)
        PROVE  Goal
    <2>1. v \in VPages
      BY CallsAssumption
    <2> QED
      BY <2>1, <1>7, UnmapEffect, SameTreeStep, SameTreeBoot
  <1>8. CASE UNCHANGED vars
    <2>1. UNCHANGED <<mem, level, free, pml4, call, phase>>
      BY <1>8 DEF vars
    <2> QED
      BY <2>1, <1>a, Stays
  <1> QED
    BY <1>1, <1>2, <1>3, <1>4, <1>5, <1>6, <1>7, <1>8 DEF Next

LEMMA InvariantStep ==
  ASSUME IInv, [Next]_vars
  PROVE  IInv'
  <1>1. TreeShaped' <=> Descends' /\ EnteredOnce'
    BY DEF TreeShaped, Descends, EnteredOnce
  <1> QED
    BY <1>1, TypeStep, TreeStep DEF IInv

\* The inductive invariant holds in every reachable state of vmm.c.
THEOREM Invariance == Spec => []IInv
  <1>1. Init => IInv
    BY InitIInv
  <1>2. IInv /\ [Next]_vars => IInv'
    BY InvariantStep
  <1> QED
    BY <1>1, <1>2, PTL DEF Spec

\* Every state of vmm.c is well typed.
THEOREM TypeCorrect == Spec => []TypeOK
  <1>1. IInv => TypeOK
    BY DEF IInv
  <1> QED
    BY <1>1, Invariance, PTL

\* The page tables are a tree that enters no table twice.
THEOREM TreeCorrect == Spec => []TreeShaped
  <1>1. IInv => TreeShaped
    BY DEF IInv
  <1> QED
    BY <1>1, Invariance, PTL

\* No frame is a page table and free, and the root is the only table of level 4.
THEOREM TablesNotFree == Spec => []TablesAllocated
  <1>1. IInv => TablesAllocated
    BY DEF IInv
  <1> QED
    BY <1>1, Invariance, PTL

\* A running VMMMapPage stands where a walk from the root would.
THEOREM WalkCorrect == Spec => []WalkOnPath
  <1>1. IInv => WalkOnPath
    BY WalkOnPathIsOnPath DEF IInv, TypeOK
  <1> QED
    BY <1>1, Invariance, PTL

-----------------------------------------------------------------------------
\* The map the tables show.
Shown == [v \in VPages |-> Recorded(v)]

\* A page table is reached by one path.
LEMMA PathDetermined ==
  ASSUME IInv, NEW v \in VPages, NEW w \in VPages,
         TableFor(v) # Null, TableFor(v) = TableFor(w)
  PROVE  v[4] = w[4] /\ v[3] = w[3] /\ v[2] = w[2]
  <1>1. \A l \in 1 .. 4 : v[l] \in Idx /\ w[l] \in Idx
    BY DEF VPages
  <1>2. \A t, u, i, j :
          /\ t \in Tables /\ u \in Tables /\ i \in Idx /\ j \in Idx
          /\ level[t] > 1 /\ level[u] > 1
          /\ Child(t, i) # Null /\ Child(t, i) = Child(u, j)
          => t = u /\ i = j
    BY TreeHalves DEF IInv, EnteredOnce, Child
  <1>3. /\ IsTable(Dir2(v), 2) /\ IsTable(Dir2(w), 2)
        /\ Dir3(v) # Null /\ Dir3(w) # Null
    BY PathLevels, NullIsNoFrame DEF IsTable, Tables
  <1>4. /\ IsTable(Dir3(v), 3) /\ IsTable(Dir3(w), 3) /\ IsTable(pml4, 4)
    BY <1>3, PathLevels, NullIsNoFrame DEF IsTable, Tables
  <1>5. /\ TableFor(v) = Child(Dir2(v), v[2]) /\ TableFor(w) = Child(Dir2(w), w[2])
    BY DEF TableFor, Dir2, Dir3
  <1>6. Dir2(v) = Dir2(w) /\ v[2] = w[2]
    <2>1. /\ Dir2(v) \in Tables /\ level[Dir2(v)] > 1
          /\ Dir2(w) \in Tables /\ level[Dir2(w)] > 1
      BY <1>3 DEF IsTable
    <2>2. v[2] \in Idx /\ w[2] \in Idx
      BY <1>1
    <2>3. /\ Child(Dir2(v), v[2]) # Null
          /\ Child(Dir2(v), v[2]) = Child(Dir2(w), w[2])
      BY <1>5
    <2> QED
      BY <2>1, <2>2, <2>3, <1>2
  <1>7. Dir2(v) # Null
    BY <1>3, NullIsNoFrame DEF IsTable, Tables
  <1>8. Dir3(v) = Dir3(w) /\ v[3] = w[3]
    BY <1>1, <1>2, <1>4, <1>6, <1>7 DEF IsTable, Dir2
  <1>9. v[4] = w[4]
    BY <1>1, <1>2, <1>3, <1>4, <1>8 DEF IsTable, Dir3
  <1> QED
    BY <1>6, <1>8, <1>9

\* Writing the last entry for v shows through for v and for no other page.
LEMMA LeafWrite ==
  ASSUME IInv, NEW v \in VPages, NEW e \in Slots, TableFor(v) # Null, SameTree,
         mem' = [mem EXCEPT ![TableFor(v)][v[1]] = e]
  PROVE  Shown' = [Shown EXCEPT ![v] = IF e.present THEN e.frame ELSE Null]
  <1> DEFINE x == IF e.present THEN e.frame ELSE Null
  <1>1. SameAbove(1)
    BY DEF SameTree, SameAbove
  <1>2. ASSUME NEW w \in VPages
        PROVE  Recorded(w)' = IF w = v THEN x ELSE Recorded(w)
    <2>1. TableFor(w)' = TableFor(w)
      BY <1>1, PathKept
    <2>2. \A l \in 1 .. 4 : v[l] \in Idx /\ w[l] \in Idx
      BY DEF VPages
    <2>3. TableFor(v) \in Usable /\ TableFor(w) \in Usable \cup {Null}
      BY PathLevels DEF IsTable, Tables
    <2>4. /\ mem'[TableFor(v)][v[1]] = e
          /\ \A t \in Usable, i \in Idx :
               ~(t = TableFor(v) /\ i = v[1]) => mem'[t][i] = mem[t][i]
      BY <2>2, <2>3 DEF IInv, TypeOK
    <2>5. CASE w = v
      BY <2>1, <2>4, <2>5 DEF Recorded, Follow
    <2>6. CASE w # v
      <3>1. ~(TableFor(w) = TableFor(v) /\ w[1] = v[1])
        <4> SUFFICES ASSUME TableFor(w) = TableFor(v), w[1] = v[1]
                     PROVE  w = v
          BY <2>6
        <4>1. v[4] = w[4] /\ v[3] = w[3] /\ v[2] = w[2]
          BY PathDetermined
        <4> QED
          BY <4>1 DEF VPages
      <3> QED
        BY <2>1, <2>2, <2>3, <2>4, <2>6, <3>1 DEF Recorded, Follow
    <2> QED
      BY <2>5, <2>6
  <1> QED
    BY <1>2 DEF Shown

LEMMA PageStored ==
  ASSUME IInv, NEW v \in VPages, NEW p \in Phys, TableFor(v) # Null, SameTree,
         mem' = [mem EXCEPT ![TableFor(v)][v[1]] = Leaf(p)]
  PROVE  Shown' = [Shown EXCEPT ![v] = p]
  <1> DEFINE e == Leaf(p)
  <1>1. e \in Slots /\ e.present /\ e.frame = p
    BY Written
  <1>2. mem' = [mem EXCEPT ![TableFor(v)][v[1]] = e]
    OBVIOUS
  <1> HIDE DEF e
  <1>3. Shown' = [Shown EXCEPT ![v] = IF e.present THEN e.frame ELSE Null]
    BY <1>1, <1>2, LeafWrite
  <1> QED
    BY <1>1, <1>3

\* A table of a walk's own shows no page.
LEMMA NewShowsNothing ==
  ASSUME IInv, NEW f \in Offered(free), New(f)
  PROVE  Shown' = Shown
  <1> DEFINE Sim(a, b) == b = a \/ (a = Null /\ b = f)
  <1>0. PICK l, t, k : l = call.l /\ t = call.table /\ k = call.v[call.l]
    OBVIOUS
  <1>1. /\ f # Null /\ t \in Tables /\ level[t] = l /\ l > 1 /\ mem[t][k].frame = Null
        /\ \A i \in Idx : mem'[f][i] = Empty
        /\ mem'[t][k].frame = f
        /\ \A u \in Tables, i \in Idx :
             ~(u = t /\ i = k) => mem'[u][i] = mem[u][i]
        /\ pml4' = pml4
    <2>1. t \in Tables /\ level[t] = l /\ l > 1 /\ mem[t][k].frame = Null
            /\ pml4' = pml4
      BY <1>0, RunningCall DEF New, Here
    <2> QED
      BY <1>0, <2>1, NewEffect, Written
  <1>2. ASSUME NEW w \in VPages
        PROVE  Recorded(w)' = Recorded(w)
    <2>1. \A j \in 1 .. 4 : w[j] \in Idx
      BY DEF VPages
    <2>2. ASSUME NEW a, NEW b, NEW i \in Idx, Sim(a, b),
                 a = Null \/ a \in Tables
          PROVE  Sim(Child(a, i), IF b = Null THEN Null ELSE mem'[b][i].frame)
      BY <2>2, <1>1, NullIsNoFrame, Written DEF Child, Tables
    <2>3. Sim(Dir3(w), Dir3(w)')
      BY <2>1, <2>2, <1>1, PathLevels DEF Dir3, Child, IsTable
    <2>4. Sim(Dir2(w), Dir2(w)')
      BY <2>1, <2>2, <2>3, PathLevels DEF Dir2, Child, IsTable
    <2>5. Sim(TableFor(w), TableFor(w)')
      <3>1. /\ TableFor(w) = Child(Dir2(w), w[2])
            /\ TableFor(w)' = Child(Dir2(w), w[2])'
        BY DEF TableFor, Dir2, Dir3
      <3> QED
        BY <2>1, <2>2, <2>4, <3>1, PathLevels DEF Child, IsTable
    <2>6. TableFor(w) = Null \/ (TableFor(w) \in Tables /\ TableFor(w) # t)
      BY <1>1, PathLevels DEF IsTable
    <2> QED
      BY <2>1, <2>5, <2>6, <1>1, NullIsNoFrame, Written DEF Recorded, Follow, Tables
  <1> QED
    BY <1>2 DEF Shown

LEMMA RootShowsNothing ==
  ASSUME IInv, InitRoot
  PROVE  Shown' = Shown
  <1>1. /\ pml4 = Null /\ pml4' # Null
        /\ \A i \in Idx : mem'[pml4'][i].frame = Null
    BY RootEffect, Written
  <1>2. ASSUME NEW v \in VPages
        PROVE  Recorded(v)' = Recorded(v)
    <2>1. v[4] \in Idx
      BY DEF VPages
    <2> QED
      BY <2>1, <1>1 DEF Recorded, Follow, TableFor, Child
  <1> QED
    BY <1>2 DEF Shown

LEMMA SameMemory ==
  ASSUME UNCHANGED <<mem, pml4>>
  PROVE  Shown' = Shown
  BY DEF Shown, Recorded, Follow, TableFor, Child

\* Every step changes the map in one page or not at all.
LEMMA MapStep ==
  ASSUME IInv, [Next]_vars
  PROVE  \/ Shown' = Shown
         \/ /\ StoreLeaf /\ call.v \in VPages /\ call.p \in Phys
            /\ Shown' = [Shown EXCEPT ![call.v] = call.p]
         \/ /\ phase = "ready"
            /\ \E v \in VPages : Shown' = [Shown EXCEPT ![v] = Null]
  <1>1. CASE InitRoot
    BY <1>1, RootShowsNothing
  <1>2. CASE InitCall \/ InitDone \/ UNCHANGED vars
    BY <1>2, SameMemory DEF InitCall, InitDone, vars
  <1>3. ASSUME NEW v \in CallPages, NEW p \in CallFrames, MapCall(v, p)
        PROVE  Shown' = Shown
    BY <1>3, SameMemory DEF MapCall
  <1>4. CASE Descend
    <2>1. CASE \E f \in Offered(free) : New(f)
      BY <2>1, NewShowsNothing
    <2>2. CASE UNCHANGED <<mem, pml4>>
      BY <2>2, SameMemory
    <2> QED
      BY <1>4, <2>1, <2>2 DEF Descend, New, OutOfFrames
  <1>5. CASE StoreLeaf
    <2>1. call.v \in VPages /\ call.p \in Phys /\ call.l = 1 /\ Running
      BY <1>5, RunningCall DEF StoreLeaf
    <2>2. call.table = TableFor(call.v) /\ call.table # Null
      BY <2>1, StandsOnPath DEF OnPath
    <2>3. SameTree /\ mem' = [mem EXCEPT ![call.table][call.v[1]] = Leaf(call.p)]
      BY <1>5, StoreEffect
    <2> QED
      BY <1>5, <2>1, <2>2, <2>3, PageStored
  <1>6. ASSUME NEW v \in CallPages, UnmapPage(v)
        PROVE  /\ phase = "ready" /\ v \in VPages
               /\ Shown' = [Shown EXCEPT ![v] = Null]
    BY <1>6, CallsAssumption, UnmapEffect, LeafWrite, Written DEF UnmapPage
  <1> QED
    BY <1>1, <1>2, <1>3, <1>4, <1>5, <1>6 DEF Next

\* What the page tables, built step by step, record for the code's own walk
\* behaves as a map from pages to frames that changes one page at a time.
THEOREM MapImplemented == Spec => ImplementsPageMap
  <1>1. Init => PM!Init
    BY DEF Init, PM!Init, Recorded, Follow, TableFor, Child
  <1>2. IInv /\ [Next]_vars => [PM!Next]_(PM!vars)
    <2> SUFFICES ASSUME IInv, [Next]_vars
                 PROVE  Shown' = Shown \/ PM!Next
      BY DEF PM!vars, Shown
    <2>1. CASE Shown' = Shown
      BY <2>1
    <2>2. ASSUME NEW v \in VPages, NEW p \in Phys, Shown' = [Shown EXCEPT ![v] = p]
          PROVE  PM!Next
      BY <2>2 DEF PM!Next, PM!Map, Shown
    <2>3. ASSUME NEW v \in VPages, Shown' = [Shown EXCEPT ![v] = Null]
          PROVE  PM!Next
      BY <2>3 DEF PM!Next, PM!Unmap, Shown
    <2> QED
      BY <2>1, <2>2, <2>3, MapStep
  <1> QED
    BY <1>1, <1>2, Invariance, PTL DEF Spec, ImplementsPageMap

-----------------------------------------------------------------------------
\* Division, as far as page numbers need it.
LEMMA DivMod ==
  ASSUME NEW a \in Nat, NEW d \in Nat \ {0}
  PROVE  /\ a \div d \in Nat /\ a % d \in 0 .. d - 1
         /\ a = d * (a \div d) + (a % d)
  OBVIOUS

LEMMA DivUnique ==
  ASSUME NEW a \in Nat, NEW d \in Nat \ {0}, NEW q \in Nat, NEW r \in Nat, r < d,
         a = d * q + r
  PROVE  a \div d = q
  BY SMT

LEMMA DivDiv ==
  ASSUME NEW a \in Nat, NEW m \in Nat \ {0}, NEW n \in Nat \ {0}
  PROVE  a \div (m * n) = (a \div m) \div n
  <1> DEFINE p == a \div m
             s == a % m
  <1>1. p \in Nat /\ s \in Nat /\ s < m /\ a = m * p + s
    BY DivMod
  <1> HIDE DEF p, s
  <1> DEFINE q == p \div n
             r == p % n
  <1>2. q \in Nat /\ r \in Nat /\ r < n /\ p = n * q + r
    BY <1>1, DivMod
  <1> HIDE DEF q, r
  <1>3. a = (m * n) * q + (m * r + s)
    BY <1>1, <1>2
  <1>4. m * r + s \in Nat /\ m * r + s < m * n
    <2>1. m * r \in Nat /\ m * r =< m * (n - 1)
      BY <1>2
    <2>2. m * (n - 1) = m * n - m
      OBVIOUS
    <2> QED
      BY <1>1, <2>1, <2>2
  <1>5. m * n \in Nat \ {0}
    OBVIOUS
  <1>6. a \div (m * n) = q
    BY <1>2, <1>3, <1>4, <1>5, DivUnique
  <1> QED
    BY <1>6 DEF p, q

\* The quotients that give the four indices, the last of which is one itself.
Divided(e, f, q, r, s) == q = f \div e /\ r = q \div e /\ s = r \div e
Fits(e, f) == f < e * (e * e * e)
Quotient(e, f, q, r, s) ==
  /\ q \in Nat /\ r \in Nat /\ s \in Nat /\ s < e
  /\ f \div (e * e) = r /\ f \div (e * e * e) = s

LEMMA Quotients ==
  ASSUME NEW e \in Nat \ {0}, NEW f \in Nat, Fits(e, f),
         NEW q, NEW r, NEW s, Divided(e, f, q, r, s)
  PROVE  Quotient(e, f, q, r, s)
  <1> USE DEF Divided, Fits, Quotient
  <1>1. e * e \in Nat \ {0} /\ e * e * e \in Nat \ {0}
    OBVIOUS
  <1>2. q \in Nat
    BY DivMod
  <1>3. r \in Nat
    BY <1>2, DivMod
  <1>4. s \in Nat
    BY <1>3, DivMod
  <1>5. f \div (e * e) = r
    BY DivDiv
  <1>6. f \div (e * e * e) = s
    <2> DEFINE d == e * e
    <2>1. d \in Nat \ {0} /\ f \div d = r
      BY <1>1, <1>5
    <2> HIDE DEF d
    <2>2. f \div (d * e) = (f \div d) \div e
      BY <2>1, DivDiv
    <2>3. f \div (d * e) = s
      BY <2>1, <2>2
    <2> QED
      BY <2>3 DEF d
  <1>7. (e * e * e) * s =< f
    <2> DEFINE d == e * e * e
    <2>1. d \in Nat \ {0} /\ f \div d = s
      BY <1>1, <1>6
    <2> HIDE DEF d
    <2>2. d * s =< f
      BY <2>1, DivMod
    <2> QED
      BY <2>2 DEF d
  <1>8. s < e
    <2> SUFFICES ASSUME s >= e PROVE FALSE
      BY <1>4
    <2> DEFINE c == e * e * e
    <2>1. c \in Nat \ {0} /\ c * s =< f /\ f < e * c
      BY <1>1, <1>7
    <2> HIDE DEF c
    <2>2. c * e =< c * s
      BY <1>4, <2>1
    <2>3. c * e = e * c /\ c * s \in Nat /\ c * e \in Nat
      BY <1>4, <2>1
    <2> QED
      BY <2>1, <2>2, <2>3
  <1> QED
    BY <1>2, <1>3, <1>4, <1>5, <1>6, <1>8

LEMMA Powers ==
  /\ Pow(1) = 1 /\ Pow(2) = Entries
  /\ Pow(3) = Entries * Entries /\ Pow(4) = Entries * Entries * Entries
  <1>1. 1 # 2 /\ 1 # 3 /\ 1 # 4 /\ 2 # 3 /\ 2 # 4 /\ 3 # 4
    OBVIOUS
  <1>2. Pow(1) = 1
    BY <1>1, Zenon DEF Pow
  <1>3. Pow(2) = Entries
    BY <1>1, Zenon DEF Pow
  <1>4. Pow(3) = Entries * Entries
    BY <1>1, Zenon DEF Pow
  <1>5. Pow(4) = Entries * Entries * Entries
    BY <1>1, Zenon DEF Pow
  <1> QED
    BY <1>2, <1>3, <1>4, <1>5

\* The number of a usable frame is made of its indices.
LEMMA FrameOfIndices ==
  ASSUME NEW f \in Usable
  PROVE  \E q, r \in Nat :
           /\ f = Entries * q + Indices(f)[1]
           /\ q = Entries * r + Indices(f)[2]
           /\ r = Entries * Indices(f)[4] + Indices(f)[3]
  <1>0. PICK q, r, s : q = f \div Entries /\ r = q \div Entries /\ s = r \div Entries
    OBVIOUS
  <1>1. f \in Nat /\ f < Entries * (Entries * Entries * Entries)
    BY Powers, FramesAssumption
  <1>2. /\ q \in Nat /\ r \in Nat /\ s \in Nat /\ s < Entries
        /\ f \div (Entries * Entries) = r /\ f \div (Entries * Entries * Entries) = s
    <2>1. Fits(Entries, f) /\ Divided(Entries, f, q, r, s)
      BY <1>0, <1>1 DEF Fits, Divided
    <2>2. Quotient(Entries, f, q, r, s)
      BY <1>1, <2>1, EntriesAssumption, Quotients, Zenon
    <2> QED
      BY <2>2 DEF Quotient
  <1>3. /\ Indices(f)[1] = (f \div 1) % Entries
        /\ Indices(f)[2] = q % Entries
        /\ Indices(f)[3] = r % Entries
        /\ Indices(f)[4] = s % Entries
    BY <1>0, <1>2, Powers DEF Indices
  <1>4. f = Entries * q + (f % Entries)
    BY <1>0, <1>1, EntriesAssumption, DivMod
  <1>5. q = Entries * r + (q % Entries)
    BY <1>0, <1>2, EntriesAssumption, DivMod
  <1>6. r = Entries * s + (r % Entries)
    BY <1>0, <1>2, EntriesAssumption, DivMod
  <1>7. s % Entries = s /\ f \div 1 = f
    BY <1>1, <1>2, EntriesAssumption
  <1> QED
    BY <1>2, <1>3, <1>4, <1>5, <1>6, <1>7

\* Different usable frames have different indices: the tables can tell them
\* apart.
LEMMA IndicesDiffer ==
  ASSUME NEW a \in Usable, NEW b \in Usable, Indices(a) = Indices(b)
  PROVE  a = b
  <1>1. PICK q, r \in Nat : /\ a = Entries * q + Indices(a)[1]
                             /\ q = Entries * r + Indices(a)[2]
                             /\ r = Entries * Indices(a)[4] + Indices(a)[3]
    BY FrameOfIndices
  <1>2. PICK u, v \in Nat : /\ b = Entries * u + Indices(b)[1]
                             /\ u = Entries * v + Indices(b)[2]
                             /\ v = Entries * Indices(b)[4] + Indices(b)[3]
    BY FrameOfIndices
  <1> QED
    BY <1>1, <1>2, Zenon

-----------------------------------------------------------------------------
\* Inside VMMInit every page its loop is done with is mapped to itself, and the
\* running call is for the page it took last.
Mapped ==
  /\ phase = "boot" => todo = Usable /\ call = NoCall
  /\ phase = "init" =>
       /\ call # NoCall => call.p \in Usable /\ call.v = Indices(call.p)
       /\ \A f \in Usable \ todo :
            (call # NoCall /\ f = call.p) \/ Shown[Indices(f)] = f

LEMMA InitMapped == Init => Mapped
  BY DEF Init, Mapped

LEMMA FollowKeeps ==
  ASSUME IInv, Running, call.l > 1, Here # Null,
         call' = [call EXCEPT !.l = @ - 1, !.table = Here]
  PROVE  call' # NoCall /\ call'.p = call.p /\ call'.v = call.v
  <1>1. call \in Calls /\ call.l - 1 \in 1 .. 4
    BY RunningCall
  <1>2. Here \in Usable
    BY <1>1, RunningCall, TreeHalves DEF IInv, Descends, Here, Tables
  <1>3. Down(call, call', call.l - 1, Here)
    BY <1>1, <1>2, CallDown, Zenon
  <1> QED
    BY <1>3, NoCallIsNoCall DEF Down

\* A step that keeps what is shown, the loop and the call's page.
LEMMA StillMapped ==
  ASSUME Mapped, Shown' = Shown, todo' = todo,
         phase' = "init" => phase = "init",
         phase' # "boot",
         call' # NoCall => call # NoCall /\ call'.p = call.p /\ call'.v = call.v,
         call # NoCall => call' # NoCall
  PROVE  Mapped'
  BY DEF Mapped

LEMMA MappedStep ==
  ASSUME IInv, Mapped, [Next]_vars
  PROVE  Mapped'
  <1>t. todo \subseteq Usable /\ Usable \subseteq Nat
    BY UsableIsNat DEF IInv, TypeOK
  <1>1. CASE InitRoot
    <2>1. todo' = Usable
      BY <1>1 DEF InitRoot, Mapped
    <2> QED
      BY <1>1, <2>1, RootEffect DEF Mapped
  <1>2. CASE InitCall
    <2> PICK f \in todo : Enter(Indices(f), f) /\ todo' = todo \ {f}
      BY <1>2 DEF InitCall
    <2>1. Shown' = Shown /\ phase = "init" /\ phase' = "init"
      BY <1>2, SameMemory DEF InitCall
    <2>2. call = NoCall /\ call'.p = f /\ call'.v = Indices(f)
      BY DEF Enter
    <2>3. call' # NoCall
      <3>1. call' \in Calls \cup {NoCall} /\ call'.l = 4
        BY TypeStep DEF TypeOK, Enter
      <3> QED
        BY <3>1 DEF NoCall
    <2> QED
      BY <2>1, <2>2, <2>3, <1>t DEF Mapped
  <1>3. CASE phase' # "init" /\ phase' # "boot"
    BY <1>3 DEF Mapped
  <1>4. CASE Descend /\ phase' = "init"
    <2>0. Running /\ phase # "boot" /\ phase' # "boot" /\ todo' = todo
      BY <1>4, RunningCall DEF Descend, OutOfFrames
    <2>1. CASE \E f \in Offered(free) : New(f)
      <3> PICK f \in Offered(free) : New(f)
        BY <2>1
      <3>1. phase = "init" /\ Shown' = Shown
        BY <1>4, NewShowsNothing DEF New
      <3>2. call' # NoCall /\ call # NoCall /\ call'.p = call.p /\ call'.v = call.v
        BY <2>0, NewEffect DEF Running
      <3> QED
        BY <2>0, <3>1, <3>2, StillMapped
    <2>2. CASE /\ Here # Null /\ call' = [call EXCEPT !.l = @ - 1, !.table = Here]
               /\ UNCHANGED <<free, mem, pml4, level, phase, todo>>
      <3>1. phase = "init" /\ Shown' = Shown
        BY <1>4, <2>2, SameMemory
      <3>2. call' # NoCall /\ call'.p = call.p /\ call'.v = call.v
        BY <1>4, <2>2, FollowKeeps DEF Descend
      <3> QED
        BY <2>0, <3>1, <3>2, StillMapped DEF Running
    <2> QED
      BY <1>4, <2>1, <2>2 DEF Descend, New, OutOfFrames
  <1>5. CASE StoreLeaf /\ phase' = "init"
    <2>1. /\ phase = "init" /\ call # NoCall /\ call' = NoCall /\ todo' = todo
          /\ call.l = 1
      BY <1>5 DEF StoreLeaf, Running
    <2>2. /\ call.p \in Usable /\ call.v = Indices(call.p)
          /\ \A f \in Usable \ todo : f = call.p \/ Shown[Indices(f)] = f
      BY <2>1 DEF Mapped
    <2>3. Shown' = [Shown EXCEPT ![call.v] = call.p]
      <3>1. SameTree /\ mem' = [mem EXCEPT ![call.table][call.v[1]] = Leaf(call.p)]
        BY <1>5, StoreEffect
      <3>2. call.v \in VPages /\ call.table = TableFor(call.v) /\ call.table # Null
        BY <1>5, <2>1, RunningCall, StandsOnPath DEF OnPath, StoreLeaf
      <3> QED
        BY <2>2, <3>1, <3>2, PageStored, NullIsNoFrame
    <2>4. ASSUME NEW f \in Usable \ todo
          PROVE  Shown'[Indices(f)] = f
      <3>1. Indices(f) \in VPages /\ call.v \in VPages
        BY <1>t, <2>2, IndicesTyped
      <3>2. CASE f = call.p
        BY <2>2, <2>3, <3>1, <3>2 DEF Shown
      <3>3. CASE f # call.p
        <4>1. Indices(f) # call.v
          BY <2>2, <3>3, IndicesDiffer
        <4> QED
          BY <2>2, <2>3, <3>1, <3>3, <4>1 DEF Shown
      <3> QED
        BY <3>2, <3>3
    <2> QED
      BY <1>5, <2>1, <2>4 DEF Mapped
  <1>6. CASE UNCHANGED vars
    BY <1>6, SameMemory DEF vars, Mapped
  <1> QED
    BY <1>1, <1>2, <1>3, <1>4, <1>5, <1>6
    DEF Next, InitDone, MapCall, UnmapPage, Descend, StoreLeaf, Running, OutOfFrames

\* When VMMInit returns, the code's walk finds for every usable page an entry
\* that is present and holds that very page.
THEOREM IdentityCorrect == Spec => IdentityRecorded
  <1>1. Init => Mapped
    BY InitMapped
  <1>2. IInv /\ Mapped /\ [Next]_vars => Mapped'
    BY MappedStep
  <1>3. IInv /\ Mapped /\ [Next]_vars
          => [phase = "init" /\ phase' = "ready" =>
                \A f \in Usable : Recorded(Indices(f)) = f]_vars
    <2> SUFFICES ASSUME IInv, Mapped, [Next]_vars, phase = "init", phase' = "ready",
                        NEW f \in Usable
                 PROVE  Recorded(Indices(f)) = f
      OBVIOUS
    <2>1. InitDone
      BY DEF Next, InitRoot, InitCall, MapCall, Descend, OutOfFrames, StoreLeaf,
             UnmapPage, vars
    <2>2. Shown[Indices(f)] = f
      BY <2>1 DEF InitDone, Mapped
    <2>3. Indices(f) \in VPages
      BY UsableIsNat, IndicesTyped
    <2> QED
      BY <2>2, <2>3 DEF Shown
  <1> QED
    BY <1>1, <1>2, <1>3, Invariance, PTL DEF Spec, IdentityRecorded

-----------------------------------------------------------------------------
\* The entries above the last level are addresses alone.
Bare ==
  \A t \in Tables, i \in Idx : level[t] > 1 => ~mem[t][i].present

LEMMA BareStep ==
  ASSUME IInv, Bare, [Next]_vars
  PROVE  Bare'
  <1>1. ASSUME SameTree
        PROVE  Bare'
    BY <1>1 DEF Bare, SameTree, Tables
  <1>2. CASE InitRoot
    BY <1>2, RootEffect, Written DEF Bare
  <1>3. CASE Descend
    <2>1. CASE \E f \in Offered(free) : New(f)
      <3> PICK f \in Offered(free) : New(f)
        BY <2>1
      <3>1. /\ f \in Phys /\ Tables' = Tables \cup {f}
            /\ \A t \in Tables : level'[t] = level[t]
            /\ \A i \in Idx : mem'[f][i] = Empty
            /\ mem'[call.table][call.v[call.l]] = Link(f)
            /\ \A t \in Tables, i \in Idx :
                 ~(t = call.table /\ i = call.v[call.l]) => mem'[t][i] = mem[t][i]
        BY NewEffect
      <3> QED
        BY <3>1, Written DEF Bare
    <2>2. CASE UNCHANGED <<free, mem, pml4, level>>
      BY <2>2, <1>1 DEF SameTree
    <2> QED
      BY <1>3, <2>1, <2>2 DEF Descend, New, OutOfFrames
  <1>4. CASE StoreLeaf
    BY <1>1, <1>4, StoreEffect
  <1>5. ASSUME NEW v \in CallPages, UnmapPage(v)
        PROVE  Bare'
    BY <1>1, <1>5, CallsAssumption, UnmapEffect
  <1>6. CASE UNCHANGED <<free, mem, pml4, level>>
    BY <1>1, <1>6 DEF SameTree
  <1> QED
    BY <1>2, <1>3, <1>4, <1>5, <1>6 DEF Next, InitCall, InitDone, MapCall, vars

\* The processor stops in the root: the tables of vmm.c translate no page, of
\* whatever size tables and memory are and whatever has been mapped.
THEOREM ProcessorSeesNothing == Spec => []NothingTranslated
  <1>1. Init => Bare
    BY DEF Init, Bare, Tables
  <1>2. IInv /\ Bare => NothingTranslated
    <2> SUFFICES ASSUME IInv, Bare, NEW v \in VPages
                 PROVE  Translated(v) = Null
      BY DEF NothingTranslated
    <2>1. v[4] \in Idx
      BY DEF VPages
    <2>2. pml4 = Null \/ (pml4 \in Tables /\ level[pml4] = 4)
      BY DEF IInv, RootKnown, TablesAllocated
    <2>3. Follow(pml4, v[4]) = Null
      BY <2>1, <2>2 DEF Bare, Follow
    <2> QED
      BY <2>3 DEF Translated, Follow
  <1> QED
    BY <1>1, <1>2, BareStep, Invariance, PTL DEF Spec

\* So VMMInit never keeps its promise: there is usable memory, and when it
\* returns the processor finds none of it.
THEOREM IdentityNeverTranslated ==
  Spec => [][phase = "init" /\ phase' = "ready" =>
               ~ \A f \in Usable : Translated(Indices(f)) = f]_vars
  <1>1. NothingTranslated => ~ \A f \in Usable : Translated(Indices(f)) = f
    <2> SUFFICES ASSUME NothingTranslated
                 PROVE  \E f \in Usable : Translated(Indices(f)) # f
      OBVIOUS
    <2> PICK f \in Usable : TRUE
      BY FramesAssumption
    <2>1. Indices(f) \in VPages /\ f # Null
      BY UsableIsNat, IndicesTyped, NullIsNoFrame
    <2> QED
      BY <2>1 DEF NothingTranslated
  <1> QED
    BY <1>1, ProcessorSeesNothing, PTL
=============================================================================
