-------------------------- MODULE ConnectionsProofs --------------------------
(***************************************************************************)
(* Proofs about ObjectPoolMgr, for both managers and every pool size, and  *)
(* about Connections, for any number of connections, workers and objects   *)
(* and every Setting.                                                      *)
(*                                                                         *)
(*   PoolInv   the pool: _freeList and _usedList partition the objects.    *)
(*   Types     TypeOK, with the types of what is under way.                *)
(*   OpenIsHeld, Accepting   an open socket is held by an object in use.   *)
(*   SendInv   what is known of the sends under way.                       *)
(*   StayInv   what nobody uses is named by nothing under way.             *)
(*   SockInv   handles, connectors and what is under way belong together.  *)
(*   CountInv  _dwRecvRef counts the receives under way.                   *)
(*                                                                         *)
(* Together they are ConnInv, which is inductive.  The lemmas ...Sum say   *)
(* once what each action does to everything that names a connector, in     *)
(* terms of Equal, Less and More; the lemmas ...Kept use only those.       *)
(***************************************************************************)
EXTENDS Connections, TLAPS

-----------------------------------------------------------------------------
(* What the proofs use of sequences.                                       *)
LEMMA SeqElement ==
    ASSUME NEW S, NEW q \in Seq(S), NEW i \in 1..Len(q)
    PROVE  q[i] \in S
  OBVIOUS

LEMMA SeqLen ==
    ASSUME NEW S, NEW q \in Seq(S)
    PROVE  Len(q) \in Nat /\ DOMAIN q = 1..Len(q) /\ q \in [1..Len(q) -> S]
  OBVIOUS

LEMMA SeqEmpty ==
    ASSUME NEW S
    PROVE  << >> \in Seq(S) /\ Len(<< >>) = 0 /\ \A q \in Seq(S) : q # << >> => Len(q) > 0
  OBVIOUS

LEMMA SeqConcat ==
    ASSUME NEW S, NEW p \in Seq(S), NEW q \in Seq(S)
    PROVE  /\ p \o q \in Seq(S) /\ Len(p \o q) = Len(p) + Len(q)
           /\ \A i \in 1..(Len(p) + Len(q)) :
                 (p \o q)[i] = IF i <= Len(p) THEN p[i] ELSE q[i - Len(p)]
  OBVIOUS

LEMMA SeqHeadTail ==
    ASSUME NEW S, NEW q \in Seq(S), q # << >>
    PROVE  /\ Head(q) \in S /\ Tail(q) \in Seq(S) /\ Len(Tail(q)) = Len(q) - 1
           /\ \A i \in 1..Len(Tail(q)) : Tail(q)[i] = q[i + 1]
  OBVIOUS

LEMMA SeqAppend ==
    ASSUME NEW S, NEW q \in Seq(S), NEW x \in S
    PROVE  /\ Append(q, x) \in Seq(S) /\ Append(q, x) # << >> /\ Len(Append(q, x)) = Len(q) + 1
           /\ \A i \in 1..Len(q) : Append(q, x)[i] = q[i]
           /\ Append(q, x)[Len(q) + 1] = x
  OBVIOUS

-----------------------------------------------------------------------------
(* The pool: PoolInv makes the object on top of _freeList one that is not  *)
(* in use, which is what Allocator asks for.                               *)
PoolInv == PoolTypeOK /\ Partition

(* A list is a stack of distinct objects, none of them in use.             *)
FreshList(list, used) ==
    /\ \A i, j \in 1..Len(list) : list[i] = list[j] => i = j
    /\ \A i \in 1..Len(list) : list[i] \notin used

(* None of the objects up to n is missing.                                 *)
Covered(n, list, used) ==
    \A o \in 1..n : o \in used \/ \E i \in 1..Len(list) : list[i] = o

(* What is left of a list of distinct elements, without the first one.     *)
LEMMA TailFacts ==
    ASSUME NEW S, NEW list \in Seq(S), list # << >>
    PROVE  /\ Tail(list) \in Seq(S)
           /\ Head(list) \in S
           /\ Head(list) = list[1]
           /\ 1 \in 1..Len(list)
           /\ Len(Tail(list)) = Len(list) - 1
           /\ \A i \in 1..Len(Tail(list)) :
                 i + 1 \in 1..Len(list) /\ Tail(list)[i] = list[i + 1]
  BY SeqHeadTail, SeqEmpty, SeqLen

(* GetTop takes the first object of a list of distinct free objects from   *)
(* the free ones to those in use.                                          *)
LEMMA TopMoves ==
    ASSUME NEW n \in Nat, NEW list \in Seq(1..n), list # << >>,
           NEW used \in SUBSET (1..n), FreshList(list, used)
    PROVE  /\ Head(list) \in 1..n /\ Head(list) \notin used
           /\ Tail(list) \in Seq(1..n)
           /\ FreshList(Tail(list), used \cup {Head(list)})
           /\ Covered(n, list, used) => Covered(n, Tail(list), used \cup {Head(list)})
<1> DEFINE T == Tail(list)
<1>1. /\ T \in Seq(1..n) /\ Head(list) \in 1..n /\ Head(list) = list[1]
      /\ 1 \in 1..Len(list) /\ Len(T) = Len(list) - 1 /\ Len(list) \in Nat
      /\ \A i \in 1..Len(T) : i + 1 \in 1..Len(list) /\ T[i] = list[i + 1]
  BY TailFacts, SeqLen, Zenon
<1> HIDE DEF T
<1>2. Head(list) \notin used
  BY <1>1 DEF FreshList
<1>3. FreshList(T, used \cup {Head(list)})
  <2>1. ASSUME NEW i \in 1..Len(T), NEW j \in 1..Len(T), T[i] = T[j]
        PROVE  i = j
    <3>1. i + 1 \in 1..Len(list) /\ j + 1 \in 1..Len(list)
      BY <1>1, Zenon
    <3>2. list[i + 1] = list[j + 1]
      BY <1>1, <2>1, Zenon
    <3>3. i + 1 = j + 1
      BY <3>1, <3>2, Zenon DEF FreshList
    <3> QED  BY <3>3
  <2>2. ASSUME NEW i \in 1..Len(T)
        PROVE  T[i] \notin used \cup {Head(list)}
    <3>1. i + 1 # 1
      OBVIOUS
    <3>2. list[i + 1] # list[1] /\ list[i + 1] \notin used
      BY <1>1, <3>1, Zenon DEF FreshList
    <3> QED  BY <1>1, <3>2, SMTT(30)
  <2> QED  BY <2>1, <2>2, Zenon DEF FreshList
<1>4. ASSUME NEW k \in 1..Len(list), list[k] # Head(list)
      PROVE  \E i \in 1..Len(T) : T[i] = list[k]
  <2>1. k # 1
    BY <1>1, <1>4, Zenon
  <2>2. k - 1 \in 1..Len(T) /\ (k - 1) + 1 = k
    BY <1>1, <2>1
  <2>3. T[k - 1] = list[k]
    BY <1>1, <2>2, SMTT(30)
  <2> QED  BY <2>2, <2>3, Zenon
<1>5. Covered(n, list, used) => Covered(n, T, used \cup {Head(list)})
  BY <1>4, Zenon DEF Covered
<1> QED  BY <1>1, <1>2, <1>3, <1>5, Zenon DEF T

(* SetFreeObject puts an object that was in use on top.                    *)
LEMMA TopReturns ==
    ASSUME NEW n \in Nat, NEW list \in Seq(1..n), NEW used \in SUBSET (1..n),
           FreshList(list, used), NEW o \in used
    PROVE  LET L == <<o>> \o list IN
           /\ L \in Seq(1..n)
           /\ FreshList(L, used \ {o})
           /\ Covered(n, list, used) => Covered(n, L, used \ {o})
<1> DEFINE L == <<o>> \o list
<1>1. /\ <<o>> \in Seq(1..n) /\ Len(<<o>>) = 1 /\ Len(list) \in Nat
  BY SeqLen
<1>2. /\ L \in Seq(1..n) /\ Len(L) = Len(list) + 1
      /\ L[1] = o
      /\ \A i \in 2..Len(L) : i - 1 \in 1..Len(list) /\ L[i] = list[i - 1]
      /\ \A k \in 1..Len(list) : k + 1 \in 1..Len(L) /\ L[k + 1] = list[k]
  BY <1>1, SeqConcat
<1> HIDE DEF L
<1>3. ASSUME NEW i \in 2..Len(L)
      PROVE  L[i] \notin used /\ L[i] # o
  <2>1. i - 1 \in 1..Len(list) /\ L[i] = list[i - 1]
    BY <1>2, Zenon
  <2>2. list[i - 1] \notin used
    BY <2>1, Zenon DEF FreshList
  <2> QED  BY <2>1, <2>2, Zenon
<1>4. ASSUME NEW i \in 1..Len(L), NEW j \in 1..Len(L), L[i] = L[j]
      PROVE  i = j
  <2>1. CASE i = 1 \/ j = 1
    BY <2>1, <1>1, <1>2, <1>3, <1>4
  <2>2. CASE i # 1 /\ j # 1
    <3>1. i \in 2..Len(L) /\ j \in 2..Len(L)
      BY <2>2, <1>1, <1>2
    <3>2. i - 1 \in 1..Len(list) /\ j - 1 \in 1..Len(list) /\ list[i - 1] = list[j - 1]
      BY <3>1, <1>2, <1>4, Zenon
    <3>3. i - 1 = j - 1
      BY <3>2, Zenon DEF FreshList
    <3> QED  BY <3>1, <3>3
  <2> QED  BY <2>1, <2>2, Zenon
<1>5. FreshList(L, used \ {o})
  <2>1. ASSUME NEW i \in 1..Len(L)
        PROVE  L[i] \notin used \ {o}
    <3>1. i = 1 \/ i \in 2..Len(L)
      OBVIOUS
    <3> QED  BY <3>1, <1>2, <1>3, Zenon
  <2> QED  BY <1>4, <2>1, Zenon DEF FreshList
<1>6. 1 \in 1..Len(L)
  BY <1>1, <1>2
<1>7. Covered(n, list, used) => Covered(n, L, used \ {o})
  BY <1>2, <1>6, Zenon DEF Covered
<1> QED  BY <1>2, <1>5, <1>7, Zenon DEF L

-----------------------------------------------------------------------------
(* The objects of AddAlloc are new: each one once, beyond those there.     *)
LEMMA AllocatedFresh ==
    ASSUME PoolTypeOK
    PROVE  /\ poolCount + addCount \in Nat
           /\ Allocated \in Seq(1..(poolCount + addCount)) /\ Allocated # << >>
           /\ FreshList(Allocated, usedList)
           /\ usedList \in SUBSET (1..(poolCount + addCount))
           /\ (1..poolCount \subseteq usedList) =>
                 Covered(poolCount + addCount, Allocated, usedList)
<1>1. poolCount \in Nat /\ addCount \in Nat \ {0} /\ usedList \in SUBSET (1..poolCount)
  BY PoolAssumption DEF PoolTypeOK, Object
<1>2. \A i \in 1..addCount : poolCount + i \in 1..(poolCount + addCount)
  BY <1>1
<1>3. Allocated \in Seq(1..(poolCount + addCount)) /\ Len(Allocated) = addCount
  BY <1>1, <1>2 DEF Allocated
<1>4. \A i \in 1..addCount : Allocated[i] = poolCount + i
  BY Zenon DEF Allocated
<1>5. FreshList(Allocated, usedList)
  BY <1>1, <1>3, <1>4 DEF FreshList
<1>6. ASSUME NEW o \in 1..(poolCount + addCount), o \notin 1..poolCount
      PROVE  \E i \in 1..Len(Allocated) : Allocated[i] = o
  <2>1. o - poolCount \in 1..addCount /\ poolCount + (o - poolCount) = o
    BY <1>1, <1>6
  <2> QED  BY <2>1, <1>3, <1>4, Zenon
<1>7. Allocated # << >>
  BY <1>1, <1>3, SeqEmpty, Zenon
<1>8. usedList \in SUBSET (1..(poolCount + addCount)) /\ poolCount + addCount \in Nat
  BY <1>1
<1>9. (1..poolCount \subseteq usedList) => Covered(poolCount + addCount, Allocated, usedList)
  BY <1>6, Zenon DEF Covered
<1> QED  BY <1>3, <1>5, <1>7, <1>8, <1>9, Zenon

-----------------------------------------------------------------------------
(* Partition says that _freeList is a list of distinct objects that are    *)
(* not in use, and that nothing is missing.                                *)
LEMMA InvAsFresh ==
    PoolInv <=> /\ PoolTypeOK
            /\ FreshList(freeList, usedList)
            /\ Covered(poolCount, freeList, usedList)
  BY Zenon DEF PoolInv, Partition, FreshList, Covered, Object

LEMMA PoolInitInv == PoolInit => PoolInv
<1> SUFFICES ASSUME PoolInit PROVE PoolInv
  BY Zenon
<1>1. /\ checked \in BOOLEAN
      /\ poolCount \in 0..MaxPool /\ addCount \in Nat \ {0} /\ poolCount \in Nat
  BY PoolAssumption DEF PoolInit
<1>2. freeList \in Seq(1..poolCount) /\ Len(freeList) = poolCount
  BY <1>1 DEF PoolInit
<1>3. \A i \in 1..poolCount : freeList[i] = i
  BY Zenon DEF PoolInit
<1>4. ret \in (0..poolCount) \X {0, 1} /\ usedList = {}
  BY <1>1 DEF PoolInit
<1>5. PoolTypeOK
  BY <1>1, <1>2, <1>4, Zenon DEF PoolTypeOK, Object
<1>6. Partition
  BY <1>2, <1>3, <1>4, Zenon DEF Partition, Object
<1> QED  BY <1>5, <1>6, Zenon DEF PoolInv

(* Every step keeps the partition: GetFreeObject from the list or from new *)
(* objects, SetFreeObject of an object in use or of one given back.        *)
LEMMA PoolNextInv == PoolInv /\ [PoolNext]_poolVars => PoolInv'
<1> SUFFICES ASSUME PoolInv, [PoolNext]_poolVars PROVE PoolInv'
  BY Zenon
<1>1. /\ PoolTypeOK /\ FreshList(freeList, usedList)
      /\ Covered(poolCount, freeList, usedList)
  BY InvAsFresh, Zenon
<1>2. /\ checked \in BOOLEAN
      /\ poolCount \in Nat /\ poolCount \in 0..MaxPool /\ addCount \in Nat \ {0}
      /\ freeList \in Seq(1..poolCount) /\ usedList \in SUBSET (1..poolCount)
      /\ ret \in (0..poolCount) \X {0, 1}
  BY <1>1, PoolAssumption DEF PoolTypeOK, Object
<1>3. ASSUME freeList # << >>, GetTop(freeList), UNCHANGED <<checked, poolCount, addCount>>
      PROVE  PoolInv'
  <2>1. /\ Head(freeList) \in 1..poolCount
        /\ Tail(freeList) \in Seq(1..poolCount)
        /\ FreshList(Tail(freeList), usedList \cup {Head(freeList)})
        /\ Covered(poolCount, Tail(freeList), usedList \cup {Head(freeList)})
    BY <1>1, <1>2, <1>3, TopMoves, Zenon
  <2>2. ret' \in (0..poolCount) \X {0, 1}
    BY <1>2, <1>3, <2>1 DEF GetTop
  <2>3. usedList \cup {Head(freeList)} \in SUBSET (1..poolCount)
    BY <1>2, <2>1, Zenon
  <2> QED  BY <1>2, <1>3, <2>1, <2>2, <2>3, Zenon DEF GetTop, PoolInv, PoolTypeOK, Object, Partition, FreshList, Covered
<1>4. ASSUME freeList = << >>, poolCount + addCount <= MaxPool, GetTop(Allocated),
             poolCount' = poolCount + addCount, addCount' = NextAdd, UNCHANGED checked
      PROVE  PoolInv'
  <2>0. 1..poolCount \subseteq usedList
    BY <1>1, <1>4 DEF Covered
  <2> DEFINE n == poolCount + addCount
             A == Allocated
  <2>1. /\ n \in Nat /\ A \in Seq(1..n) /\ A # << >> /\ FreshList(A, usedList)
        /\ usedList \in SUBSET (1..n) /\ Covered(n, A, usedList)
        /\ poolCount' = n /\ freeList' = Tail(A) /\ usedList' = usedList \cup {Head(A)}
        /\ ret' = <<Head(A), 1 - ret[2]>>
    BY <1>1, <1>4, <2>0, AllocatedFresh, Zenon DEF GetTop
  <2> HIDE DEF n, A
  <2>2. /\ Head(A) \in 1..n /\ Tail(A) \in Seq(1..n)
        /\ FreshList(Tail(A), usedList \cup {Head(A)})
        /\ Covered(n, Tail(A), usedList \cup {Head(A)})
    BY <2>1, TopMoves, Zenon
  <2>3. /\ poolCount' \in 0..MaxPool /\ poolCount' \in Nat
        /\ addCount' \in Nat \ {0} /\ checked' \in BOOLEAN
    BY <1>2, <1>4, PoolAssumption DEF NextAdd
  <2>4. ret' \in (0..poolCount') \X {0, 1}
    BY <1>2, <2>1, <2>2
  <2>5. PoolTypeOK'
    BY <2>1, <2>2, <2>3, <2>4, Zenon DEF PoolTypeOK, Object
  <2>6. Partition'
    BY <2>1, <2>2, Zenon DEF Partition, Object, FreshList, Covered
  <2> QED  BY <2>5, <2>6, Zenon DEF PoolInv
<1>5. ASSUME NEW o \in Object, SetFreeObject(o)
      PROVE  PoolInv'
  <2>1. CASE o \in usedList
    <3>1. /\ freeList' = <<o>> \o freeList /\ usedList' = usedList \ {o}
          /\ UNCHANGED <<checked, poolCount, addCount, ret>>
      BY <1>5, <2>1, Zenon DEF SetFreeObject
    <3> DEFINE L == <<o>> \o freeList
    <3>2. /\ L \in Seq(1..poolCount)
          /\ FreshList(L, usedList \ {o}) /\ Covered(poolCount, L, usedList \ {o})
      BY <1>1, <1>2, <2>1, TopReturns, Zenon
    <3>3. freeList' = L
      BY <3>1, Zenon
    <3> HIDE DEF L
    <3> QED  BY <1>2, <3>1, <3>2, <3>3, SMTT(30) DEF PoolInv, PoolTypeOK, Object, Partition, FreshList, Covered
  <2>2. CASE o \notin usedList
    BY <1>5, <2>2, Zenon DEF SetFreeObject, PoolInv, PoolTypeOK, Object, Partition
  <2> QED  BY <2>1, <2>2, Zenon
<1>6. CASE UNCHANGED poolVars
  BY <1>6, Zenon DEF poolVars, PoolInv, PoolTypeOK, Object, Partition
<1> QED  BY <1>3, <1>4, <1>5, <1>6, Zenon DEF PoolNext, GetFreeObject

(* PoolTypeOK of both managers, for every pool size.                       *)
THEOREM TypeCorrect == PoolSpec => []PoolTypeOK
<1>1. PoolInv => PoolTypeOK
  BY Zenon DEF PoolInv
<1> QED  BY PoolInitInv, PoolNextInv, <1>1, PTL DEF PoolSpec

(* Partition: no object is lost and none is free twice or free while in    *)
(* use, whatever order the callers of GetFreeObject and SetFreeObject take.*)
THEOREM Partitioned == PoolSpec => []Partition
<1>1. PoolInv => Partition
  BY Zenon DEF PoolInv
<1> QED  BY PoolInitInv, PoolNextInv, <1>1, PTL DEF PoolSpec

-----------------------------------------------------------------------------
(* A GetFreeObject is a Get of an object nobody has; a SetFreeObject is a  *)
(* Free, or a stutter when the object had been given back.                 *)
LEMMA StepPromise == PoolInv /\ PoolInv' /\ [PoolNext]_poolVars => [Promise!Next]_(Promise!vars)
<1> SUFFICES ASSUME PoolInv, PoolInv', [PoolNext]_poolVars PROVE [Promise!Next]_(Promise!vars)
  BY Zenon
<1>1. /\ PoolTypeOK /\ FreshList(freeList, usedList)
  BY InvAsFresh, Zenon
<1>2. /\ poolCount \in Nat /\ poolCount \in 0..MaxPool
      /\ freeList \in Seq(1..poolCount) /\ usedList \in SUBSET (1..poolCount)
  BY <1>1, PoolAssumption DEF PoolTypeOK, Object
<1>3. ASSUME NEW list, Head(list) \in 1..MaxPool, Head(list) \notin usedList, GetTop(list)
      PROVE  Promise!Next
  BY <1>3, Zenon DEF GetTop, Promise!Next, Promise!Get
<1>4. ASSUME freeList # << >>, GetTop(freeList)
      PROVE  Promise!Next
  <2>1. Head(freeList) \in 1..poolCount /\ Head(freeList) \notin usedList
    BY <1>1, <1>2, <1>4, TopMoves, Zenon
  <2>2. Head(freeList) \in 1..MaxPool
    BY <1>2, <2>1, PoolAssumption
  <2> QED  BY <1>3, <1>4, <2>1, <2>2, Zenon
<1>5. ASSUME poolCount + addCount <= MaxPool, GetTop(Allocated)
      PROVE  Promise!Next
  <2>1. Head(Allocated) \in 1..(poolCount + addCount) /\ Head(Allocated) \notin usedList
    <3> HIDE DEF Allocated
    <3> QED  BY <1>1, AllocatedFresh, TopMoves, Zenon
  <2>2. Head(Allocated) \in 1..MaxPool
    <3> HIDE DEF Allocated
    <3> QED  BY <1>1, <1>5, <2>1, AllocatedFresh, PoolAssumption
  <2> QED  BY <1>3, <1>5, <2>1, <2>2, Zenon
<1>6. ASSUME NEW o \in Object, SetFreeObject(o)
      PROVE  Promise!Next \/ UNCHANGED Promise!vars
  <2>1. o \in 1..MaxPool
    BY <1>2, PoolAssumption DEF Object
  <2> QED  BY <1>6, <2>1, Zenon DEF SetFreeObject, Promise!Next, Promise!Free, Promise!vars
<1>7. CASE UNCHANGED poolVars
  BY <1>7, Zenon DEF poolVars, Promise!vars
<1> QED  BY <1>4, <1>5, <1>6, <1>7, Zenon DEF PoolNext, GetFreeObject

(* Both managers implement Allocator, so a Connector or a UserSession that *)
(* GetFreeObject returns is one that no other caller has.                  *)
THEOREM KeepsPromise == PoolSpec => IsAllocator
<1>1. PoolInit => Promise!Init
  BY Zenon DEF PoolInit, Promise!Init
<1> QED  BY PoolInitInv, PoolNextInv, StepPromise, <1>1, PTL DEF PoolSpec, IsAllocator, Promise!Spec

-----------------------------------------------------------------------------
LEMMA NoneIsNoHandle == None \notin Handle
  BY DEF None, Handle

LEMMA UsedIsSlot == PoolInv => usedList \in SUBSET Slot
<1> SUFFICES ASSUME PoolInv PROVE usedList \in SUBSET Slot
  BY Zenon
<1>1. poolCount \in 0..MaxPool /\ usedList \in SUBSET (1..poolCount) /\ MaxPool \in Nat
  BY PoolAssumption, Zenon DEF PoolInv, PoolTypeOK, Object
<1>2. 1..poolCount \subseteq 1..MaxPool
  BY <1>1
<1> QED  BY <1>1, <1>2, Zenon DEF Slot

(* What GetFreeObject returns was not in use: Allocator's promise.  (Only  *)
(* GetFreeObject changes the bit of ret.)                                  *)
LEMMA GotFresh ==
    ASSUME PoolInv, GetFreeObject
    PROVE  /\ PoolInv' /\ [PoolNext]_poolVars /\ checked' = checked
           /\ ret'[1] \in Slot /\ ret'[1] \notin usedList
           /\ usedList' = usedList \cup {ret'[1]}
<1>1. PoolNext
  BY Zenon DEF PoolNext
<1>2. PoolInv'
  BY <1>1, PoolNextInv, Zenon
<1>3. [Promise!Next]_(Promise!vars)
  BY <1>1, <1>2, StepPromise, Zenon
<1>4. ret' # ret /\ checked' = checked
  <2>1. \E x : ret' = <<x, 1 - ret[2]>>
    BY Zenon DEF GetFreeObject, GetTop
  <2>2. ret[2] \in {0, 1}
    BY Zenon DEF PoolInv, PoolTypeOK
  <2>3. 1 - ret[2] # ret[2]
    BY <2>2
  <2>4. ret'[2] # ret[2]
    BY <2>1, <2>3
  <2> QED  BY <2>4, Zenon DEF GetFreeObject
<1>5. PICK o \in 1..MaxPool : Promise!Get(o)
  BY <1>3, <1>4, Zenon DEF Promise!Next, Promise!vars, Promise!Free
<1>6. o \notin usedList /\ usedList' = usedList \cup {o} /\ ret'[1] = o
  BY <1>5, Zenon DEF Promise!Get
<1> QED  BY <1>1, <1>2, <1>4, <1>6, Zenon DEF Slot

-----------------------------------------------------------------------------
(* The values of net.                                                      *)
Rec == [socket  : [Slot -> Handle \cup {None}],
        sendRef : [Slot -> 0..RefSize - 1],
        recvRef : [Slot -> 0..RefSize - 1],
        param   : [Slot -> BOOLEAN],
        buffer  : [Slot -> BOOLEAN],
        queued  : SUBSET Slot,
        os      : [Handle -> Conn \cup {None}],
        pending : SUBSET Operation,
        port    : Seq(Completion),
        last    : 0..MaxConns,
        foreign : BOOLEAN,
        late    : BOOLEAN]

-----------------------------------------------------------------------------
(* Everything that names a connector: the operations p under way, the      *)
(* completions q in the port, and those k the workers are in the middle of. *)
At(e, c, op) == e.obj = c /\ e.op = op
Is(e, c, op, n) == e.obj = c /\ e.op = op /\ e.conn = n

Named(x, c, op, n) ==
    \/ \E o \in x[1] : Is(o, c, op, n)
    \/ \E i \in DOMAIN x[2] : Is(x[2][i], c, op, n)
    \/ \E w \in Worker : x[3][w] # NoCompletion /\ Is(x[3][w], c, op, n)

Sole(x, c, op) ==
    /\ \A o1, o2 \in x[1] : At(o1, c, op) /\ At(o2, c, op) => o1 = o2
    /\ \A i, j \in DOMAIN x[2] : At(x[2][i], c, op) /\ At(x[2][j], c, op) => i = j
    /\ \A v, w \in Worker : (/\ x[3][v] # NoCompletion /\ At(x[3][v], c, op)
                             /\ x[3][w] # NoCompletion /\ At(x[3][w], c, op)) => v = w
    /\ \A o \in x[1], i \in DOMAIN x[2] : ~(At(o, c, op) /\ At(x[2][i], c, op))
    /\ \A o \in x[1], w \in Worker : ~(At(o, c, op) /\ x[3][w] # NoCompletion /\ At(x[3][w], c, op))
    /\ \A i \in DOMAIN x[2], w \in Worker :
          ~(At(x[2][i], c, op) /\ x[3][w] # NoCompletion /\ At(x[3][w], c, op))

Ways(s, k) == <<s.pending, s.port, k>>

(* From x to y: nothing is lost or doubled; one that is <<c, op, n>> is    *)
(* over; one is new.                                                       *)
Equal(x, y) ==
    \A c, op : /\ \A n : Named(y, c, op, n) <=> Named(x, c, op, n)
               /\ Sole(x, c, op) => Sole(y, c, op)
Less(x, y, c, op, n) ==
    /\ \A d, o, m : Named(y, d, o, m) => Named(x, d, o, m)
    /\ \A d, o, m : Named(x, d, o, m) => Named(y, d, o, m) \/ (d = c /\ o = op /\ m = n)
    /\ \A d, o : Sole(x, d, o) => Sole(y, d, o)
    /\ Sole(x, c, op) => \A m : ~Named(y, c, op, m)
    /\ Named(x, c, op, n)
More(x, y, c, op, n) ==
    /\ \A d, o, m : Named(y, d, o, m) <=> Named(x, d, o, m) \/ (d = c /\ o = op /\ m = n)
    /\ \A d, o : Sole(x, d, o) /\ (d # c \/ o # op) => Sole(y, d, o)
    /\ (\A m : ~Named(x, c, op, m)) => Sole(y, c, op)

LEMMA EqualTrans ==
    ASSUME NEW x, NEW y, NEW z, NEW c, NEW op, NEW n, Equal(x, y)
    PROVE  /\ Equal(y, z) => Equal(x, z)
           /\ Less(y, z, c, op, n) => Less(x, z, c, op, n)
           /\ More(y, z, c, op, n) => More(x, z, c, op, n)
  BY Zenon DEF Equal, Less, More

LEMMA TransEqual ==
    ASSUME NEW x, NEW y, NEW z, NEW c, NEW op, NEW n, Equal(y, z)
    PROVE  /\ Less(x, y, c, op, n) => Less(x, z, c, op, n)
           /\ More(x, y, c, op, n) => More(x, z, c, op, n)
  BY Zenon DEF Equal, Less, More

-----------------------------------------------------------------------------
(* What the elementary changes do.                                         *)

LEMMA PopLess ==
    ASSUME NEW p, NEW S, NEW q \in Seq(S), q # << >>, NEW k
    PROVE  Less(<<p, q, k>>, <<p, Tail(q), k>>, Head(q).obj, Head(q).op, Head(q).conn)
<1> DEFINE t == Tail(q)
           x == <<p, q, k>>
           y == <<p, t, k>>
<1>1. /\ Len(q) \in Nat /\ Len(q) > 0 /\ DOMAIN q = 1..Len(q) /\ DOMAIN t = 1..(Len(q) - 1)
      /\ \A i \in DOMAIN t : t[i] = q[i + 1]
      /\ Head(q) = q[1]
  BY SeqHeadTail, SeqLen
<1>2. /\ 1 \in DOMAIN q
      /\ \A i \in DOMAIN t : i + 1 \in DOMAIN q /\ t[i] = q[i + 1] /\ i + 1 # 1
      /\ \A i, j \in DOMAIN t : i + 1 = j + 1 => i = j
      /\ \A i \in DOMAIN q : i = 1 \/ \E j \in DOMAIN t : i = j + 1
  <2>1. ASSUME NEW i \in DOMAIN q, i # 1 PROVE \E j \in DOMAIN t : i = j + 1
    <3>1. i - 1 \in DOMAIN t /\ i = (i - 1) + 1
      BY <1>1, <2>1
    <3> QED  BY <3>1, Zenon
  <2> QED  BY <1>1, <2>1
<1>3. x[1] = p /\ x[2] = q /\ x[3] = k /\ y[1] = p /\ y[2] = t /\ y[3] = k
  BY Zenon
<1> HIDE DEF t, x, y
<1>4. \A d, o, m : Named(y, d, o, m) => Named(x, d, o, m)
  BY <1>2, <1>3, Zenon DEF Named
<1>5. \A d, o, m : Named(x, d, o, m) => Named(y, d, o, m) \/ Is(Head(q), d, o, m)
  BY <1>1, <1>2, <1>3 DEF Named
<1>6. \A d, o : Sole(x, d, o) => Sole(y, d, o)
  BY <1>2, <1>3 DEF Sole
<1>7. ASSUME Sole(x, Head(q).obj, Head(q).op), NEW m, Named(y, Head(q).obj, Head(q).op, m)
      PROVE  FALSE
  BY <1>1, <1>2, <1>3, <1>7, SMTT(30) DEF Sole, Named, At, Is
<1>8. Named(x, Head(q).obj, Head(q).op, Head(q).conn)
  BY <1>1, <1>2, <1>3, Zenon DEF Named, Is
<1>9. Less(x, y, Head(q).obj, Head(q).op, Head(q).conn)
  BY <1>4, <1>5, <1>6, <1>7, <1>8, Zenon DEF Less, Is
<1> QED  BY <1>9, Zenon DEF x, y, t

LEMMA AppendMore ==
    ASSUME NEW p, NEW S, NEW q \in Seq(S), NEW e \in S, NEW k
    PROVE  More(<<p, q, k>>, <<p, Append(q, e), k>>, e.obj, e.op, e.conn)
<1> DEFINE t == Append(q, e)
           l == Len(q) + 1
           x == <<p, q, k>>
           y == <<p, t, k>>
<1>1. /\ Len(q) \in Nat /\ DOMAIN q = 1..Len(q) /\ DOMAIN t = 1..(Len(q) + 1)
      /\ \A i \in DOMAIN q : t[i] = q[i]
      /\ t[l] = e
  BY SeqAppend, SeqLen
<1>2. /\ l \in DOMAIN t /\ l \notin DOMAIN q
      /\ \A i \in DOMAIN q : i \in DOMAIN t
      /\ \A i \in DOMAIN t : i = l \/ i \in DOMAIN q
  BY <1>1
<1>3. x[1] = p /\ x[2] = q /\ x[3] = k /\ y[1] = p /\ y[2] = t /\ y[3] = k
  BY Zenon
<1> HIDE DEF t, x, y, l
<1>4. \A d, o, m : Named(y, d, o, m) <=> Named(x, d, o, m) \/ Is(e, d, o, m)
  BY <1>1, <1>2, <1>3 DEF Named
<1>5. \A d, o : Sole(x, d, o) /\ ~At(e, d, o) => Sole(y, d, o)
  BY <1>1, <1>2, <1>3 DEF Sole
<1>6. ASSUME \A m : ~Named(x, e.obj, e.op, m)
      PROVE  Sole(y, e.obj, e.op)
  <2>1. /\ \A o \in p : ~At(o, e.obj, e.op)
        /\ \A i \in DOMAIN q : ~At(q[i], e.obj, e.op)
        /\ \A w \in Worker : k[w] # NoCompletion => ~At(k[w], e.obj, e.op)
    BY <1>3, <1>6, Zenon DEF Named, At, Is
  <2> QED  BY <1>1, <1>2, <1>3, <2>1 DEF Sole
<1>7. More(x, y, e.obj, e.op, e.conn)
  BY <1>4, <1>5, <1>6, Zenon DEF More, Is, At
<1> QED  BY <1>7, Zenon DEF x, y, t

LEMMA StartMore ==
    ASSUME NEW p, NEW q, NEW k, NEW o
    PROVE  More(<<p, q, k>>, <<p \cup {o}, q, k>>, o.obj, o.op, o.conn)
<1> DEFINE x == <<p, q, k>>
           y == <<p \cup {o}, q, k>>
<1>1. x[1] = p /\ x[2] = q /\ x[3] = k /\ y[1] = p \cup {o} /\ y[2] = q /\ y[3] = k
  BY Zenon
<1> HIDE DEF x, y
<1>2. \A d, a, m : Named(y, d, a, m) <=> Named(x, d, a, m) \/ Is(o, d, a, m)
  BY <1>1 DEF Named
<1>3. \A d, a : Sole(x, d, a) /\ ~At(o, d, a) => Sole(y, d, a)
  BY <1>1 DEF Sole
<1>4. ASSUME \A m : ~Named(x, o.obj, o.op, m)
      PROVE  Sole(y, o.obj, o.op)
  <2>1. /\ \A a \in p : ~At(a, o.obj, o.op)
        /\ \A i \in DOMAIN q : ~At(q[i], o.obj, o.op)
        /\ \A w \in Worker : k[w] # NoCompletion => ~At(k[w], o.obj, o.op)
    BY <1>1, <1>4, Zenon DEF Named, At, Is
  <2> QED  BY <1>1, <2>1, Zenon DEF Sole
<1>5. More(x, y, o.obj, o.op, o.conn)
  BY <1>2, <1>3, <1>4, Zenon DEF More, Is, At
<1> QED  BY <1>5, Zenon DEF x, y

LEMMA TakeEqual ==
    ASSUME NEW p, NEW S, NEW q \in Seq(S), q # << >>, NEW T, NEW k \in [Worker -> T],
           NEW w \in Worker, k[w] = NoCompletion, Head(q) # NoCompletion
    PROVE  Equal(<<p, q, k>>, <<p, Tail(q), [k EXCEPT ![w] = Head(q)]>>)
<1> DEFINE t == Tail(q)
           l == [k EXCEPT ![w] = Head(q)]
           x == <<p, q, k>>
           y == <<p, t, l>>
<1>1. /\ Len(q) \in Nat /\ Len(q) > 0 /\ DOMAIN q = 1..Len(q) /\ DOMAIN t = 1..(Len(q) - 1)
      /\ \A i \in DOMAIN t : t[i] = q[i + 1]
      /\ Head(q) = q[1]
  BY SeqHeadTail, SeqLen
<1>2. /\ 1 \in DOMAIN q
      /\ \A i \in DOMAIN t : i + 1 \in DOMAIN q /\ t[i] = q[i + 1] /\ i + 1 # 1
      /\ \A i, j \in DOMAIN t : i + 1 = j + 1 => i = j
      /\ \A i \in DOMAIN q : i = 1 \/ \E j \in DOMAIN t : i = j + 1
  <2>1. ASSUME NEW i \in DOMAIN q, i # 1 PROVE \E j \in DOMAIN t : i = j + 1
    <3>1. i - 1 \in DOMAIN t /\ i = (i - 1) + 1
      BY <1>1, <2>1
    <3> QED  BY <3>1, Zenon
  <2> QED  BY <1>1, <2>1
<1>3. x[1] = p /\ x[2] = q /\ x[3] = k /\ y[1] = p /\ y[2] = t /\ y[3] = l
  BY Zenon
<1>4. l[w] = q[1] /\ q[1] # NoCompletion /\ \A v \in Worker : v # w => l[v] = k[v]
  BY <1>1, Zenon
<1> HIDE DEF t, x, y, l
<1>5. \A c, o, n : Named(y, c, o, n) <=> Named(x, c, o, n)
  BY <1>2, <1>3, <1>4 DEF Named
<1>6. \A c, o : Sole(x, c, o) => Sole(y, c, o)
  <2> SUFFICES ASSUME NEW c, NEW o, Sole(x, c, o) PROVE Sole(y, c, o)
    BY Zenon
  <2>1. \A i, j \in DOMAIN t : At(t[i], c, o) /\ At(t[j], c, o) => i = j
    BY <1>2, <1>3 DEF Sole
  <2>2. \A u, v \in Worker : (/\ l[v] # NoCompletion /\ At(l[v], c, o)
                              /\ l[u] # NoCompletion /\ At(l[u], c, o)) => v = u
    BY <1>2, <1>3, <1>4 DEF Sole
  <2>3. \A i \in DOMAIN t, v \in Worker : ~(At(t[i], c, o) /\ l[v] # NoCompletion /\ At(l[v], c, o))
    BY <1>2, <1>3, <1>4 DEF Sole
  <2>4. \A a \in p, v \in Worker : ~(At(a, c, o) /\ l[v] # NoCompletion /\ At(l[v], c, o))
    BY <1>2, <1>3, <1>4 DEF Sole
  <2>5. \A a \in p, i \in DOMAIN t : ~(At(a, c, o) /\ At(t[i], c, o))
    BY <1>2, <1>3 DEF Sole
  <2>6. \A a, b \in p : At(a, c, o) /\ At(b, c, o) => a = b
    BY <1>3, Zenon DEF Sole
  <2> QED  BY <1>3, <2>1, <2>2, <2>3, <2>4, <2>5, <2>6, Zenon DEF Sole
<1>7. Equal(x, y)
  BY <1>5, <1>6, Zenon DEF Equal
<1> QED  BY <1>7, Zenon DEF x, y, t, l

LEMMA DropLess ==
    ASSUME NEW p, NEW q, NEW T, NEW k \in [Worker -> T], NEW w \in Worker, k[w] # NoCompletion
    PROVE  Less(<<p, q, k>>, <<p, q, [k EXCEPT ![w] = NoCompletion]>>, k[w].obj, k[w].op, k[w].conn)
<1> DEFINE l == [k EXCEPT ![w] = NoCompletion]
           x == <<p, q, k>>
           y == <<p, q, l>>
<1>1. x[1] = p /\ x[2] = q /\ x[3] = k /\ y[1] = p /\ y[2] = q /\ y[3] = l
  BY Zenon
<1>2. l[w] = NoCompletion /\ \A v \in Worker : v # w => l[v] = k[v]
  BY Zenon
<1> HIDE DEF x, y, l
<1>3. \A d, o, m : Named(y, d, o, m) => Named(x, d, o, m)
  BY <1>1, <1>2, Zenon DEF Named
<1>4. \A d, o, m : Named(x, d, o, m) => Named(y, d, o, m) \/ Is(k[w], d, o, m)
  BY <1>1, <1>2, Zenon DEF Named
<1>5. \A d, o : Sole(x, d, o) => Sole(y, d, o)
  BY <1>1, <1>2 DEF Sole
<1>6. ASSUME Sole(x, k[w].obj, k[w].op), NEW m, Named(y, k[w].obj, k[w].op, m)
      PROVE  FALSE
  BY <1>1, <1>2, <1>6 DEF Sole, Named, At, Is
<1>7. Named(x, k[w].obj, k[w].op, k[w].conn)
  BY <1>1, Zenon DEF Named, Is
<1>8. Less(x, y, k[w].obj, k[w].op, k[w].conn)
  BY <1>3, <1>4, <1>5, <1>6, <1>7, Zenon DEF Less, Is
<1> QED  BY <1>8, Zenon DEF x, y, l

(* Operations cut are over: each is in the port, once.                     *)
LEMMA CutEqual ==
    ASSUME NEW p, NEW S, NEW q \in Seq(S), NEW f \in Seq(S), NEW k, NEW cut \in SUBSET p,
           \A o \in cut : \E i \in DOMAIN f : f[i].obj = o.obj /\ f[i].op = o.op /\ f[i].conn = o.conn,
           \A i \in DOMAIN f : \E o \in cut : f[i].obj = o.obj /\ f[i].op = o.op /\ f[i].conn = o.conn,
           \A i, j \in DOMAIN f, o \in cut :
              (/\ f[i].obj = o.obj /\ f[i].op = o.op /\ f[i].conn = o.conn
               /\ f[j].obj = o.obj /\ f[j].op = o.op /\ f[j].conn = o.conn) => i = j
    PROVE  Equal(<<p, q, k>>, <<p \ cut, q \o f, k>>)
<1> DEFINE t == q \o f
           x == <<p, q, k>>
           y == <<p \ cut, t, k>>
           s(i) == Len(q) + i
<1>1. /\ Len(q) \in Nat /\ DOMAIN q = 1..Len(q) /\ Len(f) \in Nat /\ DOMAIN f = 1..Len(f)
      /\ t \in Seq(S) /\ Len(t) = Len(q) + Len(f) /\ DOMAIN t = 1..(Len(q) + Len(f))
      /\ \A i \in 1..Len(t) : t[i] = IF i <= Len(q) THEN q[i] ELSE f[i - Len(q)]
  BY SeqConcat, SeqLen
<1>2. /\ \A i \in DOMAIN q : i \in DOMAIN t /\ t[i] = q[i]
      /\ \A i \in DOMAIN f : s(i) \in DOMAIN t /\ t[s(i)] = f[i] /\ s(i) \notin DOMAIN q
      /\ \A i \in DOMAIN t : i \in DOMAIN q \/ \E j \in DOMAIN f : i = s(j)
  <2>1. ASSUME NEW i \in DOMAIN t, i \notin DOMAIN q PROVE \E j \in DOMAIN f : i = s(j)
    <3>1. i - Len(q) \in DOMAIN f /\ i = s(i - Len(q))
      BY <1>1, <2>1
    <3> QED  BY <3>1, Zenon
  <2>2. ASSUME NEW i \in DOMAIN f
        PROVE  s(i) \in DOMAIN t /\ t[s(i)] = f[i] /\ s(i) \notin DOMAIN q
    <3>1. s(i) \in 1..Len(t) /\ ~(s(i) <= Len(q)) /\ s(i) - Len(q) = i
      BY <1>1
    <3> QED  BY <1>1, <3>1
  <2> QED  BY <1>1, <2>1, <2>2
<1>3. x[1] = p /\ x[2] = q /\ x[3] = k /\ y[1] = p \ cut /\ y[2] = t /\ y[3] = k
  BY Zenon
<1> HIDE DEF t, x, y, s
<1>4. ASSUME NEW c, NEW o, NEW n
      PROVE  Named(y, c, o, n) <=> Named(x, c, o, n)
  <2>1. ASSUME NEW i \in DOMAIN t, Is(t[i], c, o, n) PROVE Named(x, c, o, n)
    <3>1. CASE i \in DOMAIN q
      BY <1>2, <1>3, <2>1, <3>1, Zenon DEF Named
    <3>2. ASSUME NEW j \in DOMAIN f, i = s(j) PROVE Named(x, c, o, n)
      <4>1. PICK a \in cut : f[j].obj = a.obj /\ f[j].op = a.op /\ f[j].conn = a.conn
        BY Zenon
      <4>2. a \in p /\ Is(a, c, o, n)
        BY <1>2, <2>1, <3>2, <4>1, Zenon DEF Is
      <4> QED  BY <1>3, <4>2, Zenon DEF Named
    <3> QED  BY <1>2, <3>1, <3>2, Zenon
  <2>2. ASSUME NEW a \in p, Is(a, c, o, n) PROVE Named(y, c, o, n)
    <3>1. CASE a \in cut
      <4>1. PICK i \in DOMAIN f : f[i].obj = a.obj /\ f[i].op = a.op /\ f[i].conn = a.conn
        BY <3>1, Zenon
      <4>2. s(i) \in DOMAIN t /\ Is(t[s(i)], c, o, n)
        BY <1>2, <2>2, <4>1, Zenon DEF Is
      <4> QED  BY <1>3, <4>2, Zenon DEF Named
    <3>2. CASE a \notin cut
      BY <1>3, <2>2, <3>2, Zenon DEF Named
    <3> QED  BY <3>1, <3>2, Zenon
  <2>3. ASSUME NEW i \in DOMAIN q, Is(q[i], c, o, n) PROVE Named(y, c, o, n)
    BY <1>2, <1>3, <2>3 DEF Named
  <2>4. Named(x, c, o, n) => Named(y, c, o, n)
    BY <1>3, <2>2, <2>3, Zenon DEF Named
  <2>5. Named(y, c, o, n) => Named(x, c, o, n)
    BY <1>3, <2>1, Zenon DEF Named
  <2> QED  BY <2>4, <2>5, Zenon
<1>5. ASSUME NEW c, NEW o, Sole(x, c, o)
      PROVE  Sole(y, c, o)
  <2>1. \A i \in DOMAIN f : At(f[i], c, o) => \E a \in cut : At(a, c, o)
    BY DEF At
  <2>2. \A i, j \in DOMAIN f : At(f[i], c, o) /\ At(f[j], c, o) => i = j
    <3> SUFFICES ASSUME NEW i \in DOMAIN f, NEW j \in DOMAIN f, At(f[i], c, o), At(f[j], c, o)
                 PROVE  i = j
      BY Zenon
    <3>1. PICK a \in cut : f[i].obj = a.obj /\ f[i].op = a.op /\ f[i].conn = a.conn
      BY Zenon
    <3>2. PICK b \in cut : f[j].obj = b.obj /\ f[j].op = b.op /\ f[j].conn = b.conn
      BY Zenon
    <3>3. a = b
      BY <1>3, <1>5, <3>1, <3>2 DEF Sole, At
    <3> QED  BY <3>1, <3>2, <3>3
  <2>3. \A i, j \in DOMAIN t : At(t[i], c, o) /\ At(t[j], c, o) => i = j
    BY <1>2, <1>3, <1>5, <2>1, <2>2, SMTT(30) DEF Sole
  <2>4. \A a \in p \ cut, i \in DOMAIN t : ~(At(a, c, o) /\ At(t[i], c, o))
    BY <1>2, <1>3, <1>5, <2>1, SMTT(30) DEF Sole
  <2>5. \A i \in DOMAIN t, w \in Worker : ~(At(t[i], c, o) /\ k[w] # NoCompletion /\ At(k[w], c, o))
    BY <1>2, <1>3, <1>5, <2>1 DEF Sole
  <2> QED  BY <1>3, <1>5, <2>3, <2>4, <2>5 DEF Sole
<1>6. Equal(x, y)
  BY <1>4, <1>5, Zenon DEF Equal
<1> QED  BY <1>6, Zenon DEF x, y, t

-----------------------------------------------------------------------------
(* What the calls do to a value of net.                                    *)

(* From s to r the fields that say what connectors are for stay.           *)
Frame(s, r) ==
    /\ r.sendRef = s.sendRef /\ r.recvRef = s.recvRef /\ r.param = s.param
    /\ r.buffer = s.buffer /\ r.queued = s.queued /\ r.last = s.last /\ r.late = s.late

(* From s to r the socket h is closed, on behalf of n.                     *)
Shuts(s, r, h, n) ==
    /\ r \in Rec /\ Frame(s, r)
    /\ \A g \in Handle : r.os[g] = IF g = h THEN None ELSE s.os[g]
    /\ r.foreign => s.foreign \/ (h \in Handle /\ s.os[h] \notin {None, n})

LEMMA CloseSum ==
    ASSUME NEW s, s \in Rec, NEW h \in Handle \cup {None}, NEW n
    PROVE  LET r == CloseSocket(s, h, n) IN
           /\ Shuts(s, r, h, n) /\ r.socket = s.socket
           /\ \A k : Equal(Ways(s, k), Ways(r, k))
<1> DEFINE r == CloseSocket(s, h, n)
<1>1. CASE h = None \/ s.os[h] = None
  <2>1. r = s
    BY <1>1, Zenon DEF CloseSocket
  <2>2. \A g \in Handle : r.os[g] = IF g = h THEN None ELSE s.os[g]
    BY <1>1, <2>1, NoneIsNoHandle, Zenon
  <2> QED  BY <2>1, <2>2, Zenon DEF Shuts, Frame, Equal
<1>2. CASE ~(h = None \/ s.os[h] = None)
  <2> DEFINE cut == {o \in s.pending : o.conn = s.os[h]}
             F(o) == [kind |-> "failed", op |-> o.op, obj |-> o.obj, conn |-> o.conn]
             failed == {F(o) : o \in cut}
             f == Listed(failed)
  <2>1. h \in Handle
    BY <1>2, Zenon
  <2>2. r = [s EXCEPT !.os[h] = None, !.pending = @ \ cut, !.port = @ \o f,
                      !.foreign = @ \/ s.os[h] # n]
    BY <1>2, Zenon DEF CloseSocket
  <2>3. s.pending \in SUBSET Operation
    BY Zenon DEF Rec
  <2>6. failed \in SUBSET Completion /\ failed \in SUBSET Failure
    BY <2>3 DEF Operation, Completion, Failure
  <2>7. /\ \A e \in failed : \E o \in cut : e.obj = o.obj /\ e.op = o.op /\ e.conn = o.conn
        /\ \A o \in cut : \E e \in failed : e.obj = o.obj /\ e.op = o.op /\ e.conn = o.conn
        /\ \A d, e \in failed, o \in cut :
              (/\ e.obj = o.obj /\ e.op = o.op /\ e.conn = o.conn
               /\ d.obj = o.obj /\ d.op = o.op /\ d.conn = o.conn) => d = e
    <3>1. \A o : F(o).obj = o.obj /\ F(o).op = o.op /\ F(o).conn = o.conn
      BY Zenon
    <3>2. \A d, e \in failed : d.obj = e.obj /\ d.op = e.op /\ d.conn = e.conn => d = e
      OBVIOUS
    <3>3. /\ \A e \in failed : \E o \in cut : e = F(o)
          /\ \A o \in cut : F(o) \in failed
      BY Zenon
    <3> HIDE DEF F, failed, cut
    <3> QED  BY <3>1, <3>2, <3>3
  <2> HIDE DEF failed
  <2>8. /\ f \in Seq(failed) /\ \A i, j \in DOMAIN f : f[i] = f[j] => i = j
        /\ \A e \in failed : \E i \in DOMAIN f : f[i] = e
    BY <2>6, ListedAssumption, Zenon
  <2> HIDE DEF f
  <2>9. /\ f \in Seq(Completion)
        /\ \A i \in DOMAIN f : f[i] \in failed
    BY <2>6, <2>8, SeqElement
  <2>10. cut \in SUBSET s.pending
    BY Zenon
  <2> HIDE DEF cut, F
  <2>11. s.port \in Seq(Completion)
    BY Zenon DEF Rec
  <2>12. \A o \in cut : \E i \in DOMAIN f : f[i].obj = o.obj /\ f[i].op = o.op /\ f[i].conn = o.conn
    BY <2>7, <2>8
  <2>13. \A i \in DOMAIN f : \E o \in cut : f[i].obj = o.obj /\ f[i].op = o.op /\ f[i].conn = o.conn
    BY <2>7, <2>9, Zenon
  <2>14. \A i, j \in DOMAIN f, o \in cut :
              (/\ f[i].obj = o.obj /\ f[i].op = o.op /\ f[i].conn = o.conn
               /\ f[j].obj = o.obj /\ f[j].op = o.op /\ f[j].conn = o.conn) => i = j
    BY <2>7, <2>8, <2>9
  <2>15. \A k : Equal(<<s.pending, s.port, k>>, <<s.pending \ cut, s.port \o f, k>>)
    BY <2>9, <2>10, <2>11, <2>12, <2>13, <2>14, CutEqual, Zenon
  <2>16. s \in Rec
    BY Zenon
  <2>17. /\ r.pending = s.pending \ cut /\ r.port = s.port \o f
         /\ r.os = [s.os EXCEPT ![h] = None] /\ r.socket = s.socket
         /\ r.foreign = (s.foreign \/ s.os[h] # n) /\ Frame(s, r)
    BY <2>2, <2>16, Zenon DEF Rec, Frame
  <2>18. /\ s.pending \ cut \in SUBSET Operation
         /\ s.port \o f \in Seq(Completion)
         /\ [s.os EXCEPT ![h] = None] \in [Handle -> Conn \cup {None}]
    <3>2. s.port \o f \in Seq(Completion)
      BY <2>9, <2>11, SeqConcat, Zenon
    <3>3. s.os \in [Handle -> Conn \cup {None}]
      BY <2>16, Zenon DEF Rec
    <3> QED  BY <2>3, <3>2, <3>3, Zenon
  <2>19. r \in Rec
    BY <2>2, <2>16, <2>18, Zenon DEF Rec
  <2>20. \A k : Equal(Ways(s, k), Ways(r, k))
    BY <2>15, <2>17, Zenon DEF Ways
  <2>21. s.os \in [Handle -> Conn \cup {None}]
    BY <2>16, Zenon DEF Rec
  <2>22. \A g \in Handle : r.os[g] = IF g = h THEN None ELSE s.os[g]
    BY <2>17, <2>21, Zenon
  <2>23. r.foreign => s.foreign \/ (h \in Handle /\ s.os[h] \notin {None, n})
    BY <1>2, <2>1, <2>17, Zenon
  <2> QED  BY <2>17, <2>18, <2>19, <2>20, <2>22, <2>23, Zenon DEF Shuts
<1> QED  BY <1>1, <1>2, Zenon

LEMMA ShutSum ==
    ASSUME NEW s, s \in Rec, NEW c \in Slot, NEW n
    PROVE  LET r == Shut(s, c, n) IN
           /\ Shuts(s, r, s.socket[c], n) /\ r.socket = [s.socket EXCEPT ![c] = None]
           /\ \A k : Equal(Ways(s, k), Ways(r, k))
<1> DEFINE h == s.socket[c]
           m == CloseSocket(s, h, n)
           r == Shut(s, c, n)
<1>1. h \in Handle \cup {None}
  BY Zenon DEF Rec
<1> HIDE DEF h
<1>2. /\ Shuts(s, m, h, n) /\ m.socket = s.socket
      /\ \A k : Equal(Ways(s, k), Ways(m, k))
  BY <1>1, CloseSum, Zenon
<1>3. r = [m EXCEPT !.socket[c] = None]
  BY Zenon DEF Shut, h
<1> HIDE DEF m, r
<1>4. m \in Rec
  BY <1>2, Zenon DEF Shuts
<1>5. /\ r \in Rec /\ r.socket = [m.socket EXCEPT ![c] = None]
      /\ r.pending = m.pending /\ r.port = m.port /\ r.os = m.os /\ r.foreign = m.foreign
      /\ Frame(m, r)
  BY <1>3, <1>4, Zenon DEF Rec, Frame
<1>6. Shuts(s, r, h, n)
  BY <1>2, <1>4, <1>5, Zenon DEF Shuts, Frame
<1>7. \A k : Ways(r, k) = Ways(m, k)
  BY <1>5, Zenon DEF Ways
<1> QED  BY <1>2, <1>5, <1>6, <1>7, Zenon DEF h, r

LEMMA DisconnectSum ==
    ASSUME NEW s, s \in Rec, NEW c \in Slot, NEW n \in Conn
    PROVE  LET r == Disconnect(s, c, n) IN
           /\ Shuts(s, r, s.socket[c], n) /\ r.socket = [s.socket EXCEPT ![c] = None]
           /\ s.recvRef[c] = 0 => \A k : Equal(Ways(s, k), Ways(r, k))
           /\ s.recvRef[c] # 0 => \A k : More(Ways(s, k), Ways(r, k), c, "recv", n)
<1> DEFINE m == Shut(s, c, n)
           r == Disconnect(s, c, n)
           e == [kind |-> "zero", op |-> "recv", obj |-> c, conn |-> n]
<1>1. /\ Shuts(s, m, s.socket[c], n) /\ m.socket = [s.socket EXCEPT ![c] = None]
      /\ \A k : Equal(Ways(s, k), Ways(m, k))
  BY ShutSum, Zenon
<1>2. m.recvRef = s.recvRef
  BY <1>1, Zenon DEF Shuts, Frame
<1>3. r = IF m.recvRef[c] = 0 THEN m ELSE [m EXCEPT !.port = Append(@, e)]
  BY Zenon DEF Disconnect
<1> HIDE DEF m, r
<1>4. CASE s.recvRef[c] = 0
  BY <1>1, <1>2, <1>3, <1>4, Zenon DEF r
<1>5. CASE s.recvRef[c] # 0
  <2>1. r = [m EXCEPT !.port = Append(@, e)]
    BY <1>2, <1>3, <1>5, Zenon
  <2>2. m \in Rec
    BY <1>1, Zenon DEF Shuts
  <2>3. e \in Completion /\ m.port \in Seq(Completion)
    BY <2>2, Zenon DEF Completion, Rec
  <2>4. Append(m.port, e) \in Seq(Completion)
    BY <2>3
  <2> HIDE DEF e
  <2>5. /\ r \in Rec /\ r.port = Append(m.port, e)
        /\ r.pending = m.pending /\ r.socket = m.socket /\ r.os = m.os /\ r.foreign = m.foreign
        /\ Frame(m, r)
    BY <2>1, <2>2, <2>4, Zenon DEF Rec, Frame
  <2>6. Shuts(s, r, s.socket[c], n)
    BY <1>1, <2>2, <2>5, Zenon DEF Shuts, Frame
  <2>7. e.obj = c /\ e.op = "recv" /\ e.conn = n
    BY Zenon DEF e
  <2>8. \A k : More(Ways(m, k), Ways(r, k), c, "recv", n)
    BY <2>3, <2>5, <2>7, AppendMore, Zenon DEF Ways
  <2>9. \A k : More(Ways(s, k), Ways(r, k), c, "recv", n)
    BY <1>1, <2>8, EqualTrans, Zenon
  <2> QED  BY <1>1, <1>5, <2>5, <2>6, <2>9, Zenon DEF r
<1> QED  BY <1>4, <1>5, Zenon

(* From s to r the sockets stay as they are.                               *)
Sockets(s, r) == r.socket = s.socket /\ r.os = s.os /\ r.foreign = s.foreign /\ r.last = s.last /\ r.late = s.late

LEMMA IncDecType ==
    ASSUME NEW ref \in 0..RefSize - 1
    PROVE  /\ Inc(ref) \in 0..RefSize - 1 /\ Dec(ref) \in 0..RefSize - 1
           /\ Inc(0) = 1 /\ Dec(1) = 0
  BY ConnectionsAssumption DEF Inc, Dec

LEMMA StartRecvSum ==
    ASSUME NEW s, s \in Rec, NEW c \in Slot, Usable(s, c)
    PROVE  LET r == StartRecv(s, c) IN
           /\ r \in Rec /\ Sockets(s, r)
           /\ r.recvRef = [s.recvRef EXCEPT ![c] = Inc(@)]
           /\ r.sendRef = s.sendRef /\ r.param = s.param /\ r.buffer = s.buffer /\ r.queued = s.queued
           /\ s.os[s.socket[c]] \in Conn
           /\ \A k : More(Ways(s, k), Ways(r, k), c, "recv", s.os[s.socket[c]])
<1> DEFINE r == StartRecv(s, c)
           n == s.os[s.socket[c]]
           o == [op |-> "recv", obj |-> c, conn |-> n]
<1>1. s \in Rec
  BY Zenon
<1>2. s.socket[c] \in Handle /\ n \in Conn
  BY <1>1, Zenon DEF Usable, Rec
<1>3. r = [s EXCEPT !.recvRef[c] = Inc(@), !.pending = @ \cup {o}]
  BY Zenon DEF StartRecv
<1> HIDE DEF r, n
<1>4. o \in Operation
  BY <1>2, Zenon DEF Operation
<1>5. s.recvRef \in [Slot -> 0..RefSize - 1]
  BY <1>1, Zenon DEF Rec
<1>6. [s.recvRef EXCEPT ![c] = Inc(@)] \in [Slot -> 0..RefSize - 1]
  BY <1>5, IncDecType, Zenon
<1>7. s.pending \cup {o} \in SUBSET Operation
  BY <1>1, <1>4, Zenon DEF Rec
<1>8. o.obj = c /\ o.op = "recv" /\ o.conn = n
  BY Zenon
<1> HIDE DEF o
<1>9. /\ r \in Rec /\ Sockets(s, r) /\ r.pending = s.pending \cup {o} /\ r.port = s.port
      /\ r.recvRef = [s.recvRef EXCEPT ![c] = Inc(@)]
      /\ r.sendRef = s.sendRef /\ r.param = s.param /\ r.buffer = s.buffer /\ r.queued = s.queued
  BY <1>1, <1>3, <1>6, <1>7, Zenon DEF Rec, Sockets
<1>10. \A k : More(Ways(s, k), Ways(r, k), c, "recv", n)
  BY <1>8, <1>9, StartMore DEF Ways
<1> QED  BY <1>2, <1>7, <1>9, <1>10, Zenon DEF r, n

LEMMA StartSendSum ==
    ASSUME NEW s, s \in Rec, NEW c \in Slot
    PROVE  LET r == StartSend(s, c) IN
           /\ r \in Rec /\ Sockets(s, r)
           /\ r.sendRef = [s.sendRef EXCEPT ![c] = Inc(@)] /\ r.buffer = [s.buffer EXCEPT ![c] = TRUE]
           /\ r.recvRef = s.recvRef /\ r.param = s.param /\ r.queued = s.queued
           /\ Usable(s, c) => /\ s.os[s.socket[c]] \in Conn
                              /\ \A k : More(Ways(s, k), Ways(r, k), c, "send", s.os[s.socket[c]])
           /\ ~Usable(s, c) => \A k : Equal(Ways(s, k), Ways(r, k))
<1> DEFINE r == StartSend(s, c)
           n == s.os[s.socket[c]]
           o == [op |-> "send", obj |-> c, conn |-> n]
           p == IF Usable(s, c) THEN s.pending \cup {o} ELSE s.pending
<1>1. s \in Rec
  BY Zenon
<1>2. Usable(s, c) => s.socket[c] \in Handle /\ n \in Conn
  BY <1>1, Zenon DEF Usable, Rec
<1>3. r = [s EXCEPT !.sendRef[c] = Inc(@), !.buffer[c] = TRUE, !.pending = p]
  BY Zenon DEF StartSend
<1> HIDE DEF r, n
<1>4. Usable(s, c) => o \in Operation
  BY <1>2, Zenon DEF Operation
<1>5. s.sendRef \in [Slot -> 0..RefSize - 1] /\ s.buffer \in [Slot -> BOOLEAN]
  BY <1>1, Zenon DEF Rec
<1>6. /\ [s.sendRef EXCEPT ![c] = Inc(@)] \in [Slot -> 0..RefSize - 1]
      /\ [s.buffer EXCEPT ![c] = TRUE] \in [Slot -> BOOLEAN]
  BY <1>5, IncDecType, Zenon
<1>7. p \in SUBSET Operation
  BY <1>1, <1>4, Zenon DEF Rec
<1>8. o.obj = c /\ o.op = "send" /\ o.conn = n
  BY Zenon
<1>9. (Usable(s, c) => p = s.pending \cup {o}) /\ (~Usable(s, c) => p = s.pending)
  BY Zenon
<1> HIDE DEF o, p
<1>10. /\ r \in Rec /\ Sockets(s, r) /\ r.pending = p /\ r.port = s.port
       /\ r.sendRef = [s.sendRef EXCEPT ![c] = Inc(@)] /\ r.buffer = [s.buffer EXCEPT ![c] = TRUE]
       /\ r.recvRef = s.recvRef /\ r.param = s.param /\ r.queued = s.queued
  BY <1>1, <1>3, <1>6, <1>7, Zenon DEF Rec, Sockets
<1>11. Usable(s, c) => \A k : More(Ways(s, k), Ways(r, k), c, "send", n)
  BY <1>8, <1>9, <1>10, StartMore DEF Ways
<1>12. ~Usable(s, c) => \A k : Equal(Ways(s, k), Ways(r, k))
  BY <1>9, <1>10, Zenon DEF Ways, Equal
<1> QED  BY <1>2, <1>7, <1>10, <1>11, <1>12, Zenon DEF r, n

-----------------------------------------------------------------------------
(* What the actions do.                                                    *)

Acceptor == [obj : Slot, conn : Conn, handle : Handle] \cup {NotAccepting}

Types ==
    /\ net \in Rec /\ setting \in Setting
    /\ accept \in Acceptor
    /\ worker \in [Worker -> Completion \cup {NoCompletion}]
    /\ \A w \in Worker : worker[w] # NoCompletion => worker[w].op = "recv"

Here == Ways(net, worker)

LEMMA CompletionType ==
    ASSUME NEW e \in Completion
    PROVE  /\ e # NoCompletion /\ e.obj \in Slot /\ e.conn \in Conn /\ e.op \in {"recv", "send"}
           /\ e.kind \in {"packet", "zero", "failed"}
<1>1. e.kind \in {"packet", "zero", "failed"} /\ NoCompletion.kind = "none"
  BY Zenon DEF Completion, NoCompletion
<1> QED  BY <1>1, Zenon DEF Completion

LEMMA TryReleaseSum ==
    ASSUME NEW s, s \in Rec, NEW c \in Slot, NEW n, TryRelease(s, c, n)
    PROVE  /\ net' \in Rec
           /\ \A g \in Handle : net'.os[g] = IF g = s.socket[c] THEN None ELSE s.os[g]
           /\ net'.foreign => s.foreign \/ (s.socket[c] \in Handle /\ s.os[s.socket[c]] \notin {None, n})
           /\ net'.socket = [s.socket EXCEPT ![c] = None]
           /\ net'.buffer = [s.buffer EXCEPT ![c] = @ /\ s.param[c]]
           /\ net'.late = (s.late \/ GoesLate(s, c))
           /\ net'.sendRef = s.sendRef /\ net'.recvRef = s.recvRef /\ net'.param = s.param
           /\ net'.queued = s.queued /\ net'.last = s.last
           /\ \A k : Equal(Ways(s, k), Ways(net', k))
           /\ IF s.param[c] THEN UNCHANGED poolVars ELSE SetFreeObject(c)
<1> DEFINE m == Shut(s, c, n)
<1>1. /\ Shuts(s, m, s.socket[c], n) /\ m.socket = [s.socket EXCEPT ![c] = None]
      /\ \A k : Equal(Ways(s, k), Ways(m, k))
  BY ShutSum, Zenon
<1>2. net' = [m EXCEPT !.buffer[c] = @ /\ s.param[c], !.late = @ \/ GoesLate(s, c)]
  BY Zenon DEF TryRelease
<1>3. IF s.param[c] THEN UNCHANGED poolVars ELSE SetFreeObject(c)
  BY Zenon DEF TryRelease
<1> HIDE DEF m
<1>4. m \in Rec /\ s \in Rec
  BY <1>1, Zenon DEF Shuts
<1>5. GoesLate(s, c) \in BOOLEAN /\ m.buffer \in [Slot -> BOOLEAN]
  BY <1>4, Zenon DEF GoesLate, Rec
<1>6. /\ [m.buffer EXCEPT ![c] = @ /\ s.param[c]] \in [Slot -> BOOLEAN]
      /\ (m.late \/ GoesLate(s, c)) \in BOOLEAN
  BY <1>5, Zenon
<1>7. /\ net' \in Rec
      /\ net'.buffer = [m.buffer EXCEPT ![c] = @ /\ s.param[c]] /\ net'.late = (m.late \/ GoesLate(s, c))
      /\ net'.pending = m.pending /\ net'.port = m.port /\ net'.os = m.os /\ net'.socket = m.socket
      /\ net'.sendRef = m.sendRef /\ net'.recvRef = m.recvRef /\ net'.param = m.param
      /\ net'.queued = m.queued /\ net'.last = m.last /\ net'.foreign = m.foreign
  BY <1>2, <1>4, <1>6, Zenon DEF Rec
<1>8. \A k : Ways(net', k) = Ways(m, k)
  BY <1>7, Zenon DEF Ways
<1>9. net' \in Rec
  BY <1>4, <1>7, Zenon
<1> QED  BY <1>1, <1>3, <1>7, <1>8, <1>9 DEF Shuts, Frame

LEMMA PoppedSum ==
    ASSUME Types, net.port # << >>
    PROVE  /\ Popped \in Rec /\ Head(net.port) \in Completion
           /\ Sockets(net, Popped) /\ Frame(net, Popped)
           /\ Less(Here, Ways(Popped, worker), Head(net.port).obj, Head(net.port).op, Head(net.port).conn)
<1>1. net \in Rec
  BY Zenon DEF Types
<1>2. net.port \in Seq(Completion)
  BY <1>1, Zenon DEF Rec
<1>3. Head(net.port) \in Completion /\ Tail(net.port) \in Seq(Completion)
  BY <1>2, SeqHeadTail, Zenon
<1>4. /\ Popped \in Rec /\ Sockets(net, Popped) /\ Frame(net, Popped)
      /\ Popped.port = Tail(net.port) /\ Popped.pending = net.pending
  BY <1>1, <1>3, Zenon DEF Popped, Rec, Sockets, Frame
<1>5. Less(Here, Ways(Popped, worker), Head(net.port).obj, Head(net.port).op, Head(net.port).conn)
  BY <1>2, <1>4, PopLess, Zenon DEF Here, Ways
<1> QED  BY <1>1, <1>3, <1>4, <1>5, Zenon

LEMMA FailedSum ==
    ASSUME Types, NEW w \in Worker, Failed(w)
    PROVE  LET e == Head(net.port)
               c == e.obj
               y == Ways(Popped, worker)
           IN  /\ e \in Completion /\ worker' = worker /\ UNCHANGED <<poolVars, setting, accept>>
               /\ Shuts(net, net', net.socket[c], e.conn) /\ net'.socket = [net.socket EXCEPT ![c] = None]
               /\ Less(Here, y, c, e.op, e.conn)
               /\ net.recvRef[c] = 0 => Equal(y, Here')
               /\ net.recvRef[c] # 0 => More(y, Here', c, "recv", e.conn)
<1> DEFINE e == Head(net.port)
           c == e.obj
           y == Ways(Popped, worker)
<1>1. /\ net.port # << >> /\ net' = Disconnect(Popped, c, e.conn)
      /\ worker' = worker /\ UNCHANGED <<poolVars, setting, accept>>
  BY Zenon DEF Failed, Take
<1>2. /\ Popped \in Rec /\ e \in Completion /\ Sockets(net, Popped) /\ Frame(net, Popped)
      /\ Less(Here, y, c, e.op, e.conn)
  BY <1>1, PoppedSum, Zenon
<1>3. c \in Slot /\ e.conn \in Conn
  BY <1>2, CompletionType, Zenon
<1> HIDE DEF e, c
<1>4. /\ Shuts(Popped, net', Popped.socket[c], e.conn)
      /\ net'.socket = [Popped.socket EXCEPT ![c] = None]
      /\ Popped.recvRef[c] = 0 => \A k : Equal(Ways(Popped, k), Ways(net', k))
      /\ Popped.recvRef[c] # 0 => \A k : More(Ways(Popped, k), Ways(net', k), c, "recv", e.conn)
  BY <1>1, <1>2, <1>3, DisconnectSum, Zenon
<1>5. Shuts(net, net', net.socket[c], e.conn) /\ net'.socket = [net.socket EXCEPT ![c] = None]
  BY <1>2, <1>4 DEF Shuts, Frame, Sockets
<1>6. Here' = Ways(net', worker)
  BY <1>1, Zenon DEF Here
<1> QED  BY <1>1, <1>2, <1>4, <1>5, <1>6, Zenon DEF Frame, e, c

LEMMA ClosedSum ==
    ASSUME Types, NEW w \in Worker, Closed(w)
    PROVE  LET e == Head(net.port)
           IN  /\ e \in Completion /\ e.op = "recv"
               /\ worker' = [worker EXCEPT ![w] = e] /\ UNCHANGED <<poolVars, setting, accept>>
               /\ Shuts(net, net', net.socket[e.obj], e.conn) /\ net'.socket = net.socket
               /\ Named(Here, e.obj, "recv", e.conn)
               /\ Equal(Here, Here')
<1> DEFINE e == Head(net.port)
           h == net.socket[e.obj]
<1>1. /\ net.port # << >> /\ net' = CloseSocket(Popped, h, e.conn) /\ e.op = "recv"
      /\ worker[w] = NoCompletion
      /\ worker' = [worker EXCEPT ![w] = e] /\ UNCHANGED <<poolVars, setting, accept>>
  BY Zenon DEF Closed, Take
<1>2. /\ Popped \in Rec /\ e \in Completion /\ Sockets(net, Popped) /\ Frame(net, Popped)
      /\ Less(Here, Ways(Popped, worker), e.obj, e.op, e.conn)
  BY <1>1, PoppedSum, Zenon
<1>3. e.obj \in Slot /\ e.conn \in Conn /\ e # NoCompletion
  BY <1>2, CompletionType, Zenon
<1>4. net \in Rec /\ net.port \in Seq(Completion)
  BY Zenon DEF Types, Rec
<1>5. h \in Handle \cup {None} /\ Popped.pending = net.pending /\ Popped.port = Tail(net.port)
  BY <1>3, <1>4, Zenon DEF Rec, Popped
<1>6. Equal(<<net.pending, net.port, worker>>, <<net.pending, Tail(net.port), [worker EXCEPT ![w] = e]>>)
  BY <1>1, <1>3, <1>4, TakeEqual, Zenon DEF Types
<1>7. Equal(Here, Ways(Popped, worker'))
  BY <1>1, <1>5, <1>6, Zenon DEF Here, Ways
<1> HIDE DEF e, h
<1>8. /\ Shuts(Popped, net', h, e.conn) /\ net'.socket = Popped.socket
      /\ \A k : Equal(Ways(Popped, k), Ways(net', k))
  BY <1>1, <1>2, <1>5, CloseSum, Zenon
<1>9. Equal(Here, Here')
  BY <1>7, <1>8, EqualTrans, Zenon DEF Here
<1>10. Shuts(net, net', h, e.conn) /\ net'.socket = net.socket
  BY <1>2, <1>8, Zenon DEF Shuts, Frame, Sockets
<1>11. Named(Here, e.obj, "recv", e.conn)
  BY <1>1, <1>2, Zenon DEF Less
<1> QED  BY <1>1, <1>2, <1>9, <1>10, <1>11, Zenon DEF e, h

(* The object of worker w is released, or only counted off.                *)
LEMMA UncountedSum ==
    ASSUME Types, NEW w \in Worker, Uncounted(w)
    PROVE  LET c == worker[w].obj
               n == worker[w].conn
           IN  /\ c \in Slot /\ n \in Conn /\ UNCHANGED <<setting, accept>>
               /\ worker' = [worker EXCEPT ![w] = NoCompletion]
               /\ Less(Here, Here', c, "recv", n)
               /\ net' \in Rec
               /\ net'.recvRef = IF net.sendRef[c] # 0 \/ net.recvRef[c] # 0
                                 THEN [net.recvRef EXCEPT ![c] = Dec(@)] ELSE net.recvRef
               /\ net'.sendRef = net.sendRef /\ net'.param = net.param
               /\ net'.queued = net.queued /\ net'.last = net.last
               /\ \/ /\ net'.buffer = net.buffer /\ Sockets(net, net') /\ UNCHANGED poolVars
                     /\ net'.sendRef[c] # 0 /\ net'.recvRef[c] # 0
                  \/ /\ \A g \in Handle : net'.os[g] = IF g = net.socket[c] THEN None ELSE net.os[g]
                     /\ net'.foreign => \/ net.foreign
                                        \/ net.socket[c] \in Handle /\ net.os[net.socket[c]] \notin {None, n}
                     /\ net'.socket = [net.socket EXCEPT ![c] = None]
                     /\ net'.buffer = [net.buffer EXCEPT ![c] = @ /\ net.param[c]]
                     /\ net'.late = (net.late \/ GoesLate(net, c))
                     /\ IF net.param[c] THEN UNCHANGED poolVars ELSE SetFreeObject(c)
<1> DEFINE c == worker[w].obj
           n == worker[w].conn
           ref == IF net.sendRef[c] # 0 \/ net.recvRef[c] # 0
                  THEN [net.recvRef EXCEPT ![c] = Dec(@)] ELSE net.recvRef
           s == IF net.sendRef[c] # 0 \/ net.recvRef[c] # 0
                THEN [net EXCEPT !.recvRef[c] = Dec(@)] ELSE net
<1>1. /\ worker[w] # NoCompletion /\ worker' = [worker EXCEPT ![w] = NoCompletion]
      /\ UNCHANGED <<setting, accept>>
  BY Zenon DEF Uncounted
<1>2. IF s.sendRef[c] = 0 \/ s.recvRef[c] = 0 THEN TryRelease(s, c, n)
      ELSE net' = s /\ UNCHANGED poolVars
  BY Zenon DEF Uncounted
<1>3. worker[w] \in Completion /\ worker[w].op = "recv" /\ net \in Rec
  BY <1>1, Zenon DEF Types
<1>4. c \in Slot /\ n \in Conn
  BY <1>3, CompletionType, Zenon
<1>5. net.recvRef \in [Slot -> 0..RefSize - 1]
  BY <1>3, Zenon DEF Rec
<1>6. ref \in [Slot -> 0..RefSize - 1]
  BY <1>4, <1>5, IncDecType, Zenon
<1>7. s = [net EXCEPT !.recvRef = ref]
  BY <1>3, <1>5, Zenon DEF Rec
<1> HIDE DEF s
<1>9. /\ s \in Rec /\ s.recvRef = ref /\ Sockets(net, s) /\ s.pending = net.pending /\ s.port = net.port
      /\ s.sendRef = net.sendRef /\ s.param = net.param /\ s.buffer = net.buffer /\ s.queued = net.queued
  <2> HIDE DEF ref
  <2> QED  BY <1>3, <1>6, <1>7, Zenon DEF Rec, Sockets
<1>10. s \in Rec /\ Ways(s, worker') = Ways(net, worker')
  BY <1>3, <1>9, Zenon DEF Ways
<1>11. Less(Here, Ways(net, worker'), c, "recv", n)
  BY <1>1, <1>3, DropLess, Zenon DEF Here, Ways, Types
<1>12. GoesLate(s, c) = GoesLate(net, c)
  BY <1>9, Zenon DEF GoesLate
<1> HIDE DEF ref, c, n
<1>13. CASE TryRelease(s, c, n)
  <2>1. /\ net' \in Rec
        /\ \A g \in Handle : net'.os[g] = IF g = s.socket[c] THEN None ELSE s.os[g]
        /\ net'.foreign => s.foreign \/ (s.socket[c] \in Handle /\ s.os[s.socket[c]] \notin {None, n})
        /\ net'.socket = [s.socket EXCEPT ![c] = None]
        /\ net'.buffer = [s.buffer EXCEPT ![c] = @ /\ s.param[c]]
        /\ net'.late = (s.late \/ GoesLate(s, c))
        /\ net'.sendRef = s.sendRef /\ net'.recvRef = s.recvRef /\ net'.param = s.param
        /\ net'.queued = s.queued /\ net'.last = s.last
        /\ \A k : Equal(Ways(s, k), Ways(net', k))
        /\ IF s.param[c] THEN UNCHANGED poolVars ELSE SetFreeObject(c)
    BY <1>4, <1>10, <1>13, TryReleaseSum, Zenon
  <2>2. Less(Here, Here', c, "recv", n)
    BY <1>10, <1>11, <2>1, TransEqual, Zenon DEF Here
  <2>3. /\ \A g \in Handle : net'.os[g] = IF g = net.socket[c] THEN None ELSE net.os[g]
        /\ net'.foreign => \/ net.foreign
                           \/ net.socket[c] \in Handle /\ net.os[net.socket[c]] \notin {None, n}
        /\ net'.socket = [net.socket EXCEPT ![c] = None]
        /\ net'.buffer = [net.buffer EXCEPT ![c] = @ /\ net.param[c]]
        /\ net'.late = (net.late \/ GoesLate(net, c))
        /\ IF net.param[c] THEN UNCHANGED poolVars ELSE SetFreeObject(c)
        /\ net'.last = net.last
    BY <1>9, <1>12, <2>1 DEF Sockets
  <2> QED  BY <1>1, <1>4, <1>9, <2>1, <2>2, <2>3, Zenon DEF c, n, ref
<1>14. CASE s.sendRef[c] # 0 /\ s.recvRef[c] # 0 /\ net' = s /\ UNCHANGED poolVars
  <2>1. Less(Here, Here', c, "recv", n)
    BY <1>10, <1>11, <1>14, Zenon DEF Here
  <2>2. Sockets(net, net') /\ net'.last = net.last
    BY <1>9, <1>14, Zenon DEF Sockets
  <2> QED  BY <1>1, <1>4, <1>9, <1>10, <1>14, <2>1, <2>2, Zenon DEF c, n, ref
<1> QED  BY <1>2, <1>13, <1>14, Zenon

(* A send is over; nothing, one that is accepted, or one that is refused   *)
(* follows.                                                                *)
LEMMA DoSendSum ==
    ASSUME Types, NEW w \in Worker, DoSend(w)
    PROVE  LET e == Head(net.port)
               c == e.obj
               n == e.conn
           IN  /\ e \in Completion /\ e.op = "send" /\ e.kind = "packet"
               /\ worker' = worker /\ UNCHANGED <<poolVars, setting, accept>>
               /\ net' \in Rec /\ net'.recvRef = net.recvRef /\ net'.param = net.param
               /\ net'.queued = net.queued /\ net'.last = net.last /\ net'.late = net.late
               /\ \A d \in Slot \ {c} : net'.sendRef[d] = net.sendRef[d] /\ net'.buffer[d] = net.buffer[d]
               /\ \E y : 
                  /\ Less(Here, y, c, "send", n)
                  /\ \/ /\ Sockets(net, net') /\ Equal(y, Here')
                        /\ IF net.buffer[c] THEN net'.sendRef[c] = Dec(net.sendRef[c])
                           ELSE net'.sendRef[c] = net.sendRef[c] /\ ~net'.buffer[c]
                     \/ /\ Sockets(net, net') /\ Usable(net, c)
                        /\ More(y, Here', c, "send", net.os[net.socket[c]])
                        /\ net'.sendRef[c] = 1 /\ net'.buffer[c]
                     \/ /\ net'.socket = [net.socket EXCEPT ![c] = None]
                        /\ \A g \in Handle : net'.os[g] = IF g = net.socket[c] THEN None ELSE net.os[g]
                        /\ net'.foreign => \/ net.foreign
                                           \/ net.socket[c] \in Handle /\ net.os[net.socket[c]] \notin {None, n}
                        /\ net'.sendRef[c] = 1 /\ net'.buffer[c]
                        /\ net.recvRef[c] = 0 => Equal(y, Here')
                        /\ net.recvRef[c] # 0 => More(y, Here', c, "recv", n)
<1> DEFINE e == Head(net.port)
           c == e.obj
           n == e.conn
           s == IF net.buffer[c] THEN [Popped EXCEPT !.sendRef[c] = Dec(@), !.buffer[c] = FALSE]
                ELSE Popped
           more == StartSend(s, c)
           y == Ways(s, worker)
<1>1. /\ net.port # << >> /\ e.op = "send" /\ e.kind = "packet"
      /\ worker' = worker /\ UNCHANGED <<poolVars, setting, accept>>
  BY Zenon DEF DoSend, Take
<1>2. \/ net' = s
      \/ s.sendRef[c] = 0 /\ net' = IF Usable(s, c) THEN more ELSE Disconnect(more, c, n)
  BY Zenon DEF DoSend
<1>3. /\ Popped \in Rec /\ e \in Completion /\ Sockets(net, Popped) /\ Frame(net, Popped)
      /\ Less(Here, Ways(Popped, worker), c, e.op, n)
  BY <1>1, PoppedSum, Zenon
<1>4. c \in Slot /\ n \in Conn
  BY <1>3, CompletionType, Zenon
<1>5. Popped \in Rec
  BY <1>3, Zenon
<1>6. Popped.sendRef \in [Slot -> 0..RefSize - 1] /\ Popped.buffer \in [Slot -> BOOLEAN]
  BY <1>5, Zenon DEF Rec
<1>7. /\ [Popped.sendRef EXCEPT ![c] = Dec(@)] \in [Slot -> 0..RefSize - 1]
      /\ [Popped.buffer EXCEPT ![c] = FALSE] \in [Slot -> BOOLEAN]
  BY <1>4, <1>6, IncDecType, Zenon
<1> HIDE DEF c, n, e
<1>8. /\ s \in Rec /\ Sockets(Popped, s) /\ s.recvRef = Popped.recvRef /\ s.param = Popped.param
      /\ s.queued = Popped.queued /\ s.pending = Popped.pending /\ s.port = Popped.port
      /\ s.sendRef = IF net.buffer[c] THEN [Popped.sendRef EXCEPT ![c] = Dec(@)] ELSE Popped.sendRef
      /\ s.buffer = IF net.buffer[c] THEN [Popped.buffer EXCEPT ![c] = FALSE] ELSE Popped.buffer
  BY <1>5, <1>7, Zenon DEF Rec, Sockets
<1> HIDE DEF s, more
<1>9. /\ s \in Rec /\ Sockets(net, s) /\ s.recvRef = net.recvRef /\ s.param = net.param /\ s.queued = net.queued
      /\ Ways(s, worker) = Ways(Popped, worker)
  BY <1>3, <1>5, <1>8, Zenon DEF Sockets, Frame, Ways
<1>10. net.sendRef \in [Slot -> 0..RefSize - 1] /\ net.buffer \in [Slot -> BOOLEAN]
  BY Zenon DEF Types, Rec
<1>11. /\ \A d \in Slot \ {c} : s.sendRef[d] = net.sendRef[d] /\ s.buffer[d] = net.buffer[d]
       /\ IF net.buffer[c] THEN s.sendRef[c] = Dec(net.sendRef[c])
          ELSE s.sendRef[c] = net.sendRef[c] /\ ~s.buffer[c]
  BY <1>3, <1>4, <1>8, <1>10 DEF Frame
<1>12. Less(Here, y, c, "send", n)
  BY <1>1, <1>3, <1>9, Zenon
<1>13. /\ more \in Rec /\ Sockets(s, more)
       /\ more.sendRef = [s.sendRef EXCEPT ![c] = Inc(@)] /\ more.buffer = [s.buffer EXCEPT ![c] = TRUE]
       /\ more.recvRef = s.recvRef /\ more.param = s.param /\ more.queued = s.queued
       /\ Usable(s, c) => \A k : More(Ways(s, k), Ways(more, k), c, "send", s.os[s.socket[c]])
       /\ ~Usable(s, c) => \A k : Equal(Ways(s, k), Ways(more, k))
  BY <1>4, <1>9, StartSendSum, Zenon DEF more
<1>14. s.sendRef \in [Slot -> 0..RefSize - 1] /\ s.buffer \in [Slot -> BOOLEAN]
  BY <1>8, Zenon DEF Rec
<1>15. /\ \A d \in Slot \ {c} : more.sendRef[d] = net.sendRef[d] /\ more.buffer[d] = net.buffer[d]
       /\ s.sendRef[c] = 0 => more.sendRef[c] = 1
       /\ more.buffer[c]
  <2>1. s.sendRef[c] \in 0..RefSize - 1 /\ Inc(0) = 1
    BY <1>4, <1>14, IncDecType, Zenon
  <2>2. s.sendRef[c] = 0 => more.sendRef[c] = 1
    BY <1>4, <1>13, <1>14, <2>1, Zenon
  <2> QED  BY <1>4, <1>11, <1>13, <1>14, <2>2, Zenon
<1>16. Here' = Ways(net', worker)
  BY <1>1, Zenon DEF Here
<1>17. CASE net' = s
  <2>1. net'.last = net.last /\ net'.late = net.late
    BY <1>9, <1>17, Zenon DEF Sockets
  <2>2. Equal(y, Here')
    BY <1>16, <1>17, Zenon DEF Equal
  <2> QED  BY <1>1, <1>3, <1>9, <1>11, <1>12, <1>17, <2>1, <2>2, Zenon DEF c, n, e
<1>18. CASE s.sendRef[c] = 0 /\ Usable(s, c) /\ net' = more
  <2>1. net'.last = net.last /\ net'.late = net.late /\ Sockets(net, net')
    BY <1>9, <1>13, <1>18, Zenon DEF Sockets
  <2>2. Usable(net, c) /\ s.os[s.socket[c]] = net.os[net.socket[c]]
    BY <1>9, <1>18, Zenon DEF Sockets, Usable
  <2>3. More(y, Here', c, "send", net.os[net.socket[c]])
    BY <1>13, <1>16, <1>18, <2>2, Zenon
  <2> QED  BY <1>1, <1>3, <1>9, <1>12, <1>13, <1>15, <1>18, <2>1, <2>2, <2>3, Zenon DEF c, n, e
<1>19. CASE s.sendRef[c] = 0 /\ ~Usable(s, c) /\ net' = Disconnect(more, c, n)
  <2>1. /\ Shuts(more, net', more.socket[c], n) /\ net'.socket = [more.socket EXCEPT ![c] = None]
        /\ more.recvRef[c] = 0 => \A k : Equal(Ways(more, k), Ways(net', k))
        /\ more.recvRef[c] # 0 => \A k : More(Ways(more, k), Ways(net', k), c, "recv", n)
    BY <1>4, <1>13, <1>19, DisconnectSum, Zenon
  <2>2. Sockets(net, more)
    BY <1>9, <1>13, Zenon DEF Sockets
  <2>3. Frame(more, net') /\ net' \in Rec
    BY <2>1, Zenon DEF Shuts
  <2>4. /\ net'.recvRef = net.recvRef /\ net'.param = net.param /\ net'.queued = net.queued
        /\ net'.last = net.last /\ net'.late = net.late
    BY <1>9, <1>13, <2>2, <2>3, Zenon DEF Frame, Sockets
  <2>5. /\ \A d \in Slot \ {c} : net'.sendRef[d] = net.sendRef[d] /\ net'.buffer[d] = net.buffer[d]
        /\ net'.sendRef[c] = 1 /\ net'.buffer[c]
    BY <1>15, <1>19, <2>3, Zenon DEF Frame
  <2>6. Equal(y, Ways(more, worker))
    BY <1>13, <1>19, Zenon
  <2>7. /\ net.recvRef[c] = 0 => Equal(y, Here')
        /\ net.recvRef[c] # 0 => More(y, Here', c, "recv", n)
    BY <1>9, <1>13, <1>16, <2>1, <2>6, EqualTrans, Zenon
  <2>8. /\ net'.socket = [net.socket EXCEPT ![c] = None]
        /\ \A g \in Handle : net'.os[g] = IF g = net.socket[c] THEN None ELSE net.os[g]
        /\ net'.foreign => \/ net.foreign
                           \/ net.socket[c] \in Handle /\ net.os[net.socket[c]] \notin {None, n}
    BY <2>1, <2>2, Zenon DEF Shuts, Sockets
  <2> QED  BY <1>1, <1>3, <1>12, <2>3, <2>4, <2>5, <2>7, <2>8, Zenon DEF c, n, e
<1> QED  BY <1>2, <1>17, <1>18, <1>19, Zenon

(* A receive is over; the data is refused, or queued and another receive   *)
(* accepted or not.                                                        *)
LEMMA DoRecvSum ==
    ASSUME Types, NEW w \in Worker, DoRecv(w)
    PROVE  LET e == Head(net.port)
               c == e.obj
               n == e.conn
           IN  /\ e \in Completion /\ e.op = "recv"
               /\ worker' = worker /\ UNCHANGED <<poolVars, setting, accept>>
               /\ net' \in Rec /\ net'.sendRef = net.sendRef /\ net'.param = net.param
               /\ net'.buffer = net.buffer /\ net'.last = net.last /\ net'.late = net.late
               /\ \A d \in Slot \ {c} : net'.recvRef[d] = net.recvRef[d]
               /\ net'.queued \in {net.queued, net.queued \cup {c}}
               /\ \E y :
                  /\ Less(Here, y, c, "recv", n)
                  /\ \/ /\ Sockets(net, net') /\ Usable(net, c)
                        /\ More(y, Here', c, "recv", net.os[net.socket[c]])
                        /\ net'.recvRef[c] = Inc(Dec(net.recvRef[c]))
                     \/ /\ net'.socket = [net.socket EXCEPT ![c] = None]
                        /\ \A g \in Handle : net'.os[g] = IF g = net.socket[c] THEN None ELSE net.os[g]
                        /\ net'.foreign => \/ net.foreign
                                           \/ net.socket[c] \in Handle /\ net.os[net.socket[c]] \notin {None, n}
                        /\ net'.recvRef[c] \in {Dec(net.recvRef[c]), Inc(Dec(net.recvRef[c]))}
                        /\ net'.recvRef[c] = 0 => Equal(y, Here')
                        /\ net'.recvRef[c] # 0 => More(y, Here', c, "recv", n)
<1> DEFINE e == Head(net.port)
           c == e.obj
           n == e.conn
           s == [Popped EXCEPT !.recvRef[c] = Dec(@)]
           q == [s EXCEPT !.queued = @ \cup {c}]
           f == [q EXCEPT !.recvRef[c] = Inc(@)]
           y == Ways(s, worker)
<1>1. /\ net.port # << >> /\ e.op = "recv"
      /\ worker' = worker /\ UNCHANGED <<poolVars, setting, accept>>
  BY Zenon DEF DoRecv, Take
<1>2. \/ net' = Disconnect(s, c, n)
      \/ Usable(q, c) /\ net' = StartRecv(q, c)
      \/ net' = Disconnect(f, c, n)
  BY Zenon DEF DoRecv
<1>3. /\ Popped \in Rec /\ e \in Completion /\ Sockets(net, Popped) /\ Frame(net, Popped)
      /\ Less(Here, Ways(Popped, worker), c, e.op, n)
  BY <1>1, PoppedSum, Zenon
<1>4. c \in Slot /\ n \in Conn
  BY <1>3, CompletionType, Zenon
<1>5. Popped \in Rec
  BY <1>3, Zenon
<1> HIDE DEF c, n, e
<1>6. Popped.recvRef \in [Slot -> 0..RefSize - 1]
  BY <1>5, Zenon DEF Rec
<1>7. [Popped.recvRef EXCEPT ![c] = Dec(@)] \in [Slot -> 0..RefSize - 1]
  BY <1>4, <1>6, IncDecType, Zenon
<1>8. /\ s \in Rec /\ Sockets(Popped, s) /\ s.recvRef = [Popped.recvRef EXCEPT ![c] = Dec(@)]
      /\ s.sendRef = Popped.sendRef /\ s.param = Popped.param /\ s.buffer = Popped.buffer
      /\ s.queued = Popped.queued /\ s.pending = Popped.pending /\ s.port = Popped.port
  BY <1>5, <1>7, Zenon DEF Rec, Sockets
<1> HIDE DEF s
<1>9. s.queued \cup {c} \in SUBSET Slot
  BY <1>4, <1>8, Zenon DEF Rec
<1>10. /\ q \in Rec /\ Sockets(s, q) /\ q.recvRef = s.recvRef
       /\ q.sendRef = s.sendRef /\ q.param = s.param /\ q.buffer = s.buffer
       /\ q.queued = s.queued \cup {c} /\ q.pending = s.pending /\ q.port = s.port
  BY <1>8, <1>9, Zenon DEF Rec, Sockets
<1> HIDE DEF q
<1>11. s.recvRef \in [Slot -> 0..RefSize - 1]
  BY <1>8, Zenon DEF Rec
<1>12. [q.recvRef EXCEPT ![c] = Inc(@)] \in [Slot -> 0..RefSize - 1]
  BY <1>4, <1>10, <1>11, IncDecType, Zenon
<1>13. /\ f \in Rec /\ Sockets(q, f) /\ f.recvRef = [q.recvRef EXCEPT ![c] = Inc(@)]
       /\ f.sendRef = q.sendRef /\ f.param = q.param /\ f.buffer = q.buffer
       /\ f.queued = q.queued /\ f.pending = q.pending /\ f.port = q.port
  BY <1>10, <1>12, Zenon DEF Rec, Sockets
<1> HIDE DEF f
<1>14. net.recvRef \in [Slot -> 0..RefSize - 1]
  BY Zenon DEF Types, Rec
<1>15. /\ \A d \in Slot \ {c} : /\ s.recvRef[d] = net.recvRef[d] /\ q.recvRef[d] = net.recvRef[d]
                                /\ f.recvRef[d] = net.recvRef[d]
       /\ s.recvRef[c] = Dec(net.recvRef[c]) /\ q.recvRef[c] = Dec(net.recvRef[c])
       /\ f.recvRef[c] = Inc(Dec(net.recvRef[c]))
  BY <1>3, <1>4, <1>8, <1>10, <1>11, <1>13, <1>14 DEF Frame
<1>16. s \in Rec /\ q \in Rec /\ f \in Rec /\ Sockets(net, s) /\ Sockets(net, q) /\ Sockets(net, f)
  BY <1>3, <1>5, <1>8, <1>10, <1>13, Zenon DEF Sockets
<1>17. /\ \A r \in {s, q, f} : r.sendRef = net.sendRef /\ r.param = net.param /\ r.buffer = net.buffer
       /\ s.queued = net.queued /\ q.queued = net.queued \cup {c} /\ f.queued = net.queued \cup {c}
  BY <1>3, <1>8, <1>10, <1>13, Zenon DEF Frame
<1>18. Ways(q, worker) = y /\ Ways(f, worker) = y /\ Less(Here, y, c, "recv", n)
  BY <1>1, <1>3, <1>8, <1>10, <1>13, Zenon DEF Ways
<1>19. Here' = Ways(net', worker)
  BY <1>1, Zenon DEF Here
<1> HIDE DEF y
<1>20. ASSUME NEW r \in {s, f}, net' = Disconnect(r, c, n)
       PROVE  /\ net' \in Rec /\ net'.sendRef = net.sendRef /\ net'.param = net.param
              /\ net'.buffer = net.buffer /\ net'.last = net.last /\ net'.late = net.late
              /\ \A d \in Slot \ {c} : net'.recvRef[d] = net.recvRef[d]
              /\ net'.queued \in {net.queued, net.queued \cup {c}}
              /\ net'.socket = [net.socket EXCEPT ![c] = None]
              /\ \A g \in Handle : net'.os[g] = IF g = net.socket[c] THEN None ELSE net.os[g]
              /\ net'.foreign => \/ net.foreign
                                 \/ net.socket[c] \in Handle /\ net.os[net.socket[c]] \notin {None, n}
              /\ net'.recvRef[c] \in {Dec(net.recvRef[c]), Inc(Dec(net.recvRef[c]))}
              /\ net'.recvRef[c] = 0 => Equal(y, Here')
              /\ net'.recvRef[c] # 0 => More(y, Here', c, "recv", n)
  <2>1. /\ r \in Rec /\ Sockets(net, r) /\ Ways(r, worker) = y
        /\ r.sendRef = net.sendRef /\ r.param = net.param /\ r.buffer = net.buffer
        /\ r.queued \in {net.queued, net.queued \cup {c}}
        /\ r.recvRef[c] \in {Dec(net.recvRef[c]), Inc(Dec(net.recvRef[c]))}
        /\ \A d \in Slot \ {c} : r.recvRef[d] = net.recvRef[d]
    BY <1>15, <1>16, <1>17, <1>18, <1>20, Zenon DEF y
  <2>2. /\ Shuts(r, net', r.socket[c], n) /\ net'.socket = [r.socket EXCEPT ![c] = None]
        /\ r.recvRef[c] = 0 => \A k : Equal(Ways(r, k), Ways(net', k))
        /\ r.recvRef[c] # 0 => \A k : More(Ways(r, k), Ways(net', k), c, "recv", n)
    BY <1>4, <1>20, <2>1, DisconnectSum, ZenonT(40)
  <2>3. Frame(r, net') /\ net' \in Rec
    BY <2>2, Zenon DEF Shuts
  <2>4. /\ net'.recvRef[c] = 0 => Equal(y, Here')
        /\ net'.recvRef[c] # 0 => More(y, Here', c, "recv", n)
    BY <1>19, <2>1, <2>2, <2>3, Zenon DEF Frame
  <2>5. /\ net'.socket = [net.socket EXCEPT ![c] = None]
        /\ \A g \in Handle : net'.os[g] = IF g = net.socket[c] THEN None ELSE net.os[g]
        /\ net'.foreign => \/ net.foreign
                           \/ net.socket[c] \in Handle /\ net.os[net.socket[c]] \notin {None, n}
    BY <2>1, <2>2 DEF Shuts, Sockets
  <2>6. net'.last = net.last /\ net'.late = net.late
    BY <2>1, <2>3, Zenon DEF Frame, Sockets
  <2> QED  BY <2>1, <2>3, <2>4, <2>5, <2>6, Zenon DEF Frame
<1>21. CASE Usable(q, c) /\ net' = StartRecv(q, c)
  <2>1. /\ net' \in Rec /\ Sockets(q, net')
        /\ net'.recvRef = [q.recvRef EXCEPT ![c] = Inc(@)]
        /\ net'.sendRef = q.sendRef /\ net'.param = q.param /\ net'.buffer = q.buffer
        /\ net'.queued = q.queued
        /\ \A k : More(Ways(q, k), Ways(net', k), c, "recv", q.os[q.socket[c]])
    BY <1>4, <1>16, <1>21, StartRecvSum, Zenon
  <2>2. Sockets(net, net') /\ net'.last = net.last /\ net'.late = net.late
    BY <1>16, <2>1, Zenon DEF Sockets
  <2>3. Usable(net, c) /\ q.os[q.socket[c]] = net.os[net.socket[c]]
    BY <1>16, <1>21, Zenon DEF Sockets, Usable
  <2>4. More(y, Here', c, "recv", net.os[net.socket[c]])
    BY <1>18, <1>19, <2>1, <2>3, Zenon
  <2>5. /\ net'.recvRef[c] = Inc(Dec(net.recvRef[c]))
        /\ \A d \in Slot \ {c} : net'.recvRef[d] = net.recvRef[d]
    BY <1>4, <1>10, <1>11, <1>15, <2>1, Zenon
  <2> QED  BY <1>1, <1>3, <1>17, <1>18, <2>1, <2>2, <2>3, <2>4, <2>5, Zenon DEF c, n, e
<1>22. CASE net' = Disconnect(s, c, n) \/ net' = Disconnect(f, c, n)
  <2>1. PICK r \in {s, f} : net' = Disconnect(r, c, n)
    BY <1>22, Zenon
  <2> QED  BY <1>1, <1>3, <1>18, <1>20, <2>1, Zenon DEF c, n, e
<1> QED  BY <1>2, <1>21, <1>22, Zenon

LEMMA BindSum ==
    ASSUME Types, NEW c \in Slot, Bind(c)
    PROVE  /\ c \in net.queued /\ UNCHANGED <<poolVars, setting, accept, worker>>
           /\ net' \in Rec /\ Sockets(net, net') /\ Equal(Here, Here')
           /\ net'.queued = net.queued \ {c} /\ net'.param = [net.param EXCEPT ![c] = TRUE]
           /\ net'.sendRef = net.sendRef /\ net'.recvRef = net.recvRef /\ net'.buffer = net.buffer
<1>1. /\ c \in net.queued /\ UNCHANGED <<poolVars, setting, accept, worker>>
      /\ net' = [net EXCEPT !.queued = @ \ {c}, !.param[c] = TRUE]
  BY Zenon DEF Bind
<1>2. net \in Rec
  BY Zenon DEF Types
<1>3. net.param \in [Slot -> BOOLEAN]
  BY <1>2, Zenon DEF Rec
<1>4. [net.param EXCEPT ![c] = TRUE] \in [Slot -> BOOLEAN]
  BY <1>3, Zenon
<1>5. /\ net' \in Rec /\ Sockets(net, net') /\ net'.pending = net.pending /\ net'.port = net.port
      /\ net'.queued = net.queued \ {c} /\ net'.param = [net.param EXCEPT ![c] = TRUE]
      /\ net'.sendRef = net.sendRef /\ net'.recvRef = net.recvRef /\ net'.buffer = net.buffer
  BY <1>1, <1>2, <1>4, Zenon DEF Rec, Sockets
<1>6. Here' = Here
  BY <1>1, <1>5, Zenon DEF Here, Ways
<1> QED  BY <1>1, <1>2, <1>5, <1>6, Zenon DEF Equal

LEMMA WriteSum ==
    ASSUME Types, NEW c \in Slot, Write(c)
    PROVE  /\ setting.sends /\ net.param[c] /\ net.sendRef[c] = 0
           /\ UNCHANGED <<poolVars, setting, accept, worker>>
           /\ net' \in Rec /\ Sockets(net, net')
           /\ net'.sendRef = [net.sendRef EXCEPT ![c] = 1] /\ net'.buffer = [net.buffer EXCEPT ![c] = TRUE]
           /\ net'.recvRef = net.recvRef /\ net'.param = net.param /\ net'.queued = net.queued
           /\ \/ Usable(net, c) /\ More(Here, Here', c, "send", net.os[net.socket[c]])
              \/ Equal(Here, Here')
<1>1. /\ setting.sends /\ net.param[c] /\ net.sendRef[c] = 0
      /\ UNCHANGED <<poolVars, setting, accept, worker>> /\ net' = StartSend(net, c)
  BY Zenon DEF Write
<1>2. net \in Rec /\ net.sendRef \in [Slot -> 0..RefSize - 1]
  BY Zenon DEF Types, Rec
<1>3. /\ net' \in Rec /\ Sockets(net, net')
      /\ net'.sendRef = [net.sendRef EXCEPT ![c] = Inc(@)] /\ net'.buffer = [net.buffer EXCEPT ![c] = TRUE]
      /\ net'.recvRef = net.recvRef /\ net'.param = net.param /\ net'.queued = net.queued
      /\ Usable(net, c) => \A k : More(Ways(net, k), Ways(net', k), c, "send", net.os[net.socket[c]])
      /\ ~Usable(net, c) => \A k : Equal(Ways(net, k), Ways(net', k))
  BY <1>1, <1>2, StartSendSum
<1>4. Inc(net.sendRef[c]) = 1
  BY <1>1, <1>2, IncDecType, Zenon
<1>5. net'.sendRef = [net.sendRef EXCEPT ![c] = 1]
  BY <1>3, <1>4, Zenon
<1>6. Here' = Ways(net', worker)
  BY <1>1, Zenon DEF Here
<1> QED  BY <1>1, <1>3, <1>5, <1>6, Zenon DEF Here

LEMMA HeartbeatOverSum ==
    ASSUME Types, NEW c \in Slot, HeartbeatOver(c)
    PROVE  /\ UNCHANGED <<poolVars, setting, accept, worker>>
           /\ net' \in Rec /\ net.param[c] /\ net.socket[c] # None
           /\ \A g \in Handle : net'.os[g] = IF g = net.socket[c] THEN None ELSE net.os[g]
           /\ net'.foreign => net.foreign
           /\ net'.socket = [net.socket EXCEPT ![c] = None]
           /\ Frame(net, net') /\ Equal(Here, Here')
<1>1. /\ UNCHANGED <<setting, accept, worker>> /\ net.param[c] /\ net.socket[c] # None
      /\ TryRelease(net, c, net.os[net.socket[c]])
  BY Zenon DEF HeartbeatOver
<1> DEFINE n == net.os[net.socket[c]]
<1>2. net \in Rec /\ net.buffer \in [Slot -> BOOLEAN]
  BY Zenon DEF Types, Rec
<1>3. n = net.os[net.socket[c]]
  BY Zenon
<1> HIDE DEF n
<1>4. /\ net' \in Rec
      /\ \A g \in Handle : net'.os[g] = IF g = net.socket[c] THEN None ELSE net.os[g]
      /\ net'.foreign => net.foreign \/ (net.socket[c] \in Handle /\ net.os[net.socket[c]] \notin {None, n})
      /\ net'.socket = [net.socket EXCEPT ![c] = None]
      /\ net'.buffer = [net.buffer EXCEPT ![c] = @ /\ net.param[c]]
      /\ net'.late = (net.late \/ GoesLate(net, c))
      /\ net'.sendRef = net.sendRef /\ net'.recvRef = net.recvRef /\ net'.param = net.param
      /\ net'.queued = net.queued /\ net'.last = net.last
      /\ \A k : Equal(Ways(net, k), Ways(net', k))
      /\ IF net.param[c] THEN UNCHANGED poolVars ELSE SetFreeObject(c)
  BY <1>1, <1>2, <1>3, TryReleaseSum, SMTT(30)
<1>5. net'.buffer = net.buffer
  BY <1>1, <1>2, <1>4
<1>6. net'.late = net.late
  BY <1>1, <1>2, <1>4, Zenon DEF GoesLate, Rec
<1>7. Equal(Here, Here')
  BY <1>1, <1>4, Zenon DEF Here
<1> QED  BY <1>1, <1>3, <1>4, <1>5, <1>6, <1>7, Zenon DEF Frame

LEMMA SessionReleaseSum ==
    ASSUME Types, NEW c \in Slot, SessionRelease(c)
    PROVE  /\ UNCHANGED <<setting, accept, worker>> /\ SetFreeObject(c)
           /\ net.param[c] /\ net.socket[c] = None /\ (setting.prompt \/ ~UnderWay(c))
           /\ net' \in Rec /\ Equal(Here, Here')
           /\ \A g \in Handle : net'.os[g] = net.os[g]
           /\ net'.foreign => net.foreign
           /\ net'.socket = net.socket
           /\ net'.param = [net.param EXCEPT ![c] = FALSE]
           /\ net'.buffer = [net.buffer EXCEPT ![c] = FALSE]
           /\ net'.late = (net.late \/ c \in net.queued)
           /\ net'.sendRef = net.sendRef /\ net'.recvRef = net.recvRef
           /\ net'.queued = net.queued /\ net'.last = net.last
<1> DEFINE s == [net EXCEPT !.param[c] = FALSE]
<1>1. /\ UNCHANGED <<setting, accept, worker>> /\ net.param[c] /\ net.socket[c] = None
      /\ (setting.prompt \/ ~UnderWay(c)) /\ TryRelease(s, c, None)
  BY Zenon DEF SessionRelease
<1>2. net \in Rec
  BY Zenon DEF Types
<1>3. net.param \in [Slot -> BOOLEAN] /\ net.buffer \in [Slot -> BOOLEAN] /\ net.socket \in [Slot -> Handle \cup {None}]
  BY <1>2, Zenon DEF Rec
<1>4. [net.param EXCEPT ![c] = FALSE] \in [Slot -> BOOLEAN]
  BY <1>3, Zenon
<1>5. /\ s \in Rec /\ s.param = [net.param EXCEPT ![c] = FALSE]
      /\ s.pending = net.pending /\ s.port = net.port /\ s.os = net.os /\ s.socket = net.socket
      /\ s.sendRef = net.sendRef /\ s.recvRef = net.recvRef /\ s.buffer = net.buffer
      /\ s.queued = net.queued /\ s.last = net.last /\ s.foreign = net.foreign /\ s.late = net.late
  BY <1>2, <1>4, Zenon DEF Rec
<1> HIDE DEF s
<1>6. s \in Rec /\ ~s.param[c] /\ GoesLate(s, c) = (c \in net.queued)
  BY <1>2, <1>3, <1>5, SMTT(30) DEF GoesLate
<1>7. /\ net' \in Rec
      /\ \A g \in Handle : net'.os[g] = IF g = s.socket[c] THEN None ELSE s.os[g]
      /\ net'.foreign => s.foreign \/ (s.socket[c] \in Handle /\ s.os[s.socket[c]] \notin {None, None})
      /\ net'.socket = [s.socket EXCEPT ![c] = None]
      /\ net'.buffer = [s.buffer EXCEPT ![c] = @ /\ s.param[c]]
      /\ net'.late = (s.late \/ GoesLate(s, c))
      /\ net'.sendRef = s.sendRef /\ net'.recvRef = s.recvRef /\ net'.param = s.param
      /\ net'.queued = s.queued /\ net'.last = s.last
      /\ \A k : Equal(Ways(s, k), Ways(net', k))
      /\ IF s.param[c] THEN UNCHANGED poolVars ELSE SetFreeObject(c)
  BY <1>1, <1>6, TryReleaseSum
<1>8. net'.buffer = [net.buffer EXCEPT ![c] = FALSE]
  BY <1>3, <1>5, <1>6, <1>7, Zenon
<1>9. net'.socket = net.socket
  BY <1>1, <1>3, <1>5, <1>7, SMTT(30)
<1>10. /\ \A g \in Handle : net'.os[g] = net.os[g]
       /\ net'.foreign => net.foreign
  BY <1>1, <1>5, <1>7, NoneIsNoHandle
<1>11. Equal(Here, Here')
  BY <1>1, <1>5, <1>7, Zenon DEF Here, Ways
<1> QED  BY <1>1, <1>5, <1>6, <1>7, <1>8, <1>9, <1>10, <1>11, Zenon

LEMMA CompleteSum ==
    ASSUME Types, NEW o \in net.pending, NEW kind \in {"packet", "zero", "failed"}, Complete(o, kind)
    PROVE  /\ UNCHANGED <<poolVars, setting, accept, worker>>
           /\ net' \in Rec /\ Sockets(net, net') /\ Frame(net, net') /\ Equal(Here, Here')
<1> DEFINE e == [kind |-> kind, op |-> o.op, obj |-> o.obj, conn |-> o.conn]
           f == <<e>>
<1>1. /\ UNCHANGED <<poolVars, setting, accept, worker>>
      /\ net' = [net EXCEPT !.pending = @ \ {o}, !.port = Append(@, e)]
  BY Zenon DEF Complete
<1>2. net \in Rec
  BY Zenon DEF Types
<1>3. net.port \in Seq(Completion) /\ net.pending \in SUBSET Operation
  BY <1>2, Zenon DEF Rec
<1>4. e \in Completion
  BY <1>3, Zenon DEF Completion, Operation
<1>5. e.obj = o.obj /\ e.op = o.op /\ e.conn = o.conn
  BY Zenon
<1> HIDE DEF e
<1>6. /\ Append(net.port, e) \in Seq(Completion) /\ net.pending \ {o} \in SUBSET Operation
     
  BY <1>2, <1>3, <1>4
<1>7. /\ net' \in Rec /\ net'.pending = net.pending \ {o} /\ net'.port = Append(net.port, e)
      /\ Sockets(net, net') /\ Frame(net, net')
  BY <1>1, <1>2, <1>6, Zenon DEF Rec, Sockets, Frame
<1>8. f \in Seq(Completion) /\ DOMAIN f = {1} /\ f[1] = e
  BY <1>4
<1>9. net.port \o f = Append(net.port, e)
  BY <1>3, <1>4
<1> HIDE DEF f
<1>10. \A i \in DOMAIN f : f[i].obj = o.obj /\ f[i].op = o.op /\ f[i].conn = o.conn
  BY <1>5, <1>8, Zenon
<1>11. /\ \A p \in {o} : \E i \in DOMAIN f : f[i].obj = p.obj /\ f[i].op = p.op /\ f[i].conn = p.conn
       /\ \A i \in DOMAIN f : \E p \in {o} : f[i].obj = p.obj /\ f[i].op = p.op /\ f[i].conn = p.conn
       /\ \A i, j \in DOMAIN f : i = j
       /\ {o} \in SUBSET net.pending
  BY <1>8, <1>10, Zenon
<1>12. Equal(<<net.pending, net.port, worker>>, <<net.pending \ {o}, net.port \o f, worker>>)
  BY <1>3, <1>8, <1>11, CutEqual, Zenon
<1>13. Equal(Here, Here')
  BY <1>1, <1>7, <1>9, <1>12, Zenon DEF Here, Ways
<1> QED  BY <1>1, <1>6, <1>7, <1>13, Zenon

LEMMA AcceptRecvSum ==
    ASSUME Types, AcceptRecv
    PROVE  LET c == accept.obj IN
           /\ accept # NotAccepting /\ c \in Slot /\ accept' = NotAccepting
           /\ UNCHANGED <<setting, worker>> /\ net' \in Rec
           /\ net'.sendRef = net.sendRef /\ net'.param = net.param /\ net'.buffer = net.buffer
           /\ net'.queued = net.queued /\ net'.last = net.last /\ net'.socket = net.socket
           /\ \A d \in Slot \ {c} : net'.recvRef[d] = net.recvRef[d]
           /\ \/ /\ Usable(net, c) /\ Sockets(net, net') /\ UNCHANGED poolVars
                 /\ net'.recvRef[c] = Inc(net.recvRef[c])
                 /\ More(Here, Here', c, "recv", net.os[net.socket[c]])
              \/ /\ setting.faults \/ ~Usable(net, c)
                 /\ Equal(Here, Here') /\ SetFreeObject(c)
                 /\ \A g \in Handle : net'.os[g] = IF g = accept.handle THEN None ELSE net.os[g]
                 /\ net'.foreign => net.foreign \/ net.os[accept.handle] \notin {None, accept.conn}
                 /\ net'.late = (net.late \/ c \in net.queued)
<1> DEFINE c == accept.obj
<1>1. accept # NotAccepting /\ accept' = NotAccepting /\ UNCHANGED <<setting, worker>>
  BY Zenon DEF AcceptRecv
<1>2. c \in Slot /\ accept.handle \in Handle /\ accept.conn \in Conn
  BY <1>1, Zenon DEF Types, Acceptor
<1>3. net \in Rec
  BY Zenon DEF Types
<1>4. net.recvRef \in [Slot -> 0..RefSize - 1] /\ net.late \in BOOLEAN
  BY <1>3, Zenon DEF Rec
<1> HIDE DEF c
<1>5. CASE Usable(net, c) /\ net' = StartRecv(net, c) /\ UNCHANGED poolVars
  <2>1. /\ net' \in Rec /\ Sockets(net, net')
        /\ net'.recvRef = [net.recvRef EXCEPT ![c] = Inc(@)]
        /\ net'.sendRef = net.sendRef /\ net'.param = net.param /\ net'.buffer = net.buffer
        /\ net'.queued = net.queued
        /\ \A k : More(Ways(net, k), Ways(net', k), c, "recv", net.os[net.socket[c]])
    BY <1>2, <1>3, <1>5, StartRecvSum, Zenon
  <2>2. More(Here, Here', c, "recv", net.os[net.socket[c]])
    BY <1>1, <2>1, Zenon DEF Here
  <2>3. /\ net'.recvRef[c] = Inc(net.recvRef[c])
        /\ \A d \in Slot \ {c} : net'.recvRef[d] = net.recvRef[d]
    BY <1>2, <1>4, <2>1, Zenon
  <2> QED  BY <1>1, <1>2, <1>5, <2>1, <2>2, <2>3, Zenon DEF Sockets, c
<1>6. ASSUME setting.faults \/ ~Usable(net, c), SetFreeObject(c),
             NEW ref \in {net.recvRef[c], Inc(net.recvRef[c])},
             net' = CloseSocket([net EXCEPT !.recvRef[c] = ref, !.late = @ \/ c \in net.queued],
                                accept.handle, accept.conn)
      PROVE  /\ net' \in Rec /\ Equal(Here, Here')
             /\ net'.sendRef = net.sendRef /\ net'.param = net.param /\ net'.buffer = net.buffer
             /\ net'.queued = net.queued /\ net'.last = net.last /\ net'.socket = net.socket
             /\ \A d \in Slot \ {c} : net'.recvRef[d] = net.recvRef[d]
             /\ \A g \in Handle : net'.os[g] = IF g = accept.handle THEN None ELSE net.os[g]
             /\ net'.foreign => net.foreign \/ net.os[accept.handle] \notin {None, accept.conn}
             /\ net'.late = (net.late \/ c \in net.queued)
  <2> DEFINE s == [net EXCEPT !.recvRef[c] = ref, !.late = @ \/ c \in net.queued]
  <2>1. ref \in 0..RefSize - 1
    BY <1>2, <1>4, <1>6, IncDecType, Zenon
  <2>2. [net.recvRef EXCEPT ![c] = ref] \in [Slot -> 0..RefSize - 1] /\ (net.late \/ c \in net.queued) \in BOOLEAN
    BY <1>4, <2>1, Zenon
  <2>3. /\ s \in Rec /\ s.recvRef = [net.recvRef EXCEPT ![c] = ref] /\ s.late = (net.late \/ c \in net.queued)
        /\ s.pending = net.pending /\ s.port = net.port /\ s.os = net.os /\ s.socket = net.socket
        /\ s.sendRef = net.sendRef /\ s.buffer = net.buffer /\ s.param = net.param
        /\ s.queued = net.queued /\ s.last = net.last /\ s.foreign = net.foreign
    BY <1>3, <2>2, Zenon DEF Rec
  <2>4. net' = CloseSocket(s, accept.handle, accept.conn)
    BY <1>6, Zenon
  <2> HIDE DEF s
  <2>5. s \in Rec /\ Ways(s, worker) = Here
    BY <1>3, <2>3, Zenon DEF Ways, Here
  <2>6. /\ Shuts(s, net', accept.handle, accept.conn) /\ net'.socket = s.socket
        /\ \A k : Equal(Ways(s, k), Ways(net', k))
    BY <1>2, <2>4, <2>5, CloseSum, Zenon
  <2>7. Equal(Here, Here')
    BY <1>1, <2>5, <2>6, Zenon DEF Here
  <2>8. Frame(s, net')
    BY <2>6, Zenon DEF Shuts
  <2>9. \A d \in Slot \ {c} : net'.recvRef[d] = net.recvRef[d]
    BY <1>2, <1>4, <2>3, <2>8, Zenon DEF Frame
  <2>10. /\ net' \in Rec
         /\ \A g \in Handle : net'.os[g] = IF g = accept.handle THEN None ELSE net.os[g]
         /\ net'.foreign => net.foreign \/ net.os[accept.handle] \notin {None, accept.conn}
    BY <2>3, <2>6, Zenon DEF Shuts
  <2> QED  BY <2>3, <2>6, <2>7, <2>8, <2>9, <2>10, Zenon DEF Frame
<1>7. \/ Usable(net, c) /\ net' = StartRecv(net, c) /\ UNCHANGED poolVars
      \/ /\ setting.faults \/ ~Usable(net, c)
         /\ \E ref \in {net.recvRef[c], Inc(net.recvRef[c])} :
               net' = CloseSocket([net EXCEPT !.recvRef[c] = ref, !.late = @ \/ c \in net.queued],
                                  accept.handle, accept.conn)
         /\ SetFreeObject(c)
  BY Zenon DEF AcceptRecv, c
<1> QED  BY <1>1, <1>2, <1>5, <1>6, <1>7, Zenon DEF c

LEMMA AcceptSum ==
    ASSUME Types, PoolInv, NEW h \in Handle, Accept(h)
    PROVE  LET c == ret'[1]
               n == net.last + 1
           IN  /\ c \in Slot /\ c \notin usedList /\ usedList' = usedList \cup {c} /\ n \in Conn
               /\ UNCHANGED <<setting, worker>> /\ net' \in Rec /\ Here' = Here
               /\ net.os[h] = None /\ (setting.handles \/ h = n)
               /\ accept' = [obj |-> c, conn |-> n, handle |-> h]
               /\ net'.os = [net.os EXCEPT ![h] = n] /\ net'.socket = [net.socket EXCEPT ![c] = h]
               /\ net'.last = n /\ net'.foreign = net.foreign /\ net'.late = net.late
               /\ net'.sendRef = net.sendRef /\ net'.recvRef = net.recvRef /\ net'.param = net.param
               /\ net'.buffer = net.buffer /\ net'.queued = net.queued
<1> DEFINE c == ret'[1]
           n == net.last + 1
<1>1. /\ net.last < MaxConns /\ net.os[h] = None /\ (setting.handles \/ h = net.last + 1)
      /\ GetFreeObject /\ UNCHANGED <<setting, worker>>
      /\ net' = [net EXCEPT !.os[h] = n, !.last = n, !.socket[c] = h]
      /\ accept' = [obj |-> c, conn |-> n, handle |-> h]
  BY Zenon DEF Accept
<1>2. c \in Slot /\ c \notin usedList /\ usedList' = usedList \cup {c}
  BY <1>1, GotFresh, Zenon
<1>3. net \in Rec
  BY Zenon DEF Types
<1>4. /\ net.os \in [Handle -> Conn \cup {None}] /\ net.socket \in [Slot -> Handle \cup {None}]
      /\ net.last \in 0..MaxConns
  BY <1>3, Zenon DEF Rec
<1>5. n \in Conn /\ n \in 0..MaxConns
  BY <1>1, <1>4, ConnectionsAssumption DEF Conn
<1> HIDE DEF c, n
<1>6. /\ [net.os EXCEPT ![h] = n] \in [Handle -> Conn \cup {None}]
      /\ [net.socket EXCEPT ![c] = h] \in [Slot -> Handle \cup {None}]
  BY <1>2, <1>4, <1>5, Zenon
<1>7. /\ net' \in Rec /\ net'.pending = net.pending /\ net'.port = net.port
      /\ net'.os = [net.os EXCEPT ![h] = n] /\ net'.socket = [net.socket EXCEPT ![c] = h]
      /\ net'.last = n /\ net'.foreign = net.foreign /\ net'.late = net.late
      /\ net'.sendRef = net.sendRef /\ net'.recvRef = net.recvRef /\ net'.param = net.param
      /\ net'.buffer = net.buffer /\ net'.queued = net.queued
  BY <1>1, <1>3, <1>5, <1>6, Zenon DEF Rec
<1>8. Here' = Here
  BY <1>1, <1>7, Zenon DEF Here, Ways
<1> QED  BY <1>1, <1>2, <1>3, <1>5, <1>7, <1>8, Zenon DEF c, n

(* The step of an action of the network or the sessions.                   *)
LEMMA ObjectIsSlot == PoolInv => Object \subseteq Slot
<1> SUFFICES ASSUME PoolInv PROVE Object \subseteq Slot
  BY Zenon
<1>1. poolCount \in 0..MaxPool /\ MaxPool \in Nat
  BY PoolAssumption, Zenon DEF PoolInv, PoolTypeOK
<1> QED  BY <1>1 DEF Object, Slot

LEMMA TypesKept ==
    ASSUME Types, PoolInv, [Next]_vars
    PROVE  Types'
<1>1. ASSUME NEW h \in Handle, Accept(h) PROVE Types'
  <2>1. /\ ret'[1] \in Slot /\ net.last + 1 \in Conn /\ UNCHANGED <<setting, worker>> /\ net' \in Rec
        /\ accept' = [obj |-> ret'[1], conn |-> net.last + 1, handle |-> h]
    BY <1>1, AcceptSum, Zenon
  <2>2. accept' \in Acceptor
    BY <2>1, Zenon DEF Acceptor
  <2> QED  BY <2>1, <2>2, Zenon DEF Types
<1>2. CASE AcceptRecv
  <2>1. accept' = NotAccepting /\ UNCHANGED <<setting, worker>> /\ net' \in Rec
    BY <1>2, AcceptRecvSum, Zenon
  <2> QED  BY <2>1, Zenon DEF Types, Acceptor
<1>3. ASSUME NEW o \in net.pending, NEW kind \in {"packet", "zero", "failed"}, Complete(o, kind)
      PROVE  Types'
  <2>1. UNCHANGED <<setting, accept, worker>> /\ net' \in Rec
    BY <1>3, CompleteSum, Zenon
  <2> QED  BY <2>1, Zenon DEF Types
<1>4. ASSUME NEW w \in Worker, WorkerThread(w) PROVE Types'
  <2>1. CASE Failed(w)
    <3>1. UNCHANGED <<setting, accept, worker>> /\ net' \in Rec
      BY <2>1, FailedSum, Zenon DEF Shuts
    <3> QED  BY <3>1, Zenon DEF Types
  <2>2. CASE Closed(w)
    <3> DEFINE e == Head(net.port)
    <3>1. /\ UNCHANGED <<setting, accept>> /\ net' \in Rec /\ e \in Completion /\ e.op = "recv"
          /\ worker' = [worker EXCEPT ![w] = e]
      BY <2>2, ClosedSum, Zenon DEF Shuts
    <3> HIDE DEF e
    <3>2. worker \in [Worker -> Completion \cup {NoCompletion}]
      BY Zenon DEF Types
    <3> QED  BY <3>1, <3>2, Zenon DEF Types
  <2>3. CASE Uncounted(w)
    <3>1. UNCHANGED <<setting, accept>> /\ net' \in Rec /\ worker' = [worker EXCEPT ![w] = NoCompletion]
      BY <2>3, UncountedSum, Zenon
    <3>2. worker \in [Worker -> Completion \cup {NoCompletion}]
      BY Zenon DEF Types
    <3> QED  BY <3>1, <3>2, Zenon DEF Types
  <2>4. CASE DoSend(w)
    <3>1. UNCHANGED <<setting, accept, worker>> /\ net' \in Rec
      BY <2>4, DoSendSum, Zenon
    <3> QED  BY <3>1, Zenon DEF Types
  <2>5. CASE DoRecv(w)
    <3>1. UNCHANGED <<setting, accept, worker>> /\ net' \in Rec
      BY <2>5, DoRecvSum, Zenon
    <3> QED  BY <3>1, Zenon DEF Types
  <2> QED  BY <1>4, <2>1, <2>2, <2>3, <2>4, <2>5, Zenon DEF WorkerThread
<1>5. ASSUME NEW c \in Object, Bind(c) \/ Write(c) \/ HeartbeatOver(c) \/ SessionRelease(c)
      PROVE  Types'
  <2>1. c \in Slot
    BY ObjectIsSlot, Zenon
  <2>2. UNCHANGED <<setting, accept, worker>> /\ net' \in Rec
    BY <1>5, <2>1, BindSum, WriteSum, HeartbeatOverSum, SessionReleaseSum, Zenon
  <2> QED  BY <2>2, Zenon DEF Types
<1>6. CASE UNCHANGED netVars
  BY <1>6, Zenon DEF netVars, Types
<1>7. CASE UNCHANGED vars
  BY <1>6, <1>7, Zenon DEF vars
<1> QED  BY <1>1, <1>2, <1>3, <1>4, <1>5, <1>6, <1>7, Zenon DEF Next, NetNext

-----------------------------------------------------------------------------
(* While the scan of the sessions is slower than the completions, a send   *)
(* that is under way is the only one of its connector, is counted, and has *)
(* its buffer and the session that wrote it.                               *)
SendOf(c) ==
    /\ net.sendRef[c] \in {0, 1} /\ Sole(Here, c, "send")
    /\ \A n : Named(Here, c, "send", n) => net.param[c] /\ net.buffer[c] /\ net.sendRef[c] = 1
    /\ ~setting.sends => net.sendRef[c] = 0

SendInv == ~setting.prompt => \A c \in Slot : SendOf(c)

(* From x to y no send is new.                                             *)
NoSend(x, y) ==
    \A c : /\ Sole(x, c, "send") => Sole(y, c, "send")
           /\ \A n : Named(y, c, "send", n) => Named(x, c, "send", n)

LEMMA NoSendFrom ==
    ASSUME NEW x, NEW y, NEW z, NEW c, NEW op, NEW n
    PROVE  /\ Equal(x, y) => NoSend(x, y)
           /\ Less(x, y, c, op, n) => NoSend(x, y)
           /\ More(x, y, c, "recv", n) => NoSend(x, y)
           /\ NoSend(x, y) /\ NoSend(y, z) => NoSend(x, z)
<1>1. "recv" # "send"
  BY Zenon
<1>2. Equal(x, y) => NoSend(x, y)
  BY Zenon DEF Equal, NoSend
<1>3. Less(x, y, c, op, n) => NoSend(x, y)
  BY Zenon DEF Less, NoSend
<1>4. More(x, y, c, "recv", n) => NoSend(x, y)
  BY <1>1 DEF More, NoSend
<1>5. NoSend(x, y) /\ NoSend(y, z) => NoSend(x, z)
  BY Zenon DEF NoSend
<1> QED  BY <1>2, <1>3, <1>4, <1>5, Zenon

LEMMA SendQuiet ==
    ASSUME SendInv, setting' = setting, net'.sendRef = net.sendRef, NoSend(Here, Here'),
           \A c \in Slot : \A n : ~setting.prompt /\ Named(Here, c, "send", n) =>
              net'.param[c] = net.param[c] /\ net'.buffer[c] = net.buffer[c]
    PROVE  SendInv'
<1> SUFFICES ASSUME ~setting.prompt, NEW c \in Slot PROVE SendOf(c)'
  BY Zenon DEF SendInv
<1>1. SendOf(c)
  BY Zenon DEF SendInv
<1>2. Sole(Here, c, "send")'
  BY <1>1, Zenon DEF SendOf, NoSend
<1>3. ASSUME NEW n, Named(Here, c, "send", n)'
      PROVE  (net.param[c] /\ net.buffer[c] /\ net.sendRef[c] = 1)'
  <2>1. Named(Here, c, "send", n)
    BY <1>3, Zenon DEF NoSend
  <2> QED  BY <1>1, <2>1, Zenon DEF SendOf
<1> QED  BY <1>1, <1>2, <1>3, Zenon DEF SendOf

(* ~UnderWay says it with Named.                                           *)
LEMMA NotUnderWay ==
    ASSUME NEW c, ~UnderWay(c), NEW op, NEW n
    PROVE  ~Named(Here, c, op, n)
  BY Zenon DEF UnderWay, Named, Here, Ways, Is

LEMMA SendKept ==
    ASSUME Types, PoolInv, SendInv, [Next]_vars
    PROVE  SendInv'
<1>0. net.buffer \in [Slot -> BOOLEAN] /\ net.param \in [Slot -> BOOLEAN] /\ net.sendRef \in [Slot -> 0..RefSize - 1]
  BY Zenon DEF Types, Rec
<1>1. ASSUME NEW h \in Handle, Accept(h) PROVE SendInv'
  <2>1. /\ setting' = setting /\ Here' = Here /\ net'.sendRef = net.sendRef /\ net'.param = net.param
        /\ net'.buffer = net.buffer
    BY <1>1, AcceptSum, Zenon
  <2> QED  BY <2>1, SendQuiet, Zenon DEF NoSend
<1>2. CASE AcceptRecv
  <2>1. /\ setting' = setting /\ net'.sendRef = net.sendRef /\ net'.param = net.param
        /\ net'.buffer = net.buffer
        /\ \E n : More(Here, Here', accept.obj, "recv", n) \/ Equal(Here, Here')
    BY <1>2, AcceptRecvSum, Zenon
  <2>2. NoSend(Here, Here')
    BY <2>1, NoSendFrom, Zenon
  <2> QED  BY <2>1, <2>2, SendQuiet, Zenon
<1>3. ASSUME NEW o \in net.pending, NEW kind \in {"packet", "zero", "failed"}, Complete(o, kind)
      PROVE  SendInv'
  <2>1. setting' = setting /\ Frame(net, net') /\ Equal(Here, Here')
    BY <1>3, CompleteSum, Zenon
  <2> QED  BY <2>1, NoSendFrom, SendQuiet, Zenon DEF Frame
<1>4. ASSUME NEW w \in Worker, Failed(w) PROVE SendInv'
  <2>1. /\ setting' = setting /\ Frame(net, net')
        /\ \E y, c, op, n : /\ Less(Here, y, c, op, n)
                            /\ Equal(y, Here') \/ More(y, Here', c, "recv", n)
    BY <1>4, FailedSum, Zenon DEF Shuts
  <2>2. NoSend(Here, Here')
    BY <2>1, NoSendFrom, Zenon
  <2> QED  BY <2>1, <2>2, SendQuiet, Zenon DEF Frame
<1>5. ASSUME NEW w \in Worker, Closed(w) PROVE SendInv'
  <2>1. setting' = setting /\ Frame(net, net') /\ Equal(Here, Here')
    BY <1>5, ClosedSum, Zenon DEF Shuts
  <2> QED  BY <2>1, NoSendFrom, SendQuiet, Zenon DEF Frame
<1>6. ASSUME NEW w \in Worker, Uncounted(w) PROVE SendInv'
  <2> DEFINE c == worker[w].obj
  <2>1. /\ setting' = setting /\ net'.sendRef = net.sendRef /\ net'.param = net.param
        /\ \E n : Less(Here, Here', c, "recv", n)
        /\ net'.buffer \in {net.buffer, [net.buffer EXCEPT ![c] = @ /\ net.param[c]]}
    BY <1>6, UncountedSum, Zenon
  <2> HIDE DEF c
  <2>2. NoSend(Here, Here')
    BY <2>1, NoSendFrom, Zenon
  <2>3. \A d \in Slot : \A n : ~setting.prompt /\ Named(Here, d, "send", n) => net'.buffer[d] = net.buffer[d]
    BY <1>0, <2>1, Zenon DEF SendInv, SendOf
  <2> QED  BY <2>1, <2>2, <2>3, SendQuiet, Zenon
<1>7. ASSUME NEW w \in Worker, DoRecv(w) PROVE SendInv'
  <2>1. /\ setting' = setting /\ net'.sendRef = net.sendRef /\ net'.param = net.param
        /\ net'.buffer = net.buffer
        /\ \E y, c, n, m : /\ Less(Here, y, c, "recv", n)
                           /\ Equal(y, Here') \/ More(y, Here', c, "recv", m)
    BY <1>7, DoRecvSum, Zenon
  <2>2. NoSend(Here, Here')
    BY <2>1, NoSendFrom, Zenon
  <2> QED  BY <2>1, <2>2, SendQuiet, Zenon
<1>8. ASSUME NEW c \in Slot, Bind(c) PROVE SendInv'
  <2>1. /\ setting' = setting /\ Equal(Here, Here') /\ net'.param = [net.param EXCEPT ![c] = TRUE]
        /\ net'.sendRef = net.sendRef /\ net'.buffer = net.buffer
    BY <1>8, BindSum, Zenon
  <2>2. \A d \in Slot : \A n : ~setting.prompt /\ Named(Here, d, "send", n) => net'.param[d] = net.param[d]
    BY <1>0, <2>1, ZenonT(40) DEF SendInv, SendOf
  <2> QED  BY <2>1, <2>2, NoSendFrom, SendQuiet, Zenon
<1>9. ASSUME NEW c \in Slot, HeartbeatOver(c) PROVE SendInv'
  <2>1. setting' = setting /\ Frame(net, net') /\ Equal(Here, Here')
    BY <1>9, HeartbeatOverSum, Zenon
  <2> QED  BY <2>1, NoSendFrom, SendQuiet, Zenon DEF Frame
<1>10. ASSUME NEW c \in Slot, SessionRelease(c) PROVE SendInv'
  <2>1. /\ setting' = setting /\ Equal(Here, Here') /\ net'.param = [net.param EXCEPT ![c] = FALSE]
        /\ net'.buffer = [net.buffer EXCEPT ![c] = FALSE]
        /\ net'.sendRef = net.sendRef /\ (setting.prompt \/ ~UnderWay(c))
    BY <1>10, SessionReleaseSum, Zenon
  <2>2. \A d \in Slot : \A n : ~setting.prompt /\ Named(Here, d, "send", n) => d # c
    BY <2>1, NotUnderWay, Zenon
  <2>3. \A d \in Slot : \A n : ~setting.prompt /\ Named(Here, d, "send", n) =>
            net'.param[d] = net.param[d] /\ net'.buffer[d] = net.buffer[d]
    BY <1>0, <2>1, <2>2, Zenon
  <2> QED  BY <2>1, <2>3, NoSendFrom, SendQuiet, Zenon
<1>11. ASSUME NEW c \in Slot, Write(c) PROVE SendInv'
  <2>1. /\ setting.sends /\ net.param[c] /\ net.sendRef[c] = 0 /\ setting' = setting
        /\ net'.sendRef = [net.sendRef EXCEPT ![c] = 1] /\ net'.buffer = [net.buffer EXCEPT ![c] = TRUE]
        /\ net'.param = net.param
        /\ \E n : More(Here, Here', c, "send", n) \/ Equal(Here, Here')
    BY <1>11, WriteSum, Zenon
  <2> SUFFICES ASSUME ~setting.prompt, NEW d \in Slot PROVE SendOf(d)'
    BY <2>1, Zenon DEF SendInv
  <2>2. SendOf(d) /\ SendOf(c)
    BY Zenon DEF SendInv
  <2>3. \A n : ~Named(Here, c, "send", n)
    BY <2>1, <2>2 DEF SendOf
  <2>4. /\ Sole(Here, d, "send")'
        /\ \A n : Named(Here, d, "send", n)' => d = c \/ Named(Here, d, "send", n)
    BY <2>1, <2>2, <2>3, Zenon DEF SendOf, More, Equal
  <2>5. CASE d = c
    BY <1>0, <2>1, <2>4, <2>5, Zenon DEF SendOf
  <2>6. CASE d # c
    <3>1. net'.sendRef[d] = net.sendRef[d] /\ net'.buffer[d] = net.buffer[d]
      BY <1>0, <2>1, <2>6, Zenon
    <3> QED  BY <2>1, <2>2, <2>4, <2>6, <3>1, Zenon DEF SendOf
  <2> QED  BY <2>5, <2>6, Zenon
<1>12. ASSUME NEW w \in Worker, DoSend(w) PROVE SendInv'
  <2> DEFINE e == Head(net.port)
             c == e.obj
  <2>1. e \in Completion /\ setting' = setting
    BY <1>12, DoSendSum, Zenon
  <2>2. c \in Slot
    BY <2>1, CompletionType, Zenon
  <2>3. /\ net'.param = net.param
        /\ \A d \in Slot \ {c} : net'.sendRef[d] = net.sendRef[d] /\ net'.buffer[d] = net.buffer[d]
        /\ \E y, n, m :
              /\ Less(Here, y, c, "send", n)
              /\ \/ /\ Equal(y, Here')
                    /\ IF net.buffer[c] THEN net'.sendRef[c] = Dec(net.sendRef[c])
                       ELSE net'.sendRef[c] = net.sendRef[c]
                 \/ More(y, Here', c, "send", m) /\ net'.sendRef[c] = 1 /\ net'.buffer[c]
                 \/ /\ net'.sendRef[c] = 1 /\ net'.buffer[c]
                    /\ Equal(y, Here') \/ More(y, Here', c, "recv", n)
    BY <1>12, DoSendSum, Zenon
  <2> HIDE DEF e, c
  <2>4. PICK y, n, m :
              /\ Less(Here, y, c, "send", n)
              /\ \/ /\ Equal(y, Here')
                    /\ IF net.buffer[c] THEN net'.sendRef[c] = Dec(net.sendRef[c])
                       ELSE net'.sendRef[c] = net.sendRef[c]
                 \/ More(y, Here', c, "send", m) /\ net'.sendRef[c] = 1 /\ net'.buffer[c]
                 \/ /\ net'.sendRef[c] = 1 /\ net'.buffer[c]
                    /\ Equal(y, Here') \/ More(y, Here', c, "recv", n)
    BY <2>3, Zenon
  <2> SUFFICES ASSUME ~setting.prompt, NEW d \in Slot PROVE SendOf(d)'
    BY <2>1, Zenon DEF SendInv
  <2>5. SendOf(d) /\ SendOf(c)
    BY <2>2, Zenon DEF SendInv
  <2>6. Named(Here, c, "send", n) /\ \A k : ~Named(y, c, "send", k)
    BY <2>4, <2>5, Zenon DEF SendOf, Less
  <2>7. net.param[c] /\ net.buffer[c] /\ net.sendRef[c] = 1 /\ Dec(1) = 0 /\ setting.sends
    <3>1. net.param[c] /\ net.buffer[c] /\ net.sendRef[c] = 1
      BY <2>5, <2>6, Zenon DEF SendOf
    <3>2. Dec(1) = 0
      BY ConnectionsAssumption DEF Dec
    <3>3. setting.sends
      BY <2>5, <3>1 DEF SendOf
    <3> QED  BY <3>1, <3>2, <3>3, Zenon
  <2>8. NoSend(Here, y)
    BY <2>4, NoSendFrom, Zenon
  <2>9. CASE d # c
    <3>1. /\ Sole(y, d, "send") /\ \A k : Named(y, d, "send", k) => Named(Here, d, "send", k)
      BY <2>5, <2>8, Zenon DEF SendOf, NoSend
    <3>2. /\ Sole(Here, d, "send")' /\ \A k : Named(Here, d, "send", k)' => Named(Here, d, "send", k)
      BY <2>4, <2>9, <3>1, NoSendFrom, Zenon DEF NoSend, More, Equal
    <3> QED  BY <2>1, <2>3, <2>5, <2>9, <3>2, Zenon DEF SendOf
  <2>10. CASE d = c
    <3>1. CASE Equal(y, Here') /\ net'.sendRef[c] = 0
      <4>1. Sole(Here', c, "send") /\ \A k : ~Named(Here', c, "send", k)
        BY <2>5, <2>6, <2>8, <3>1, Zenon DEF SendOf, NoSend, Equal
      <4> QED  BY <2>10, <3>1, <4>1, Zenon DEF SendOf
    <3>2. CASE More(y, Here', c, "send", m) /\ net'.sendRef[c] = 1 /\ net'.buffer[c]
      <4>1. Sole(Here', c, "send")
        BY <2>6, <3>2, Zenon DEF More
      <4> QED  BY <2>1, <2>3, <2>7, <2>10, <3>2, <4>1, Zenon DEF SendOf
    <3>3. CASE net'.sendRef[c] = 1 /\ net'.buffer[c] /\ (Equal(y, Here') \/ More(y, Here', c, "recv", n))
      <4>1. NoSend(y, Here')
        BY <3>3, NoSendFrom, Zenon
      <4>2. Sole(Here', c, "send")
        BY <2>5, <2>8, <4>1, Zenon DEF SendOf, NoSend
      <4> QED  BY <2>1, <2>3, <2>7, <2>10, <3>3, <4>2, Zenon DEF SendOf
    <3> QED  BY <2>4, <2>7, <3>1, <3>2, <3>3, Zenon
  <2> QED  BY <2>9, <2>10, Zenon
<1>13. CASE UNCHANGED netVars
  BY <1>13, Zenon DEF netVars, SendInv, SendOf, Here
<1>14. CASE UNCHANGED vars
  BY <1>13, <1>14, Zenon DEF vars
<1> QED  BY <1>1, <1>2, <1>3, <1>4, <1>5, <1>6, <1>7, <1>8, <1>9, <1>10, <1>11, <1>12, <1>13, <1>14,
            ObjectIsSlot, Zenon DEF Next, NetNext, WorkerThread

-----------------------------------------------------------------------------
(* While moreover no connector went back with a packet still queued, what  *)
(* nobody uses is named nowhere: a connector that is free, or that is      *)
(* being accepted, has no session, no queued packet and nothing under way. *)
(* Nor has one without a session more than one receive under way.          *)
Tidy == ~setting.prompt /\ ~net.late

Vacant(c) == ~net.param[c] /\ c \notin net.queued /\ \A op, n : ~Named(Here, c, op, n)

OneRecv(c) == ~net.param[c] \/ ~setting.sends => Sole(Here, c, "recv")

StayInv ==
    Tidy => /\ \A c \in Slot \ usedList : Vacant(c)
            /\ accept # NotAccepting => accept.obj \in usedList /\ Vacant(accept.obj)
            /\ \A c \in Slot : OneRecv(c)

LEMMA OpType ==
    ASSUME Types, NEW c, NEW op, NEW n, Named(Here, c, op, n)
    PROVE  op \in {"recv", "send"}
<1>1. /\ net.pending \in SUBSET Operation /\ net.port \in Seq(Completion)
      /\ worker \in [Worker -> Completion \cup {NoCompletion}]
  BY Zenon DEF Types, Rec
<1>2. \A i \in DOMAIN net.port : net.port[i] \in Completion
  BY <1>1, SeqElement
<1>3. \A w \in Worker : worker[w] # NoCompletion => worker[w] \in Completion
  BY <1>1, Zenon
<1>4. \A o \in Operation : o.op \in {"recv", "send"}
  BY Zenon DEF Operation
<1> QED  BY <1>1, <1>2, <1>3, <1>4, CompletionType, Zenon DEF Named, Here, Ways, Is

LEMMA NoneIsSole ==
    ASSUME NEW x, NEW c, NEW op, \A n : ~Named(x, c, op, n)
    PROVE  Sole(x, c, op)
<1>1. /\ \A o \in x[1] : ~At(o, c, op)
      /\ \A i \in DOMAIN x[2] : ~At(x[2][i], c, op)
      /\ \A w \in Worker : x[3][w] # NoCompletion => ~At(x[3][w], c, op)
  BY Zenon DEF Named, At, Is
<1> QED  BY <1>1, Zenon DEF Sole

(* From x to y only what names c changes.                                  *)
Touches(x, y, c) ==
    \A d, op : d # c => /\ \A n : Named(y, d, op, n) => Named(x, d, op, n)
                        /\ Sole(x, d, op) => Sole(y, d, op)

LEMMA TouchesFrom ==
    ASSUME NEW x, NEW y, NEW z, NEW c, NEW op, NEW n
    PROVE  /\ Equal(x, y) => Touches(x, y, c)
           /\ Less(x, y, c, op, n) => Touches(x, y, c)
           /\ More(x, y, c, op, n) => Touches(x, y, c)
           /\ Touches(x, y, c) /\ Touches(y, z, c) => Touches(x, z, c)
<1>1. Equal(x, y) => Touches(x, y, c)
  BY Zenon DEF Equal, Touches
<1>2. Less(x, y, c, op, n) => Touches(x, y, c)
  BY Zenon DEF Less, Touches
<1>3. More(x, y, c, op, n) => Touches(x, y, c)
  BY Zenon DEF More, Touches
<1>4. Touches(x, y, c) /\ Touches(y, z, c) => Touches(x, z, c)
  BY Zenon DEF Touches
<1> QED  BY <1>1, <1>2, <1>3, <1>4, Zenon

(* A step about a connector that is not vacant.                            *)
LEMMA StayTouch ==
    ASSUME StayInv, UNCHANGED <<poolVars, setting, accept>>, NEW c \in Slot, ~Vacant(c),
           Touches(Here, Here', c), net'.param = net.param, net'.queued \subseteq net.queued \cup {c},
           ~net'.late => ~net.late, Tidy => OneRecv(c)'
    PROVE  StayInv'
<1> SUFFICES ASSUME Tidy'
             PROVE  (/\ \A d \in Slot \ usedList : Vacant(d)
                     /\ accept # NotAccepting => accept.obj \in usedList /\ Vacant(accept.obj)
                     /\ \A d \in Slot : OneRecv(d))'
  BY Zenon DEF StayInv
<1>1. Tidy /\ usedList' = usedList /\ accept' = accept /\ setting' = setting
  BY Zenon DEF Tidy, poolVars
<1>2. ASSUME NEW d, Vacant(d) PROVE Vacant(d)'
  <2>1. d # c
    BY <1>2, Zenon
  <2> QED  BY <1>2, <2>1, Zenon DEF Vacant, Touches
<1>3. ASSUME NEW d \in Slot PROVE OneRecv(d)'
  <2>1. CASE d # c
    BY <1>1, <2>1, Zenon DEF StayInv, OneRecv, Touches
  <2> QED  BY <1>1, <2>1, Zenon
<1>4. accept # NotAccepting => accept.obj \in usedList /\ Vacant(accept.obj)
  BY <1>1, Zenon DEF StayInv
<1> DEFINE a == accept.obj
<1>6. accept # NotAccepting => Vacant(a)'
  <2> SUFFICES ASSUME accept # NotAccepting PROVE Vacant(a)'
    BY Zenon
  <2>1. PICK d : d = a
    BY Zenon
  <2>2. Vacant(d)'
    BY <1>2, <1>4, <2>1, Zenon
  <2> QED  BY <1>1, <2>1, <2>2, Zenon
<1> QED  BY <1>1, <1>2, <1>3, <1>4, <1>6, Zenon DEF StayInv

(* A step that gives back a connector, which is vacant by then.            *)
LEMMA StayFree ==
    ASSUME StayInv, setting' = setting, NEW c \in Slot, SetFreeObject(c),
           Touches(Here, Here', c),
           \A d \in Slot \ {c} : net'.param[d] = net.param[d], net'.queued = net.queued,
           ~net'.late => ~net.late, Tidy' => Vacant(c)',
           accept' = NotAccepting \/ (accept' = accept /\ accept.obj # c /\ accept \in Acceptor)
    PROVE  StayInv'
<1> SUFFICES ASSUME Tidy'
             PROVE  (/\ \A d \in Slot \ usedList : Vacant(d)
                     /\ accept # NotAccepting => accept.obj \in usedList /\ Vacant(accept.obj)
                     /\ \A d \in Slot : OneRecv(d))'
  BY Zenon DEF StayInv
<1>1. Tidy
  BY Zenon DEF Tidy
<1>2. usedList \ {c} \subseteq usedList' /\ usedList' \subseteq usedList
  BY Zenon DEF SetFreeObject
<1>3. ASSUME NEW d \in Slot, d # c, Vacant(d) PROVE Vacant(d)'
  BY <1>3, Zenon DEF Vacant, Touches
<1>4. \A d \in Slot : d \notin usedList' => Vacant(d)'
  BY <1>1, <1>2, <1>3, Zenon DEF StayInv
<1>5. ASSUME NEW d \in Slot PROVE OneRecv(d)'
  <2>1. CASE d # c
    BY <1>1, <2>1, Zenon DEF StayInv, OneRecv, Touches
  <2>2. Sole(Here', c, "recv")
    BY NoneIsSole, Zenon DEF Vacant
  <2> QED  BY <2>1, <2>2, Zenon DEF OneRecv
<1>6. CASE accept' = NotAccepting
  BY <1>4, <1>5, <1>6, Zenon
<1>7. CASE accept' = accept /\ accept.obj # c /\ accept # NotAccepting /\ accept \in Acceptor
  <2>1. PICK d \in Slot : d = accept.obj /\ d # c
    BY <1>7, Zenon DEF Acceptor
  <2>2. d \in usedList /\ Vacant(d)
    BY <1>1, <1>7, <2>1, Zenon DEF StayInv
  <2>3. d \in usedList' /\ Vacant(d)'
    BY <1>2, <1>3, <2>1, <2>2, Zenon
  <2>4. accept.obj' = d
    BY <1>7, <2>1, Zenon
  <2> QED  BY <1>4, <1>5, <1>7, <2>3, <2>4, Zenon
<1> QED  BY <1>6, <1>7, Zenon

(* A receive is over, and at most one takes its place.                     *)
LEMMA RecvTouch ==
    ASSUME StayInv, UNCHANGED <<poolVars, setting, accept>>, NEW c \in Slot, NEW n, NEW m, NEW y,
           Less(Here, y, c, "recv", n), Equal(y, Here') \/ More(y, Here', c, "recv", m),
           net'.param = net.param, net'.queued \subseteq net.queued \cup {c}, net'.late = net.late
    PROVE  StayInv'
<1>1. Touches(Here, Here', c)
  BY TouchesFrom, Zenon
<1>2. ~Vacant(c)
  BY Zenon DEF Vacant, Less
<1>3. ASSUME Tidy PROVE OneRecv(c)'
  <2> SUFFICES ASSUME ~net.param[c] \/ ~setting.sends PROVE Sole(Here', c, "recv")
    BY Zenon DEF OneRecv
  <2>1. Sole(Here, c, "recv")
    BY <1>3, Zenon DEF StayInv, OneRecv
  <2>2. \A k : ~Named(y, c, "recv", k)
    BY <2>1, Zenon DEF Less
  <2>3. Sole(y, c, "recv")
    BY <2>1, Zenon DEF Less
  <2> QED  BY <2>2, <2>3, Zenon DEF Equal, More
<1> QED  BY <1>1, <1>2, <1>3, StayTouch, Zenon

(* A step about a connector whose session has sent.                        *)
LEMMA SendTouch ==
    ASSUME StayInv, UNCHANGED <<poolVars, setting, accept>>, NEW c \in Slot,
           ~setting.prompt => net.param[c] /\ setting.sends,
           ~Vacant(c), Touches(Here, Here', c), net'.param = net.param, net'.queued = net.queued,
           net'.late = net.late
    PROVE  StayInv'
<1>1. Tidy => OneRecv(c)'
  BY Zenon DEF Tidy, OneRecv
<1> QED  BY <1>1, StayTouch, Zenon

LEMMA EqualTouch ==
    ASSUME StayInv, UNCHANGED <<poolVars, setting, accept>>, Equal(Here, Here'),
           net'.param = net.param, net'.queued = net.queued, net'.late = net.late
    PROVE  StayInv'
<1>1. \A c : Vacant(c)' <=> Vacant(c)
  BY Zenon DEF Vacant, Equal
<1>2. \A c : OneRecv(c) => OneRecv(c)'
  BY Zenon DEF OneRecv, Equal
<1>3. Tidy' => Tidy
  BY Zenon DEF Tidy
<1> DEFINE a == accept.obj
<1>4. usedList' = usedList /\ accept' = accept /\ a' = a
  BY Zenon DEF poolVars
<1>5. Vacant(a)' <=> Vacant(a)
  <2>1. PICK d : d = a
    BY Zenon
  <2> QED  BY <1>1, <1>4, <2>1, Zenon
<1> QED  BY <1>1, <1>2, <1>3, <1>4, <1>5, Zenon DEF StayInv

LEMMA StayWorker ==
    ASSUME Types, SendInv, StayInv, NEW w \in Worker, WorkerThread(w)
    PROVE  StayInv'
<1>1. CASE Failed(w)
  <2> DEFINE e == Head(net.port)
             c == e.obj
  <2>1. /\ e \in Completion /\ UNCHANGED <<poolVars, setting, accept>> /\ Frame(net, net')
        /\ \E y : /\ Less(Here, y, c, e.op, e.conn)
                  /\ Equal(y, Here') \/ More(y, Here', c, "recv", e.conn)
    BY <1>1, FailedSum, Zenon DEF Shuts
  <2>2. c \in Slot /\ e.op \in {"recv", "send"}
    BY <2>1, CompletionType, Zenon
  <2> HIDE DEF e, c
  <2>3. PICK y : Less(Here, y, c, e.op, e.conn) /\ (Equal(y, Here') \/ More(y, Here', c, "recv", e.conn))
    BY <2>1, Zenon
  <2>4. net'.param = net.param /\ net'.queued = net.queued /\ net'.late = net.late
    BY <2>1, Zenon DEF Frame
  <2>5. CASE e.op = "recv"
    BY <2>1, <2>2, <2>3, <2>4, <2>5, RecvTouch, Zenon
  <2>6. CASE e.op = "send"
    <3>1. Named(Here, c, "send", e.conn)
      BY <2>3, <2>6, Zenon DEF Less
    <3>2. ~setting.prompt => net.param[c] /\ setting.sends
      BY <2>2, <3>1 DEF SendInv, SendOf
    <3>3. ~Vacant(c) /\ Touches(Here, Here', c)
      BY <2>3, <3>1, TouchesFrom, Zenon DEF Vacant
    <3> QED  BY <2>1, <2>2, <2>4, <3>2, <3>3, SendTouch, Zenon
  <2> QED  BY <2>2, <2>5, <2>6, Zenon
<1>2. CASE Closed(w)
  <2>1. UNCHANGED <<poolVars, setting, accept>> /\ Frame(net, net') /\ Equal(Here, Here')
    BY <1>2, ClosedSum, Zenon DEF Shuts
  <2> QED  BY <2>1, EqualTouch, Zenon DEF Frame
<1>3. CASE Uncounted(w)
  <2> DEFINE c == worker[w].obj
             n == worker[w].conn
  <2>1. /\ c \in Slot /\ UNCHANGED <<setting, accept>> /\ Less(Here, Here', c, "recv", n)
        /\ net'.param = net.param /\ net'.queued = net.queued
        /\ \/ net'.late = net.late /\ UNCHANGED poolVars
           \/ /\ net'.late = (net.late \/ GoesLate(net, c))
              /\ IF net.param[c] THEN UNCHANGED poolVars ELSE SetFreeObject(c)
    BY <1>3, UncountedSum, Zenon DEF Sockets
  <2> HIDE DEF c, n
  <2>2. Equal(Here', Here')
    BY Zenon DEF Equal
  <2>3. CASE net'.late = net.late /\ UNCHANGED poolVars
    BY <2>1, <2>2, <2>3, RecvTouch, Zenon
  <2>4. CASE net'.late = (net.late \/ GoesLate(net, c)) /\ net.param[c] /\ UNCHANGED poolVars
    <3>1. net'.late = net.late
      BY <2>4, Zenon DEF GoesLate, Types, Rec
    <3> QED  BY <2>1, <2>2, <2>4, <3>1, RecvTouch, Zenon
  <2>5. CASE net'.late = (net.late \/ GoesLate(net, c)) /\ ~net.param[c] /\ SetFreeObject(c)
    <3>0. PICK d : d = c
      BY Zenon
    <3>a. /\ d \in Slot /\ SetFreeObject(d) /\ ~net.param[d] /\ Less(Here, Here', d, "recv", n)
          /\ net'.late = (net.late \/ GoesLate(net, d))
      BY <2>1, <2>5, <3>0, Zenon
    <3>1. ASSUME Tidy' PROVE Vacant(d)'
      <4>1. Tidy /\ ~GoesLate(net, d)
        BY <2>1, <3>a, <3>1, Zenon DEF Tidy
      <4>2. d \notin net.queued
        BY <3>a, <4>1, Zenon DEF GoesLate
      <4>3. Sole(Here, d, "recv")
        BY <3>a, <4>1, Zenon DEF StayInv, OneRecv
      <4>4. \A m : ~Named(Here', d, "recv", m)
        BY <3>a, <4>3, Zenon DEF Less
      <4>5. \A m : ~Named(Here, d, "send", m)
        BY <3>a, <4>1, Zenon DEF SendInv, SendOf, Tidy
      <4>6. \A op, m : Named(Here', d, op, m) => Named(Here, d, op, m) /\ op \in {"recv", "send"}
        BY <3>a, OpType, Zenon DEF Less
      <4>7. \A op, m : ~Named(Here', d, op, m)
        BY <4>4, <4>5, <4>6, Zenon
      <4> QED  BY <2>1, <3>a, <4>2, <4>7, Zenon DEF Vacant
    <3>2. Touches(Here, Here', d)
      BY <3>a, TouchesFrom, Zenon
    <3>3. accept = NotAccepting \/ accept.obj # d \/ ~Tidy
      <4> SUFFICES ASSUME accept # NotAccepting, accept.obj = d, Tidy PROVE FALSE
        BY Zenon
      <4> QED  BY <3>a, Zenon DEF StayInv, Vacant, Less
    <3>4. CASE Tidy
      <4>1. accept \in Acceptor
        BY Zenon DEF Types
      <4> QED  BY <2>1, <3>a, <3>1, <3>2, <3>3, <3>4, <4>1, StayFree, Zenon
    <3>5. CASE ~Tidy
      <4>1. ~Tidy'
        BY <2>1, <3>a, <3>5, Zenon DEF Tidy
      <4> QED  BY <4>1, Zenon DEF StayInv
    <3> QED  BY <3>4, <3>5, Zenon
  <2> QED  BY <2>1, <2>3, <2>4, <2>5, Zenon
<1>4. CASE DoSend(w)
  <2> DEFINE e == Head(net.port)
             c == e.obj
  <2>1. /\ e \in Completion /\ UNCHANGED <<poolVars, setting, accept>>
        /\ net'.param = net.param /\ net'.queued = net.queued /\ net'.late = net.late
        /\ \E y, m : /\ Less(Here, y, c, "send", e.conn)
                     /\ \/ Equal(y, Here')
                        \/ More(y, Here', c, "recv", m)
                        \/ More(y, Here', c, "send", m)
    BY <1>4, DoSendSum, Zenon
  <2>2. c \in Slot
    BY <2>1, CompletionType, Zenon
  <2> HIDE DEF e, c
  <2>3. Named(Here, c, "send", e.conn)
    BY <2>1, Zenon DEF Less
  <2>4. ~setting.prompt => net.param[c] /\ setting.sends
    BY <2>2, <2>3 DEF SendInv, SendOf
  <2>5. ~Vacant(c) /\ Touches(Here, Here', c)
    BY <2>1, <2>3, TouchesFrom, Zenon DEF Vacant
  <2> QED  BY <2>1, <2>2, <2>4, <2>5, SendTouch, Zenon
<1>5. CASE DoRecv(w)
  <2> DEFINE e == Head(net.port)
             c == e.obj
  <2>1. /\ e \in Completion /\ UNCHANGED <<poolVars, setting, accept>>
        /\ net'.param = net.param /\ net'.queued \subseteq net.queued \cup {c} /\ net'.late = net.late
        /\ \E y, m : /\ Less(Here, y, c, "recv", e.conn)
                     /\ Equal(y, Here') \/ More(y, Here', c, "recv", m)
    BY <1>5, DoRecvSum, Zenon
  <2>2. c \in Slot
    BY <2>1, CompletionType, Zenon
  <2> HIDE DEF e, c
  <2> QED  BY <2>1, <2>2, RecvTouch, Zenon
<1> QED  BY <1>1, <1>2, <1>3, <1>4, <1>5, Zenon DEF WorkerThread

LEMMA StayAccept ==
    ASSUME Types, PoolInv, StayInv, AcceptRecv \/ \E h \in Handle : Accept(h)
    PROVE  StayInv'
<1>1. ASSUME NEW h \in Handle, Accept(h) PROVE StayInv'
  <2>1. PICK c \in Slot : /\ c \notin usedList /\ usedList' = usedList \cup {c} /\ setting' = setting
                          /\ Here' = Here /\ accept'.obj = c
                          /\ net'.param = net.param /\ net'.queued = net.queued /\ net'.late = net.late
    <3> DEFINE c == ret'[1]
    <3>1. /\ c \in Slot /\ c \notin usedList /\ usedList' = usedList \cup {c} /\ setting' = setting
          /\ Here' = Here /\ accept' = [obj |-> c, conn |-> net.last + 1, handle |-> h]
          /\ net'.param = net.param /\ net'.queued = net.queued /\ net'.late = net.late
      BY <1>1, AcceptSum, Zenon
    <3>2. accept'.obj = c
      BY <3>1, Zenon
    <3> HIDE DEF c
    <3> QED  BY <3>1, <3>2, Zenon
  <2>2. \A d : (Vacant(d)' <=> Vacant(d)) /\ (OneRecv(d)' <=> OneRecv(d))
    BY <2>1, Zenon DEF Vacant, OneRecv
  <2>3. Tidy' <=> Tidy
    BY <2>1, Zenon DEF Tidy
  <2>4. ASSUME Tidy PROVE Vacant(accept.obj)'
    <3>1. Vacant(c)
      BY <2>1, <2>4, Zenon DEF StayInv
    <3> QED  BY <2>1, <2>2, <3>1, Zenon DEF Vacant
  <2> QED  BY <2>1, <2>2, <2>3, <2>4, Zenon DEF StayInv
<1>2. CASE AcceptRecv
  <2>1. PICK c : c = accept.obj
    BY Zenon
  <2>2. /\ accept # NotAccepting /\ c \in Slot /\ accept' = NotAccepting /\ setting' = setting
        /\ net'.param = net.param /\ net'.queued = net.queued
        /\ \/ /\ Sockets(net, net') /\ UNCHANGED poolVars
              /\ \E n : More(Here, Here', c, "recv", n)
           \/ /\ Equal(Here, Here') /\ SetFreeObject(c)
              /\ net'.late = (net.late \/ c \in net.queued)
    BY <1>2, <2>1, AcceptRecvSum, Zenon
  <2>3. Tidy => c \in usedList /\ Vacant(c)
    BY <2>1, <2>2, Zenon DEF StayInv
  <2>4. CASE Sockets(net, net') /\ UNCHANGED poolVars /\ \E n : More(Here, Here', c, "recv", n)
    <3>1. usedList' = usedList /\ net'.late = net.late
      BY <2>4, Zenon DEF Sockets, poolVars
    <3>2. PICK n : More(Here, Here', c, "recv", n)
      BY <2>4, Zenon
    <3>3. Touches(Here, Here', c)
      BY <3>2, TouchesFrom, Zenon
    <3>4. Tidy' => Tidy
      BY <2>2, <3>1, Zenon DEF Tidy
    <3>5. ASSUME Tidy PROVE OneRecv(c)'
      <4>1. \A m : ~Named(Here, c, "recv", m)
        BY <2>3, <3>5, Zenon DEF Vacant
      <4> QED  BY <2>3, <3>2, <3>5, NoneIsSole, Zenon DEF OneRecv, Vacant, More
    <3>6. ASSUME Tidy, NEW d \in Slot, d # c PROVE (Vacant(d) => Vacant(d)') /\ (OneRecv(d) => OneRecv(d)')
      BY <2>2, <3>3, <3>6, Zenon DEF Touches, Vacant, OneRecv
    <3>7. ASSUME Tidy PROVE \A d \in Slot \ usedList : Vacant(d)'
      BY <2>3, <3>6, <3>7, Zenon DEF StayInv
    <3>8. ASSUME Tidy PROVE \A d \in Slot : OneRecv(d)'
      BY <3>5, <3>6, <3>8, Zenon DEF StayInv
    <3> QED  BY <2>2, <3>1, <3>4, <3>7, <3>8, Zenon DEF StayInv
  <2>5. CASE Equal(Here, Here') /\ SetFreeObject(c) /\ net'.late = (net.late \/ c \in net.queued)
    <3>1. Touches(Here, Here', c)
      BY <2>5, TouchesFrom, Zenon
    <3>2. ASSUME Tidy' PROVE Vacant(c)'
      <4>1. Tidy
        BY <2>2, <2>5, <3>2, Zenon DEF Tidy
      <4> QED  BY <2>2, <2>3, <2>5, <4>1, Zenon DEF Vacant, Equal
    <3>3. net.late \in BOOLEAN
      BY Zenon DEF Types, Rec
    <3> QED  BY <2>2, <2>5, <3>1, <3>2, StayFree, Zenon
  <2> QED  BY <2>2, <2>4, <2>5, Zenon
<1> QED  BY <1>1, <1>2, Zenon

LEMMA StaySession ==
    ASSUME Types, StayInv, NEW c \in Slot, Bind(c) \/ Write(c) \/ HeartbeatOver(c) \/ SessionRelease(c)
    PROVE  StayInv'
<1>1. CASE Bind(c)
  <2>1. /\ c \in net.queued /\ UNCHANGED <<poolVars, setting, accept>> /\ net'.late = net.late
        /\ Equal(Here, Here')
        /\ net'.queued = net.queued \ {c} /\ net'.param = [net.param EXCEPT ![c] = TRUE]
    BY <1>1, BindSum, Zenon DEF Sockets
  <2>2. net.param \in [Slot -> BOOLEAN]
    BY Zenon DEF Types, Rec
  <2>3. ~Vacant(c)
    BY <2>1, Zenon DEF Vacant
  <2>4. \A d \in Slot : d # c => (Vacant(d) => Vacant(d)')
    BY <2>1, <2>2, Zenon DEF Vacant, Equal
  <2>5. \A d \in Slot : OneRecv(d) => OneRecv(d)'
    <3> SUFFICES ASSUME NEW d \in Slot, OneRecv(d), ~net'.param[d] \/ ~setting.sends PROVE Sole(Here', d, "recv")
      BY <2>1, Zenon DEF OneRecv
    <3>1. ~net.param[d] \/ ~setting.sends
      BY <2>1, <2>2, Zenon
    <3> QED  BY <2>1, <3>1, Zenon DEF OneRecv, Equal
  <2>6. (Tidy' <=> Tidy) /\ usedList' = usedList /\ accept' = accept
    BY <2>1, Zenon DEF Tidy, poolVars
  <2>7. ASSUME Tidy, accept # NotAccepting PROVE Vacant(accept.obj)'
    <3>1. PICK d : d = accept.obj
      BY Zenon
    <3>2. d \in Slot /\ Vacant(d)
      BY <2>7, <3>1, Zenon DEF StayInv, Types, Acceptor
    <3>3. Vacant(d)'
      BY <2>3, <2>4, <3>2, Zenon
    <3> QED  BY <2>6, <3>1, <3>3, Zenon
  <2>8. ASSUME Tidy PROVE (\A d \in Slot \ usedList : Vacant(d)') /\ \A d \in Slot : OneRecv(d)'
    BY <2>3, <2>4, <2>5, <2>8, Zenon DEF StayInv
  <2> QED  BY <2>6, <2>7, <2>8, Zenon DEF StayInv
<1>2. CASE Write(c)
  <2>1. /\ setting.sends /\ net.param[c] /\ UNCHANGED <<poolVars, setting, accept>>
        /\ net'.param = net.param /\ net'.queued = net.queued /\ net'.late = net.late
        /\ (\E n : More(Here, Here', c, "send", n)) \/ Equal(Here, Here')
    BY <1>2, WriteSum, Zenon DEF Sockets
  <2>2. Touches(Here, Here', c) /\ ~Vacant(c)
    BY <2>1, TouchesFrom, Zenon DEF Vacant
  <2> QED  BY <2>1, <2>2, SendTouch, Zenon
<1>3. CASE HeartbeatOver(c)
  <2>1. UNCHANGED <<poolVars, setting, accept>> /\ Frame(net, net') /\ Equal(Here, Here')
    BY <1>3, HeartbeatOverSum, Zenon
  <2> QED  BY <2>1, EqualTouch, Zenon DEF Frame
<1>4. CASE SessionRelease(c)
  <2>1. /\ UNCHANGED <<setting, accept>> /\ SetFreeObject(c) /\ net.param[c]
        /\ (setting.prompt \/ ~UnderWay(c)) /\ Equal(Here, Here')
        /\ net'.param = [net.param EXCEPT ![c] = FALSE] /\ net'.queued = net.queued
        /\ net'.late = (net.late \/ c \in net.queued)
    BY <1>4, SessionReleaseSum, Zenon
  <2>2. net.param \in [Slot -> BOOLEAN]
    BY Zenon DEF Types, Rec
  <2>3. ASSUME Tidy' PROVE Tidy /\ Vacant(c)'
    <3>1. Tidy /\ ~UnderWay(c) /\ c \notin net.queued
      BY <2>1, <2>3, Zenon DEF Tidy
    <3>2. \A op, n : ~Named(Here, c, op, n)
      BY <3>1, NotUnderWay, Zenon
    <3>3. \A op, n : ~Named(Here', c, op, n)
      BY <2>1, <3>2, Zenon DEF Equal
    <3> QED  BY <2>1, <2>2, <3>1, <3>3, Zenon DEF Vacant
  <2>4. CASE ~Tidy'
    BY <2>4, Zenon DEF StayInv
  <2>5. CASE Tidy'
    <3>1. Tidy
      BY <2>3, <2>5, Zenon
    <3>2. accept = NotAccepting \/ accept.obj # c
      BY <2>1, <3>1, Zenon DEF StayInv, Vacant
    <3>3. accept \in Acceptor /\ Touches(Here, Here', c)
      BY <2>1, TouchesFrom, Zenon DEF Types
    <3> QED  BY <2>1, <2>2, <2>3, <3>2, <3>3, StayFree, Zenon
  <2> QED  BY <2>4, <2>5, Zenon
<1> QED  BY <1>1, <1>2, <1>3, <1>4, Zenon

(* The manager that does not check is used without connections.            *)
Idle ==
    ~checked => /\ accept = NotAccepting /\ \A h \in Handle : net.os[h] = None
                /\ \A c \in Slot : Vacant(c) /\ OneRecv(c)

LEMMA IdleKept ==
    ASSUME Idle, [Next]_vars, [PoolNext]_poolVars
    PROVE  Idle'
<1>1. checked' = checked
  BY Zenon DEF PoolNext, GetFreeObject, SetFreeObject, poolVars
<1>2. ASSUME ~checked PROVE UNCHANGED netVars
  BY <1>2, Zenon DEF Next, vars
<1>3. ASSUME UNCHANGED netVars, NEW c PROVE (Vacant(c)' <=> Vacant(c)) /\ (OneRecv(c)' <=> OneRecv(c))
  BY <1>3, Zenon DEF Vacant, OneRecv, Here, netVars
<1> QED  BY <1>1, <1>2, <1>3, Zenon DEF Idle, netVars

LEMMA StayKept ==
    ASSUME Types, PoolInv, Idle, SendInv, StayInv, [Next]_vars
    PROVE  StayInv'
<1>1. CASE checked /\ NetNext
  <2>1. ASSUME NEW o \in net.pending, NEW kind \in {"packet", "zero", "failed"}, Complete(o, kind)
        PROVE  StayInv'
    <3>1. UNCHANGED <<poolVars, setting, accept>> /\ Frame(net, net') /\ Equal(Here, Here')
      BY <2>1, CompleteSum, Zenon
    <3> QED  BY <3>1, EqualTouch, Zenon DEF Frame
  <2> QED  BY <1>1, <2>1, StayAccept, StayWorker, StaySession, ObjectIsSlot, Zenon DEF NetNext
<1>2. CASE ~checked /\ PoolNext /\ UNCHANGED netVars
  <2>1. ASSUME NEW c PROVE (Vacant(c)' <=> Vacant(c)) /\ (OneRecv(c)' <=> OneRecv(c))
    BY <1>2, Zenon DEF Vacant, OneRecv, Here, netVars
  <2> QED  BY <1>2, <2>1, Zenon DEF Idle, StayInv, netVars
<1>3. CASE UNCHANGED vars
  <2>1. UNCHANGED <<poolVars, setting, accept>> /\ Here' = Here /\ net' = net
    BY <1>3, Zenon DEF vars, netVars, Here
  <2> QED  BY <2>1, EqualTouch, Zenon DEF Equal
<1> QED  BY <1>1, <1>2, <1>3, Zenon DEF Next

-----------------------------------------------------------------------------
(* AcceptThread's connector holds the accepted socket or has been closed.  *)
Accepting == accept # NotAccepting => net.socket[accept.obj] \in {accept.handle, None}

(* A step that opens nothing: it may take the socket from c, or give c     *)
(* back, only when what c held is closed.                                  *)
Closes(c) ==
    /\ accept' \in {accept, NotAccepting}
    /\ UNCHANGED poolVars \/ SetFreeObject(c)
    /\ \A g \in Handle : net'.os[g] \in {None, net.os[g]}
    /\ net'.socket \in {net.socket, [net.socket EXCEPT ![c] = None]}
    /\ \/ net'.socket = net.socket /\ UNCHANGED poolVars
       \/ net.socket[c] # None => net'.os[net.socket[c]] = None

LEMMA ClosesKeeps ==
    ASSUME Types, PoolInv, OpenIsHeld, Accepting, NEW c \in Slot, Closes(c)
    PROVE  OpenIsHeld' /\ Accepting' /\ [PoolNext]_poolVars
<1>1. net.socket \in [Slot -> Handle \cup {None}] /\ usedList \in SUBSET Slot
  BY UsedIsSlot, Zenon DEF Types, Rec
<1>2. [PoolNext]_poolVars /\ usedList \ {c} \subseteq usedList'
  <2>1. CASE UNCHANGED poolVars
    BY <2>1, Zenon DEF poolVars
  <2>2. CASE SetFreeObject(c) /\ c \in usedList
    BY <2>2, Zenon DEF SetFreeObject, PoolNext, PoolInv, PoolTypeOK
  <2>3. CASE SetFreeObject(c) /\ c \notin usedList
    BY <2>3, Zenon DEF SetFreeObject, poolVars
  <2> QED  BY <2>1, <2>2, <2>3, Zenon DEF Closes
<1>3. OpenIsHeld'
  <2> SUFFICES ASSUME NEW h \in Handle, net'.os[h] # None PROVE \E d \in usedList' : net'.socket[d] = h
    BY Zenon DEF OpenIsHeld
  <2>1. PICK d \in usedList : net.socket[d] = h
    BY Zenon DEF Closes, OpenIsHeld
  <2>2. CASE net'.socket = net.socket /\ UNCHANGED poolVars
    BY <2>1, <2>2, Zenon DEF poolVars
  <2>3. CASE net.socket[c] # None => net'.os[net.socket[c]] = None
    <3>1. d # c
      BY <2>1, <2>3, NoneIsNoHandle, Zenon
    <3> QED  BY <1>1, <1>2, <2>1, <3>1, Zenon DEF Closes
  <2> QED  BY <2>2, <2>3, Zenon DEF Closes
<1>4. Accepting'
  BY <1>1 DEF Closes, Accepting, Types, Acceptor
<1> QED  BY <1>2, <1>3, <1>4, Zenon

LEMMA WorkerCloses ==
    ASSUME Types, NEW w \in Worker, WorkerThread(w)
    PROVE  \E c \in Slot : Closes(c)
<1>0. net.socket \in [Slot -> Handle \cup {None}] /\ DOMAIN net.os = Handle
  BY Zenon DEF Types, Rec
<1>1. CASE Failed(w)
  <2>1. PICK c : c = Head(net.port).obj
    BY Zenon
  <2>2. /\ Head(net.port) \in Completion /\ UNCHANGED <<poolVars, accept>>
        /\ \A g \in Handle : net'.os[g] = IF g = net.socket[c] THEN None ELSE net.os[g]
        /\ net'.socket = [net.socket EXCEPT ![c] = None]
    BY <1>1, <2>1, FailedSum, Zenon DEF Shuts
  <2>3. c \in Slot
    BY <2>1, <2>2, CompletionType, Zenon
  <2> QED  BY <1>0, <2>2, <2>3, Zenon DEF Closes
<1>2. CASE Closed(w)
  <2>1. PICK c : c = Head(net.port).obj
    BY Zenon
  <2>2. /\ Head(net.port) \in Completion /\ UNCHANGED <<poolVars, accept>>
        /\ \A g \in Handle : net'.os[g] = IF g = net.socket[c] THEN None ELSE net.os[g]
        /\ net'.socket = net.socket
    BY <1>2, <2>1, ClosedSum, Zenon DEF Shuts
  <2>3. c \in Slot
    BY <2>1, <2>2, CompletionType, Zenon
  <2> QED  BY <2>2, <2>3, Zenon DEF Closes
<1>3. CASE Uncounted(w)
  <2>1. PICK c : c = worker[w].obj
    BY Zenon
  <2>2. /\ c \in Slot /\ accept' = accept
        /\ \/ Sockets(net, net') /\ UNCHANGED poolVars
           \/ /\ \A g \in Handle : net'.os[g] = IF g = net.socket[c] THEN None ELSE net.os[g]
              /\ net'.socket = [net.socket EXCEPT ![c] = None]
              /\ UNCHANGED poolVars \/ SetFreeObject(c)
    BY <1>3, <2>1, UncountedSum, Zenon
  <2> QED  BY <1>0, <2>2, Zenon DEF Closes, Sockets
<1>4. CASE DoSend(w)
  <2>1. PICK c : c = Head(net.port).obj
    BY Zenon
  <2>2. /\ Head(net.port) \in Completion /\ UNCHANGED <<poolVars, accept>>
        /\ \/ Sockets(net, net')
           \/ /\ \A g \in Handle : net'.os[g] = IF g = net.socket[c] THEN None ELSE net.os[g]
              /\ net'.socket = [net.socket EXCEPT ![c] = None]
    BY <1>4, <2>1, DoSendSum, Zenon
  <2>3. c \in Slot
    BY <2>1, <2>2, CompletionType, Zenon
  <2> QED  BY <1>0, <2>2, <2>3, Zenon DEF Closes, Sockets
<1>5. CASE DoRecv(w)
  <2>1. PICK c : c = Head(net.port).obj
    BY Zenon
  <2>2. /\ Head(net.port) \in Completion /\ UNCHANGED <<poolVars, accept>>
        /\ \/ Sockets(net, net')
           \/ /\ \A g \in Handle : net'.os[g] = IF g = net.socket[c] THEN None ELSE net.os[g]
              /\ net'.socket = [net.socket EXCEPT ![c] = None]
    BY <1>5, <2>1, DoRecvSum, Zenon
  <2>3. c \in Slot
    BY <2>1, <2>2, CompletionType, Zenon
  <2> QED  BY <1>0, <2>2, <2>3, Zenon DEF Closes, Sockets
<1> QED  BY <1>1, <1>2, <1>3, <1>4, <1>5, Zenon DEF WorkerThread

LEMMA SessionCloses ==
    ASSUME Types, NEW c \in Slot, Bind(c) \/ Write(c) \/ HeartbeatOver(c) \/ SessionRelease(c)
    PROVE  Closes(c)
<1>0. net.socket \in [Slot -> Handle \cup {None}]
  BY Zenon DEF Types, Rec
<1>1. CASE Bind(c)
  BY <1>1, BindSum, Zenon DEF Closes, Sockets
<1>2. CASE Write(c)
  BY <1>2, WriteSum, Zenon DEF Closes, Sockets
<1>3. CASE HeartbeatOver(c)
  <2>1. /\ UNCHANGED poolVars /\ accept' = accept
        /\ \A g \in Handle : net'.os[g] = IF g = net.socket[c] THEN None ELSE net.os[g]
        /\ net'.socket = [net.socket EXCEPT ![c] = None]
    BY <1>3, HeartbeatOverSum, Zenon
  <2>2. net.socket[c] # None => net.socket[c] \in Handle
    BY <1>0, Zenon
  <2> QED  BY <2>1, <2>2, Zenon DEF Closes
<1>4. CASE SessionRelease(c)
  BY <1>4, SessionReleaseSum, Zenon DEF Closes
<1> QED  BY <1>1, <1>2, <1>3, <1>4, Zenon

LEMMA AcceptRecvCloses ==
    ASSUME Types, Accepting, AcceptRecv
    PROVE  \E c \in Slot : Closes(c)
<1>1. PICK c, h : c = accept.obj /\ h = accept.handle
  BY Zenon
<1>2. /\ c \in Slot /\ accept # NotAccepting /\ accept' = NotAccepting /\ net'.socket = net.socket
      /\ \/ Sockets(net, net') /\ UNCHANGED poolVars
         \/ /\ SetFreeObject(c)
            /\ \A g \in Handle : net'.os[g] = IF g = h THEN None ELSE net.os[g]
  BY <1>1, AcceptRecvSum, Zenon
<1>3. net.socket[c] \in {h, None} /\ h \in Handle
  BY <1>1, <1>2, Zenon DEF Accepting, Types, Acceptor
<1> QED  BY <1>2, <1>3, Zenon DEF Closes, Sockets

LEMMA AcceptHolds ==
    ASSUME Types, PoolInv, OpenIsHeld, NEW h \in Handle, Accept(h)
    PROVE  OpenIsHeld' /\ Accepting' /\ [PoolNext]_poolVars
<1>1. PICK c : c = ret'[1]
  BY Zenon
<1>2. /\ c \in Slot /\ c \notin usedList /\ usedList' = usedList \cup {c}
      /\ accept' = [obj |-> c, conn |-> net.last + 1, handle |-> h]
      /\ net'.os = [net.os EXCEPT ![h] = net.last + 1] /\ net'.socket = [net.socket EXCEPT ![c] = h]
  BY <1>1, AcceptSum, Zenon
<1>3. /\ net.socket \in [Slot -> Handle \cup {None}] /\ usedList \in SUBSET Slot
      /\ net.os \in [Handle -> Conn \cup {None}]
  BY UsedIsSlot, Zenon DEF Types, Rec
<1>4. net'.socket[c] = h /\ \A d \in usedList : net'.socket[d] = net.socket[d]
  BY <1>2, <1>3, Zenon
<1>5. \A g \in Handle : g # h => net'.os[g] = net.os[g]
  BY <1>2, <1>3, Zenon
<1>6. OpenIsHeld'
  BY <1>2, <1>4, <1>5 DEF OpenIsHeld
<1>7. Accepting'
  BY <1>2, <1>4, Zenon DEF Accepting
<1>8. PoolNext
  BY Zenon DEF Accept, PoolNext
<1> QED  BY <1>6, <1>7, <1>8, Zenon

LEMMA HeldKept ==
    ASSUME Types, PoolInv, Idle, OpenIsHeld, Accepting, [Next]_vars
    PROVE  OpenIsHeld' /\ Accepting' /\ [PoolNext]_poolVars
<1>1. ASSUME NEW o \in net.pending, NEW kind \in {"packet", "zero", "failed"}, Complete(o, kind)
      PROVE  \E c \in Slot : Closes(c)
  <2>1. UNCHANGED <<poolVars, accept>> /\ Sockets(net, net')
    BY <1>1, CompleteSum, Zenon
  <2>2. o.obj \in Slot
    BY Zenon DEF Types, Rec, Operation
  <2> QED  BY <2>1, <2>2, Zenon DEF Closes, Sockets
<1>2. CASE ~checked /\ PoolNext /\ UNCHANGED netVars
  BY <1>2, Zenon DEF Idle, netVars, OpenIsHeld, Accepting
<1>3. CASE UNCHANGED vars
  <2>1. UNCHANGED poolVars /\ net' = net /\ accept' = accept
    BY <1>3, Zenon DEF vars, netVars
  <2> QED  BY <2>1, Zenon DEF OpenIsHeld, Accepting, poolVars
<1> QED  BY <1>1, <1>2, <1>3, ClosesKeeps, WorkerCloses, SessionCloses, AcceptRecvCloses, AcceptHolds,
            ObjectIsSlot, Zenon DEF Next, NetNext

-----------------------------------------------------------------------------
(* While moreover socket handles are not reused, a handle stands for the   *)
(* connection it was accepted with, only one connector has it, and what is *)
(* under way names the connection its connector has, or had last.          *)
Apart == Tidy /\ ~setting.handles

SockInv ==
    Apart => /\ \A h \in Handle : net.os[h] \in {None, h} /\ (h > net.last => net.os[h] = None)
             /\ \A c \in Slot : /\ net.socket[c] <= net.last
                                /\ \A op, n : Named(Here, c, op, n) => net.socket[c] \in {None, n}
             /\ \A c, d \in Slot : net.socket[c] = net.socket[d] /\ net.socket[c] # None => c = d
             /\ accept # NotAccepting => /\ accept.handle = accept.conn
                                         /\ net.socket[accept.obj] = accept.handle
                                         /\ net.os[accept.handle] = accept.conn
             /\ ~net.foreign

(* The socket of a connector is closed, or nothing is: the connector is    *)
(* one that has a session or is named by an operation under way.           *)
LEMMA SockShut ==
    ASSUME Types, StayInv, SockInv, setting' = setting, accept' = accept, NEW c \in Slot, ~Vacant(c),
           net'.last = net.last, ~net'.late => ~net.late,
           \A g \in Handle : net'.os[g] \in {net.os[g], IF g = net.socket[c] THEN None ELSE net.os[g]},
           net'.socket \in {net.socket, [net.socket EXCEPT ![c] = None]},
           Apart => (net'.foreign => net.foreign),
           Apart => \A d \in Slot : \A op, n :
                        Named(Here', d, op, n) => Named(Here, d, op, n) \/ net'.socket[d] \in {None, n}
    PROVE  SockInv'
<1>1. /\ net.socket \in [Slot -> Handle \cup {None}] /\ net.last \in 0..MaxConns /\ None \notin Handle
      /\ net.os \in [Handle -> Conn \cup {None}]
  BY DEF Types, Rec, Handle, None
<1>2. SUFFICES ASSUME Apart'
               PROVE  (/\ \A h \in Handle : net.os[h] \in {None, h} /\ (h > net.last => net.os[h] = None)
                       /\ \A d \in Slot : /\ net.socket[d] <= net.last
                                          /\ \A op, n : Named(Here, d, op, n) => net.socket[d] \in {None, n}
                       /\ \A d, e \in Slot : net.socket[d] = net.socket[e] /\ net.socket[d] # None => d = e
                       /\ accept # NotAccepting => /\ accept.handle = accept.conn
                                                   /\ net.socket[accept.obj] = accept.handle
                                                   /\ net.os[accept.handle] = accept.conn
                       /\ ~net.foreign)'
  BY Zenon DEF SockInv
<1>3. Apart /\ Tidy
  BY <1>2, Zenon DEF Apart, Tidy
<1>4. \A h \in Handle : net'.os[h] \in {None, net.os[h]}
  BY Zenon
<1>5. \A d \in Slot : net'.socket[d] \in {None, net.socket[d]}
  BY <1>1, ZenonT(40)
<1>6. \A h \in Handle : net'.os[h] \in {None, h} /\ (h > net'.last => net'.os[h] = None)
  BY <1>3, <1>4, Zenon DEF SockInv
<1>7. ASSUME NEW d \in Slot PROVE net'.socket[d] <= net'.last
  <2>1. net.socket[d] <= net.last /\ None <= net.last
    BY <1>1, <1>3 DEF SockInv, None
  <2> QED  BY <1>5, <2>1, Zenon
<1>8. ASSUME NEW d \in Slot, NEW op, NEW n, Named(Here', d, op, n) PROVE net'.socket[d] \in {None, n}
  <2>1. Named(Here, d, op, n) => net.socket[d] \in {None, n}
    BY <1>3, Zenon DEF SockInv
  <2> QED  BY <1>3, <1>5, <1>8, <2>1, Zenon
<1>9. ASSUME NEW d \in Slot, NEW e \in Slot, net'.socket[d] = net'.socket[e], net'.socket[d] # None PROVE d = e
  BY <1>3, <1>5, <1>9 DEF SockInv
<1>10. ASSUME accept # NotAccepting
       PROVE  /\ accept.handle = accept.conn /\ net'.socket[accept.obj] = accept.handle
              /\ net'.os[accept.handle] = accept.conn
  <2>1. accept.obj \in Slot /\ accept.handle \in Handle
    BY <1>10, Zenon DEF Types, Acceptor
  <2>2. accept.obj # c
    BY <1>3, <1>10, Zenon DEF StayInv
  <2>3. accept.handle = accept.conn /\ net.socket[accept.obj] = accept.handle /\ net.os[accept.handle] = accept.conn
    BY <1>3, <1>10, Zenon DEF SockInv
  <2>4. net.socket[c] # accept.handle
    BY <1>1, <1>3, <2>1, <2>2, <2>3, ZenonT(40) DEF SockInv
  <2> QED  BY <1>1, <2>1, <2>2, <2>3, <2>4, Zenon
<1>11. ~net'.foreign
  BY <1>3, Zenon DEF SockInv
<1> QED  BY <1>6, <1>7, <1>8, <1>9, <1>10, <1>11, ZenonT(40)

(* Who closes what its operation names, or names what its connector has,   *)
(* closes or names its own connection.                                     *)
LEMMA SockOwn ==
    ASSUME Types, SockInv, Apart, NEW c \in Slot
    PROVE  /\ \A op, n : Named(Here, c, op, n) =>
                ~(net.socket[c] \in Handle /\ net.os[net.socket[c]] \notin {None, n})
           /\ Usable(net, c) => net.os[net.socket[c]] = net.socket[c]
<1>1. net.socket \in [Slot -> Handle \cup {None}] /\ None \notin Handle
  BY DEF Types, Rec, Handle, None
<1> QED  BY <1>1, Zenon DEF SockInv, Usable

LEMMA SockWorker ==
    ASSUME Types, StayInv, SockInv, NEW w \in Worker, WorkerThread(w)
    PROVE  SockInv'
<1>0. net.socket \in [Slot -> Handle \cup {None}]
  BY Zenon DEF Types, Rec
<1>1. CASE Failed(w)
  <2> DEFINE e == Head(net.port)
  <2>1. PICK c, n, op, y : c = e.obj /\ n = e.conn /\ op = e.op /\ y = Ways(Popped, worker)
    BY Zenon
  <2>2. /\ e \in Completion /\ UNCHANGED <<setting, accept>>
        /\ Shuts(net, net', net.socket[c], n) /\ net'.socket = [net.socket EXCEPT ![c] = None]
        /\ Less(Here, y, c, op, n) /\ (Equal(y, Here') \/ More(y, Here', c, "recv", n))
    BY <1>1, <2>1, FailedSum, Zenon
  <2>3. c \in Slot
    BY <2>1, <2>2, CompletionType, Zenon
  <2> HIDE DEF e
  <2>4. Named(Here, c, op, n)
    BY <2>2, Zenon DEF Less
  <2>5. ~Vacant(c)
    BY <2>4, Zenon DEF Vacant
  <2>6. Apart => (net'.foreign => net.foreign)
    BY <2>2, <2>3, <2>4, SockOwn, Zenon DEF Shuts
  <2>7. \A d \in Slot : \A o, m : Named(Here', d, o, m) => Named(Here, d, o, m) \/ net'.socket[d] \in {None, m}
    BY <1>0, <2>2, <2>3, Zenon DEF Less, Equal, More
  <2>8. /\ net'.last = net.last /\ net'.late = net.late
        /\ \A g \in Handle : net'.os[g] = IF g = net.socket[c] THEN None ELSE net.os[g]
    BY <2>2, Zenon DEF Shuts, Frame
  <2> QED  BY <2>2, <2>3, <2>5, <2>6, <2>7, <2>8, SockShut, Zenon
<1>2. CASE Closed(w)
  <2> DEFINE e == Head(net.port)
  <2>1. PICK c, n : c = e.obj /\ n = e.conn
    BY Zenon
  <2>2. /\ e \in Completion /\ UNCHANGED <<setting, accept>>
        /\ Shuts(net, net', net.socket[c], n) /\ net'.socket = net.socket
        /\ Named(Here, c, "recv", n) /\ Equal(Here, Here')
    BY <1>2, <2>1, ClosedSum, Zenon
  <2>3. c \in Slot
    BY <2>1, <2>2, CompletionType, Zenon
  <2> HIDE DEF e
  <2>5. ~Vacant(c)
    BY <2>2, Zenon DEF Vacant
  <2>6. Apart => (net'.foreign => net.foreign)
    BY <2>2, <2>3, SockOwn, Zenon DEF Shuts
  <2>7. \A d \in Slot : \A o, m : Named(Here', d, o, m) => Named(Here, d, o, m)
    BY <2>2, Zenon DEF Equal
  <2>8. /\ net'.last = net.last /\ net'.late = net.late
        /\ \A g \in Handle : net'.os[g] = IF g = net.socket[c] THEN None ELSE net.os[g]
    BY <2>2, Zenon DEF Shuts, Frame
  <2> QED  BY <2>2, <2>3, <2>5, <2>6, <2>7, <2>8, SockShut, Zenon
<1>3. CASE Uncounted(w)
  <2>1. PICK c, n : c = worker[w].obj /\ n = worker[w].conn
    BY Zenon
  <2>2. /\ c \in Slot /\ UNCHANGED <<setting, accept>> /\ Less(Here, Here', c, "recv", n)
        /\ net'.last = net.last
        /\ \/ Sockets(net, net')
           \/ /\ \A g \in Handle : net'.os[g] = IF g = net.socket[c] THEN None ELSE net.os[g]
              /\ net'.foreign => \/ net.foreign
                                 \/ net.socket[c] \in Handle /\ net.os[net.socket[c]] \notin {None, n}
              /\ net'.socket = [net.socket EXCEPT ![c] = None]
              /\ net'.late = (net.late \/ GoesLate(net, c))
    BY <1>3, <2>1, UncountedSum, Zenon
  <2>3. ~Vacant(c) /\ Named(Here, c, "recv", n)
    BY <2>2, Zenon DEF Vacant, Less
  <2>4. Apart => (net'.foreign => net.foreign)
    BY <2>2, <2>3, SockOwn, Zenon DEF Sockets
  <2>5. \A d \in Slot : \A o, m : Named(Here', d, o, m) => Named(Here, d, o, m)
    BY <2>2, Zenon DEF Less
  <2>6. /\ ~net'.late => ~net.late
        /\ \A g \in Handle : net'.os[g] \in {net.os[g], IF g = net.socket[c] THEN None ELSE net.os[g]}
        /\ net'.socket \in {net.socket, [net.socket EXCEPT ![c] = None]}
    BY <2>2, Zenon DEF Sockets
  <2> QED  BY <2>2, <2>3, <2>4, <2>5, <2>6, SockShut, Zenon
<1>4. ASSUME NEW c \in Slot, NEW n, NEW o, NEW op, NEW y, UNCHANGED <<setting, accept>>, net'.last = net.last, net'.late = net.late,
             Less(Here, y, c, o, n),
             \/ Sockets(net, net') /\ Equal(y, Here')
             \/ Sockets(net, net') /\ Usable(net, c) /\ More(y, Here', c, op, net.os[net.socket[c]])
             \/ /\ net'.socket = [net.socket EXCEPT ![c] = None]
                /\ \A g \in Handle : net'.os[g] = IF g = net.socket[c] THEN None ELSE net.os[g]
                /\ net'.foreign => \/ net.foreign
                                   \/ net.socket[c] \in Handle /\ net.os[net.socket[c]] \notin {None, n}
                /\ Equal(y, Here') \/ More(y, Here', c, "recv", n)
      PROVE  SockInv'
  <2>1. ~Vacant(c) /\ Named(Here, c, o, n)
    BY <1>4, Zenon DEF Vacant, Less
  <2>2. Apart => (net'.foreign => net.foreign)
    BY <1>4, <2>1, SockOwn, Zenon DEF Sockets
  <2>3. /\ \A g \in Handle : net'.os[g] \in {net.os[g], IF g = net.socket[c] THEN None ELSE net.os[g]}
        /\ net'.socket \in {net.socket, [net.socket EXCEPT ![c] = None]}
    BY <1>4, Zenon DEF Sockets
  <2>4. ASSUME Apart, NEW d \in Slot, NEW q, NEW m, Named(Here', d, q, m)
        PROVE  Named(Here, d, q, m) \/ net'.socket[d] \in {None, m}
    <3>1. \A k : Named(y, d, q, k) => Named(Here, d, q, k)
      BY <1>4, Zenon DEF Less
    <3>2. CASE Equal(y, Here')
      BY <2>4, <3>1, <3>2, Zenon DEF Equal
    <3>3. CASE Sockets(net, net') /\ Usable(net, c) /\ More(y, Here', c, op, net.os[net.socket[c]])
      <4>1. net.os[net.socket[c]] = net.socket[c] /\ net'.socket = net.socket
        BY <2>4, <3>3, SockOwn, Zenon DEF Sockets
      <4>2. Named(y, d, q, m) \/ (d = c /\ m = net.socket[c])
        BY <2>4, <3>3, <4>1, Zenon DEF More
      <4> QED  BY <3>1, <4>1, <4>2, Zenon
    <3>4. CASE net'.socket = [net.socket EXCEPT ![c] = None] /\ More(y, Here', c, "recv", n)
      BY <1>0, <2>4, <3>1, <3>4, Zenon DEF More
    <3> QED  BY <1>4, <3>2, <3>3, <3>4, Zenon
  <2> QED  BY <1>4, <2>1, <2>2, <2>3, <2>4, SockShut, Zenon
<1>5. CASE DoSend(w)
  <2> DEFINE e == Head(net.port)
  <2>1. PICK c, n : c = e.obj /\ n = e.conn
    BY Zenon
  <2>2. /\ e \in Completion /\ UNCHANGED <<setting, accept>> /\ net'.last = net.last /\ net'.late = net.late
        /\ \E y : /\ Less(Here, y, c, "send", n)
                  /\ \/ Sockets(net, net') /\ Equal(y, Here')
                     \/ Sockets(net, net') /\ Usable(net, c) /\ More(y, Here', c, "send", net.os[net.socket[c]])
                     \/ /\ net'.socket = [net.socket EXCEPT ![c] = None]
                        /\ \A g \in Handle : net'.os[g] = IF g = net.socket[c] THEN None ELSE net.os[g]
                        /\ net'.foreign => \/ net.foreign
                                           \/ net.socket[c] \in Handle /\ net.os[net.socket[c]] \notin {None, n}
                        /\ Equal(y, Here') \/ More(y, Here', c, "recv", n)
    BY <1>5, <2>1, DoSendSum, Zenon
  <2>3. c \in Slot
    BY <2>1, <2>2, CompletionType, Zenon
  <2> HIDE DEF e
  <2> QED  BY <1>4, <2>2, <2>3, Zenon
<1>6. CASE DoRecv(w)
  <2> DEFINE e == Head(net.port)
  <2>1. PICK c, n : c = e.obj /\ n = e.conn
    BY Zenon
  <2>2. /\ e \in Completion /\ UNCHANGED <<setting, accept>> /\ net'.last = net.last /\ net'.late = net.late
        /\ \E y : /\ Less(Here, y, c, "recv", n)
                  /\ \/ Sockets(net, net') /\ Usable(net, c) /\ More(y, Here', c, "recv", net.os[net.socket[c]])
                     \/ /\ net'.socket = [net.socket EXCEPT ![c] = None]
                        /\ \A g \in Handle : net'.os[g] = IF g = net.socket[c] THEN None ELSE net.os[g]
                        /\ net'.foreign => \/ net.foreign
                                           \/ net.socket[c] \in Handle /\ net.os[net.socket[c]] \notin {None, n}
                        /\ Equal(y, Here') \/ More(y, Here', c, "recv", n)
    BY <1>6, <2>1, DoRecvSum, Zenon
  <2>3. c \in Slot
    BY <2>1, <2>2, CompletionType, Zenon
  <2> HIDE DEF e
  <2> QED  BY <1>4, <2>2, <2>3, Zenon
<1> QED  BY <1>1, <1>2, <1>3, <1>5, <1>6, Zenon DEF WorkerThread

LEMMA SockSame ==
    ASSUME SockInv, UNCHANGED <<setting, accept>>, Sockets(net, net'), Equal(Here, Here')
    PROVE  SockInv'
<1>1. Apart' => Apart
  BY Zenon DEF Apart, Tidy, Sockets
<1>2. \A c, op, n : Named(Here', c, op, n) => Named(Here, c, op, n)
  BY Zenon DEF Equal
<1> QED  BY <1>1, <1>2 DEF SockInv, Sockets

LEMMA SockSession ==
    ASSUME Types, StayInv, SockInv, NEW c \in Slot, Bind(c) \/ Write(c) \/ HeartbeatOver(c) \/ SessionRelease(c)
    PROVE  SockInv'
<1>1. CASE Bind(c)
  BY <1>1, BindSum, SockSame, Zenon
<1>2. CASE Write(c)
  <2>1. /\ UNCHANGED <<setting, accept>> /\ Sockets(net, net') /\ net.param[c]
        /\ \/ Usable(net, c) /\ More(Here, Here', c, "send", net.os[net.socket[c]])
           \/ Equal(Here, Here')
    BY <1>2, WriteSum, Zenon
  <2>2. CASE Equal(Here, Here')
    BY <2>1, <2>2, SockSame, Zenon
  <2>3. CASE Usable(net, c) /\ More(Here, Here', c, "send", net.os[net.socket[c]])
    <3>1. ASSUME Apart, NEW d \in Slot, NEW op, NEW n, Named(Here', d, op, n)
          PROVE  Named(Here, d, op, n) \/ net'.socket[d] \in {None, n}
      <4>1. net.os[net.socket[c]] = net.socket[c] /\ net'.socket = net.socket
        BY <2>1, <2>3, <3>1, SockOwn, Zenon DEF Sockets
      <4> QED  BY <2>3, <3>1, <4>1, Zenon DEF More
    <3>2. ~Vacant(c)
      BY <2>1, Zenon DEF Vacant
    <3> QED  BY <2>1, <3>1, <3>2, SockShut, Zenon DEF Sockets
  <2> QED  BY <2>1, <2>2, <2>3, Zenon
<1>3. CASE HeartbeatOver(c)
  <2>1. /\ UNCHANGED <<setting, accept>> /\ net.param[c] /\ (net'.foreign => net.foreign)
        /\ \A g \in Handle : net'.os[g] = IF g = net.socket[c] THEN None ELSE net.os[g]
        /\ net'.socket = [net.socket EXCEPT ![c] = None]
        /\ net'.last = net.last /\ net'.late = net.late /\ Equal(Here, Here')
    BY <1>3, HeartbeatOverSum, Zenon DEF Frame
  <2>2. ~Vacant(c) /\ \A d, op, n : Named(Here', d, op, n) => Named(Here, d, op, n)
    BY <2>1, Zenon DEF Vacant, Equal
  <2> QED  BY <2>1, <2>2, SockShut, Zenon
<1>4. CASE SessionRelease(c)
  <2>1. /\ UNCHANGED <<setting, accept>> /\ net.param[c] /\ (net'.foreign => net.foreign)
        /\ \A g \in Handle : net'.os[g] = net.os[g]
        /\ net'.socket = net.socket
        /\ net'.last = net.last /\ (~net'.late => ~net.late) /\ Equal(Here, Here')
    BY <1>4, SessionReleaseSum, Zenon
  <2>2. ~Vacant(c) /\ \A d, op, n : Named(Here', d, op, n) => Named(Here, d, op, n)
    BY <2>1, Zenon DEF Vacant, Equal
  <2> QED  BY <2>1, <2>2, SockShut, Zenon
<1> QED  BY <1>1, <1>2, <1>3, <1>4, Zenon

LEMMA SockAccept ==
    ASSUME Types, PoolInv, StayInv, SockInv, NEW h \in Handle, Accept(h)
    PROVE  SockInv'
<1> DEFINE n == net.last + 1
<1>1. PICK c : c = ret'[1]
  BY Zenon
<1>2. /\ c \in Slot /\ c \notin usedList /\ n \in Conn /\ setting' = setting /\ Here' = Here
      /\ net.os[h] = None /\ (setting.handles \/ h = n)
      /\ accept' = [obj |-> c, conn |-> n, handle |-> h]
      /\ net'.os = [net.os EXCEPT ![h] = n] /\ net'.socket = [net.socket EXCEPT ![c] = h]
      /\ net'.last = n /\ net'.foreign = net.foreign /\ net'.late = net.late
  BY <1>1, AcceptSum, Zenon
<1>3. accept'.obj = c /\ accept'.conn = n /\ accept'.handle = h
  BY <1>2, Zenon
<1>4. /\ net.socket \in [Slot -> Handle \cup {None}] /\ net.last \in 0..MaxConns /\ None \notin Handle
      /\ net.os \in [Handle -> Conn \cup {None}]
  BY DEF Types, Rec, Handle, None
<1>5. CASE ~Apart'
  BY <1>5, Zenon DEF SockInv
<1>6. CASE Apart'
  <2>1. Apart /\ Tidy /\ h = n
    BY <1>2, <1>6, Zenon DEF Apart, Tidy
  <2>2. n = net.last + 1
    BY Zenon
  <2> HIDE DEF n
  <2>3. ASSUME NEW g \in Handle PROVE net'.os[g] \in {None, g} /\ (g > net'.last => net'.os[g] = None)
    <3>1. net.os[g] \in {None, g} /\ (g > net.last => net.os[g] = None)
      BY <2>1, Zenon DEF SockInv
    <3>2. CASE g = h
      <4>1. net'.os[g] = n /\ net'.last = n /\ g = n
        BY <1>2, <1>4, <2>1, <3>2, Zenon
      <4>2. ~(n > n)
        BY <1>4, <2>2
      <4> QED  BY <4>1, <4>2, Zenon
    <3>3. CASE g # h
      <4>1. net'.os[g] = net.os[g]
        BY <1>2, <1>4, <3>3, Zenon
      <4>2. g > net'.last => g > net.last
        BY <1>2, <1>4, <2>2 DEF Handle
      <4> QED  BY <3>1, <4>1, <4>2, Zenon
    <3> QED  BY <3>2, <3>3, Zenon
  <2>4. \A d \in Slot : net.socket[d] <= net.last /\ net.socket[d] \in Nat
    BY <1>4, <2>1 DEF SockInv, Handle, None
  <2>5. net'.socket[c] = n /\ \A d \in Slot \ {c} : net'.socket[d] = net.socket[d]
    BY <1>2, <1>4, <2>1, Zenon
  <2>6. \A d \in Slot : net'.socket[d] <= n /\ (net'.socket[d] = n => d = c)
    BY <1>4, <2>2, <2>4, <2>5
  <2>7. ASSUME NEW d \in Slot, NEW op, NEW m, Named(Here, d, op, m) PROVE net'.socket[d] \in {None, m}
    <3>1. Vacant(c)
      BY <1>2, <2>1, Zenon DEF StayInv
    <3>2. d # c
      BY <2>7, <3>1, Zenon DEF Vacant
    <3> QED  BY <2>1, <2>5, <2>7, <3>2, Zenon DEF SockInv
  <2>8. ASSUME NEW d \in Slot, NEW e \in Slot, net'.socket[d] = net'.socket[e], net'.socket[d] # None PROVE d = e
    <3>1. CASE d = c \/ e = c
      BY <2>5, <2>6, <2>8, <3>1, Zenon
    <3>2. CASE d # c /\ e # c
      BY <2>1, <2>5, <2>8, <3>2, Zenon DEF SockInv
    <3> QED  BY <3>1, <3>2, Zenon
  <2>9. net'.os[h] = n /\ ~net'.foreign
    BY <1>2, <1>4, <2>1, Zenon DEF SockInv
  <2>10. /\ accept'.handle = accept'.conn /\ net'.socket[accept'.obj] = accept'.handle
         /\ net'.os[accept'.handle] = accept'.conn
    BY <1>3, <2>1, <2>5, <2>9, Zenon
  <2>11. \A d \in Slot : /\ net'.socket[d] <= net'.last
                         /\ \A op, m : Named(Here', d, op, m) => net'.socket[d] \in {None, m}
    BY <1>2, <2>6, <2>7, Zenon
  <2> QED  BY <2>3, <2>8, <2>9, <2>10, <2>11, Zenon DEF SockInv
<1> QED  BY <1>5, <1>6, Zenon

LEMMA SockAcceptRecv ==
    ASSUME Types, StayInv, SockInv, AcceptRecv
    PROVE  SockInv'
<1>1. PICK c, h : c = accept.obj /\ h = accept.handle
  BY Zenon
<1>2. /\ accept # NotAccepting /\ c \in Slot /\ accept' = NotAccepting /\ setting' = setting
      /\ net'.last = net.last /\ net'.socket = net.socket
      /\ \/ /\ Usable(net, c) /\ Sockets(net, net')
            /\ More(Here, Here', c, "recv", net.os[net.socket[c]])
         \/ /\ Equal(Here, Here')
            /\ \A g \in Handle : net'.os[g] = IF g = h THEN None ELSE net.os[g]
            /\ net'.foreign => net.foreign \/ net.os[h] \notin {None, accept.conn}
            /\ net'.late = (net.late \/ c \in net.queued)
  BY <1>1, AcceptRecvSum, Zenon
<1>3. CASE ~Apart'
  BY <1>3, Zenon DEF SockInv
<1>4. CASE Apart'
  <2>1. Apart /\ Tidy
    BY <1>2, <1>4, Zenon DEF Apart, Tidy, Sockets
  <2>2. \A g \in Handle : net'.os[g] \in {None, net.os[g]}
    BY <1>2, Zenon DEF Sockets
  <2>3. \A g \in Handle : net'.os[g] \in {None, g} /\ (g > net'.last => net'.os[g] = None)
    BY <1>2, <2>1, <2>2, Zenon DEF SockInv
  <2>4. ASSUME NEW d \in Slot, NEW op, NEW n, Named(Here', d, op, n) PROVE net'.socket[d] \in {None, n}
    <3>1. CASE Named(Here, d, op, n)
      BY <1>2, <2>1, <3>1, Zenon DEF SockInv
    <3>2. CASE ~Named(Here, d, op, n)
      <4>1. Usable(net, c) /\ d = c /\ n = net.os[net.socket[c]]
        BY <1>2, <2>4, <3>2, Zenon DEF Equal, More
      <4> QED  BY <1>2, <2>1, <4>1, SockOwn, Zenon
    <3> QED  BY <3>1, <3>2, Zenon
  <2>5. ~net'.foreign
    BY <1>1, <1>2, <2>1, Zenon DEF SockInv, Sockets
  <2>6. /\ \A d \in Slot : net'.socket[d] <= net'.last
        /\ \A d, e \in Slot : net'.socket[d] = net'.socket[e] /\ net'.socket[d] # None => d = e
    BY <1>2, <2>1 DEF SockInv
  <2> QED  BY <1>2, <2>3, <2>4, <2>5, <2>6, Zenon DEF SockInv
<1> QED  BY <1>3, <1>4, Zenon

LEMMA SockKept ==
    ASSUME Types, PoolInv, StayInv, SockInv, [Next]_vars
    PROVE  SockInv'
<1>1. ASSUME NEW o \in net.pending, NEW kind \in {"packet", "zero", "failed"}, Complete(o, kind)
      PROVE  SockInv'
  <2>1. UNCHANGED <<setting, accept>> /\ Sockets(net, net') /\ Equal(Here, Here')
    BY <1>1, CompleteSum, Zenon
  <2> QED  BY <2>1, SockSame, Zenon
<1>2. CASE UNCHANGED netVars
  <2>1. UNCHANGED <<setting, accept>> /\ Here' = Here /\ net' = net
    BY <1>2, Zenon DEF netVars, Here
  <2> QED  BY <2>1, SockSame, Zenon DEF Equal, Sockets
<1>3. CASE UNCHANGED vars
  BY <1>2, <1>3, Zenon DEF vars
<1> QED  BY <1>1, <1>2, <1>3, SockAccept, SockAcceptRecv, SockWorker, SockSession, ObjectIsSlot, Zenon
         DEF Next, NetNext

-----------------------------------------------------------------------------
(* While moreover nothing is sent and no receive of a new connection fails, *)
(* a connector counts the receive that names it.                           *)
Plain == Apart /\ ~setting.sends /\ ~setting.faults

Counts(c) == /\ (\E n : Named(Here, c, "recv", n)) => net.recvRef[c] = 1
             /\ (\A n : ~Named(Here, c, "recv", n)) => net.recvRef[c] = 0

CountInv == Plain => \A c \in Slot : Counts(c)

(* What nothing happens to is counted as it was.                           *)
LEMMA CountsSame ==
    ASSUME NEW d, net'.recvRef[d] = net.recvRef[d], Counts(d),
           \A n : Named(Here', d, "recv", n) <=> Named(Here, d, "recv", n)
    PROVE  Counts(d)'
  BY Zenon DEF Counts

LEMMA CountSame ==
    ASSUME CountInv, setting' = setting, net'.recvRef = net.recvRef, ~net'.late => ~net.late, Equal(Here, Here')
    PROVE  CountInv'
<1>1. Plain' => Plain
  BY Zenon DEF Plain, Apart, Tidy
<1> QED  BY <1>1, CountsSame, Zenon DEF CountInv, Equal

LEMMA CountSession ==
    ASSUME Types, CountInv, NEW c \in Slot, Bind(c) \/ Write(c) \/ HeartbeatOver(c) \/ SessionRelease(c)
    PROVE  CountInv'
<1>1. CASE Bind(c)
  BY <1>1, BindSum, CountSame, Zenon DEF Sockets
<1>2. CASE Write(c)
  BY <1>2, WriteSum, Zenon DEF CountInv, Plain
<1>3. CASE HeartbeatOver(c)
  BY <1>3, HeartbeatOverSum, CountSame, Zenon DEF Frame
<1>4. CASE SessionRelease(c)
  BY <1>4, SessionReleaseSum, CountSame, Zenon
<1> QED  BY <1>1, <1>2, <1>3, <1>4, Zenon

LEMMA CountAccept ==
    ASSUME Types, StayInv, SockInv, CountInv, AcceptRecv
    PROVE  CountInv'
<1>1. PICK c, n : c = accept.obj /\ n = net.os[net.socket[c]]
  BY Zenon
<1>2. /\ accept # NotAccepting /\ c \in Slot /\ setting' = setting
      /\ \A d \in Slot \ {c} : net'.recvRef[d] = net.recvRef[d]
      /\ \/ /\ Sockets(net, net') /\ net'.recvRef[c] = Inc(net.recvRef[c])
            /\ More(Here, Here', c, "recv", n)
         \/ /\ setting.faults \/ ~Usable(net, c)
            /\ net'.late = (net.late \/ c \in net.queued)
  BY <1>1, AcceptRecvSum, Zenon
<1>3. SUFFICES ASSUME Plain', NEW d \in Slot PROVE Counts(d)'
  BY Zenon DEF CountInv
<1>4. Plain /\ Apart /\ Tidy
  BY <1>2, <1>3, Zenon DEF Plain, Apart, Tidy, Sockets
<1>5. Usable(net, c)
  <2>1. net.socket[c] = accept.handle /\ net.os[accept.handle] = accept.conn
    BY <1>1, <1>2, <1>4, Zenon DEF SockInv
  <2>2. accept.handle # None /\ accept.conn # None
    BY <1>2 DEF Types, Acceptor, Conn, Handle, None
  <2> QED  BY <2>1, <2>2, Zenon DEF Usable
<1>6. More(Here, Here', c, "recv", n) /\ net'.recvRef[c] = Inc(net.recvRef[c])
  BY <1>2, <1>4, <1>5, Zenon DEF Plain
<1>7. Counts(d)
  BY <1>4, Zenon DEF CountInv
<1>8. CASE d # c
  BY <1>2, <1>6, <1>7, <1>8, CountsSame, Zenon DEF More
<1>9. CASE d = c
  <2>1. Vacant(c)
    BY <1>1, <1>2, <1>4, Zenon DEF StayInv
  <2>2. net.recvRef[c] = 0
    BY <1>7, <1>9, <2>1, Zenon DEF Counts, Vacant
  <2>3. Inc(0) = 1
    BY ConnectionsAssumption DEF Inc
  <2> QED  BY <1>6, <1>9, <2>2, <2>3, Zenon DEF Counts, More
<1> QED  BY <1>8, <1>9, Zenon

LEMMA CountWorker ==
    ASSUME Types, SendInv, StayInv, CountInv, NEW w \in Worker, WorkerThread(w)
    PROVE  CountInv'
<1>1. ASSUME Plain, NEW c \in Slot
      PROVE  Sole(Here, c, "recv") /\ Counts(c) /\ \A n : ~Named(Here, c, "send", n)
  BY <1>1 DEF Plain, Apart, Tidy, StayInv, OneRecv, CountInv, SendInv, SendOf
<1>2. Dec(1) = 0 /\ Inc(0) = 1
  BY ConnectionsAssumption DEF Dec, Inc
<1>3. CASE Failed(w)
  <2> DEFINE e == Head(net.port)
  <2>1. PICK c, n, op, y : c = e.obj /\ n = e.conn /\ op = e.op /\ y = Ways(Popped, worker)
    BY Zenon
  <2>2. /\ e \in Completion /\ setting' = setting /\ Frame(net, net')
        /\ Less(Here, y, c, op, n)
        /\ net.recvRef[c] # 0 => More(y, Here', c, "recv", n)
    BY <1>3, <2>1, FailedSum, Zenon DEF Shuts
  <2>3. c \in Slot /\ op \in {"recv", "send"}
    BY <2>1, <2>2, CompletionType, Zenon
  <2> HIDE DEF e
  <2>4. net'.recvRef = net.recvRef /\ net'.late = net.late
    BY <2>2, Zenon DEF Frame
  <2> SUFFICES ASSUME Plain', NEW d \in Slot PROVE Counts(d)'
    BY Zenon DEF CountInv
  <2>5. Plain
    BY <2>2, <2>4, Zenon DEF Plain, Apart, Tidy
  <2>6. Named(Here, c, op, n)
    BY <2>2, Zenon DEF Less
  <2>7. op = "recv" /\ net.recvRef[c] = 1
    BY <1>1, <2>3, <2>5, <2>6, Zenon DEF Counts
  <2>8. \A m : Named(Here', d, "recv", m) <=> Named(Here, d, "recv", m)
    <3>1. More(y, Here', c, "recv", n)
      BY <2>2, <2>7
    <3> QED  BY <2>2, <2>6, <2>7, <3>1, SMTT(30) DEF Less, More
  <2> QED  BY <1>1, <2>4, <2>5, <2>8, CountsSame, Zenon
<1>4. CASE Closed(w)
  BY <1>4, ClosedSum, CountSame, Zenon DEF Shuts, Frame
<1>5. CASE Uncounted(w)
  <2>1. PICK c, n : c = worker[w].obj /\ n = worker[w].conn
    BY Zenon
  <2>2. /\ c \in Slot /\ setting' = setting /\ Less(Here, Here', c, "recv", n)
        /\ net'.recvRef = IF net.sendRef[c] # 0 \/ net.recvRef[c] # 0
                          THEN [net.recvRef EXCEPT ![c] = Dec(@)] ELSE net.recvRef
        /\ net'.late = net.late \/ net'.late = (net.late \/ GoesLate(net, c))
    BY <1>5, <2>1, UncountedSum, Zenon DEF Sockets
  <2> SUFFICES ASSUME Plain', NEW d \in Slot PROVE Counts(d)'
    BY Zenon DEF CountInv
  <2>3. Plain
    BY <2>2, Zenon DEF Plain, Apart, Tidy
  <2>4. Counts(d) /\ Counts(c) /\ Sole(Here, c, "recv") /\ Named(Here, c, "recv", n)
    BY <1>1, <2>2, <2>3, Zenon DEF Less
  <2>5. net.recvRef[c] = 1 /\ net'.recvRef = [net.recvRef EXCEPT ![c] = Dec(@)]
    BY <2>2, <2>4 DEF Counts
  <2>6. net.recvRef \in [Slot -> 0..RefSize - 1]
    BY Zenon DEF Types, Rec
  <2>7. CASE d # c
    BY <2>2, <2>4, <2>5, <2>6, <2>7, CountsSame, Zenon DEF Less
  <2>8. CASE d = c
    <3>1. \A m : ~Named(Here', c, "recv", m)
      BY <2>2, <2>4, Zenon DEF Less
    <3>2. net'.recvRef[c] = 0
      BY <1>2, <2>2, <2>5, <2>6, Zenon
    <3> QED  BY <2>8, <3>1, <3>2, Zenon DEF Counts
  <2> QED  BY <2>7, <2>8, Zenon
<1>6. CASE DoSend(w)
  <2> DEFINE e == Head(net.port)
  <2>1. PICK c, n : c = e.obj /\ n = e.conn
    BY Zenon
  <2>2. /\ e \in Completion /\ setting' = setting /\ net'.late = net.late
        /\ \E y : Less(Here, y, c, "send", n)
    BY <1>6, <2>1, DoSendSum, Zenon
  <2>3. c \in Slot
    BY <2>1, <2>2, CompletionType, Zenon
  <2> HIDE DEF e
  <2>4. Plain' => Plain
    BY <2>2, Zenon DEF Plain, Apart, Tidy
  <2> QED  BY <1>1, <2>2, <2>3, <2>4, Zenon DEF CountInv, Less
<1>7. CASE DoRecv(w)
  <2> DEFINE e == Head(net.port)
  <2>1. PICK c, n : c = e.obj /\ n = e.conn
    BY Zenon
  <2>2. /\ e \in Completion /\ setting' = setting /\ net'.late = net.late
        /\ \A d \in Slot \ {c} : net'.recvRef[d] = net.recvRef[d]
        /\ \E y, m :
              /\ Less(Here, y, c, "recv", n)
              /\ \/ More(y, Here', c, "recv", m) /\ net'.recvRef[c] = Inc(Dec(net.recvRef[c]))
                 \/ /\ net'.recvRef[c] \in {Dec(net.recvRef[c]), Inc(Dec(net.recvRef[c]))}
                    /\ net'.recvRef[c] = 0 => Equal(y, Here')
                    /\ net'.recvRef[c] # 0 => More(y, Here', c, "recv", n)
    BY <1>7, <2>1, DoRecvSum, Zenon
  <2>3. c \in Slot
    BY <2>1, <2>2, CompletionType, Zenon
  <2> HIDE DEF e
  <2> SUFFICES ASSUME Plain', NEW d \in Slot PROVE Counts(d)'
    BY Zenon DEF CountInv
  <2>4. Plain
    BY <2>2, Zenon DEF Plain, Apart, Tidy
  <2>5. PICK y, m :
              /\ Less(Here, y, c, "recv", n)
              /\ \/ More(y, Here', c, "recv", m) /\ net'.recvRef[c] = Inc(Dec(net.recvRef[c]))
                 \/ /\ net'.recvRef[c] \in {Dec(net.recvRef[c]), Inc(Dec(net.recvRef[c]))}
                    /\ net'.recvRef[c] = 0 => Equal(y, Here')
                    /\ net'.recvRef[c] # 0 => More(y, Here', c, "recv", n)
    BY <2>2, Zenon
  <2>6. Counts(d) /\ Counts(c) /\ Sole(Here, c, "recv") /\ Named(Here, c, "recv", n)
    BY <1>1, <2>3, <2>4, <2>5, Zenon DEF Less
  <2>7. net.recvRef[c] = 1 /\ \A k : ~Named(y, c, "recv", k)
    BY <2>5, <2>6, Zenon DEF Counts, Less
  <2>8. CASE d # c
    <3>1. \A k : Named(Here', d, "recv", k) <=> Named(Here, d, "recv", k)
      BY <2>5, <2>8, Zenon DEF Less, More, Equal
    <3> QED  BY <2>2, <2>6, <2>8, <3>1, CountsSame, Zenon
  <2>9. CASE d = c
    <3>1. CASE net'.recvRef[c] = 0 /\ Equal(y, Here')
      BY <2>7, <2>9, <3>1, Zenon DEF Counts, Equal
    <3>2. CASE net'.recvRef[c] = 1 /\ \E k : More(y, Here', c, "recv", k)
      BY <2>9, <3>2, Zenon DEF Counts, More
    <3> QED  BY <1>2, <2>5, <2>7, <3>1, <3>2, Zenon
  <2> QED  BY <2>8, <2>9, Zenon
<1> QED  BY <1>3, <1>4, <1>5, <1>6, <1>7, Zenon DEF WorkerThread

LEMMA CountKept ==
    ASSUME Types, PoolInv, SendInv, StayInv, SockInv, CountInv, [Next]_vars
    PROVE  CountInv'
<1>1. ASSUME NEW o \in net.pending, NEW kind \in {"packet", "zero", "failed"}, Complete(o, kind)
      PROVE  CountInv'
  <2>1. setting' = setting /\ Frame(net, net') /\ Equal(Here, Here')
    BY <1>1, CompleteSum, Zenon
  <2> QED  BY <2>1, CountSame, Zenon DEF Frame
<1>2. ASSUME NEW h \in Handle, Accept(h) PROVE CountInv'
  <2>1. setting' = setting /\ net'.recvRef = net.recvRef /\ net'.late = net.late /\ Here' = Here
    BY <1>2, AcceptSum, Zenon
  <2> QED  BY <2>1, CountSame, Zenon DEF Equal
<1>3. CASE UNCHANGED netVars
  <2>1. setting' = setting /\ Here' = Here /\ net' = net
    BY <1>3, Zenon DEF netVars, Here
  <2> QED  BY <2>1, CountSame, Zenon DEF Equal
<1>4. CASE UNCHANGED vars
  BY <1>3, <1>4, Zenon DEF vars
<1> QED  BY <1>1, <1>2, <1>3, <1>4, CountAccept, CountWorker, CountSession, ObjectIsSlot, Zenon DEF Next, NetNext

-----------------------------------------------------------------------------
(* The inductive invariant.                                                *)
ConnInv ==
    /\ PoolInv /\ Types /\ Idle /\ OpenIsHeld /\ Accepting
    /\ SendInv /\ StayInv /\ SockInv /\ CountInv

LEMMA ConnInitInv == Init => ConnInv
<1> SUFFICES ASSUME Init PROVE ConnInv
  BY Zenon
<1>1. PoolInv /\ None \notin Handle
  BY PoolInitInv DEF Init, None, Handle
<1>2. /\ setting \in Setting /\ accept = NotAccepting /\ usedList = {}
      /\ worker = [w \in Worker |-> NoCompletion]
  BY ConnectionsAssumption, Zenon DEF Init, PoolInit
<1>3. /\ net \in Rec /\ net.pending = {} /\ net.port = << >> /\ net.queued = {} /\ net.last = 0
      /\ ~net.foreign /\ ~net.late
      /\ \A c \in Slot : /\ net.socket[c] = None /\ net.sendRef[c] = 0 /\ net.recvRef[c] = 0
                         /\ ~net.param[c] /\ ~net.buffer[c]
      /\ \A h \in Handle : net.os[h] = None
  BY ConnectionsAssumption DEF Init, Rec, None
<1>4. Types
  <2> QED  BY <1>2, <1>3, Zenon DEF Types, Acceptor
<1>5. ASSUME NEW c, NEW op PROVE Sole(Here, c, op) /\ \A n : ~Named(Here, c, op, n)
  <2>1. \A n : ~Named(Here, c, op, n)
    BY <1>2, <1>3 DEF Named, Here, Ways
  <2> QED  BY <2>1, NoneIsSole, Zenon
<1>6. \A c \in Slot : Vacant(c) /\ OneRecv(c) /\ SendOf(c) /\ Counts(c)
  BY <1>3, <1>5, Zenon DEF Vacant, OneRecv, SendOf, Counts
<1>7. Idle /\ SendInv /\ StayInv /\ CountInv
  BY <1>2, <1>3, <1>6, Zenon DEF Idle, SendInv, StayInv, CountInv
<1>8. SockInv
  BY <1>2, <1>3, <1>5 DEF SockInv, None
<1>9. OpenIsHeld /\ Accepting
  BY <1>2, <1>3, Zenon DEF OpenIsHeld, Accepting
<1> QED  BY <1>1, <1>4, <1>7, <1>8, <1>9, ZenonT(40) DEF ConnInv

LEMMA ConnNextInv == ConnInv /\ [Next]_vars => ConnInv' /\ [PoolNext]_poolVars
<1> SUFFICES ASSUME ConnInv, [Next]_vars PROVE ConnInv' /\ [PoolNext]_poolVars
  BY Zenon
<1>1. OpenIsHeld' /\ Accepting' /\ [PoolNext]_poolVars
  BY HeldKept, Zenon DEF ConnInv
<1>2. PoolInv'
  BY <1>1, PoolNextInv, Zenon DEF ConnInv
<1> QED  BY <1>1, <1>2, TypesKept, IdleKept, SendKept, StayKept, SockKept, CountKept, Zenon DEF ConnInv

(* No accepted connection is forgotten (Network::AcceptThread, WorkerThread *)
(* and Connector::TryRelease): while it is open a Connector in use holds   *)
(* its socket, whatever the threads and the clients do, in every Setting.  *)
THEOREM OpenAlwaysHeld == Spec => []OpenIsHeld
<1>1. ConnInv => OpenIsHeld
  BY Zenon DEF ConnInv
<1> QED  BY <1>1, ConnInitInv, ConnNextInv, PTL DEF Spec

(* The network's threads use ConnectorMgr as ObjectPoolMgr says: in every  *)
(* interleaving of accepts, completions and releases no Connector object   *)
(* is lost, and none is handed out while it is in use.                     *)
THEOREM PoolUnderNetwork == Spec => []Partition /\ IsAllocator
<1>1. Init => PoolInit
  BY Zenon DEF Init
<1>2. Spec => PoolSpec
  BY <1>1, ConnInitInv, ConnNextInv, PTL DEF Spec, PoolSpec
<1> QED  BY <1>2, Partitioned, KeepsPromise, Zenon

(* No connection is closed on behalf of another that had the same Connector *)
(* object before (Network::Disconnect and WorkerThread close what _socket  *)
(* holds by then), while the scan of the sessions is slower than the       *)
(* completions, handles are not reused and no connector went back into the *)
(* pool with a packet of it still queued.                                  *)
THEOREM ClosedForOwnCause == Spec => []OwnCause
<1>1. ConnInv => OwnCause
  BY Zenon DEF ConnInv, SockInv, Apart, Tidy, OwnCause
<1> QED  BY <1>1, ConnInitInv, ConnNextInv, PTL DEF Spec

(* When DoSend takes the completion of a send, the buffer it reads through *)
(* _SendRequest.pBuffer has not been deleted, while the scan of the        *)
(* sessions is slower than the completions: with any number of connections *)
(* and workers, and with socket handles and Connector objects reused.      *)
THEOREM SendBufferThere == Spec => []BufferThere
<1>1. ConnInv => BufferThere
  <2> SUFFICES ASSUME ConnInv, ~setting.prompt, NEW i \in DOMAIN net.port, net.port[i].op = "send"
               PROVE  net.buffer[net.port[i].obj]
    BY Zenon DEF BufferThere
  <2>1. net.port \in Seq(Completion)
    BY Zenon DEF ConnInv, Types, Rec
  <2>2. PICK e : e = net.port[i] /\ e \in Completion
    BY <2>1
  <2>3. e.obj \in Slot /\ Named(Here, e.obj, "send", e.conn)
    BY <2>2, CompletionType, Zenon DEF Named, Here, Ways, Is
  <2> QED  BY <2>2, <2>3, Zenon DEF ConnInv, SendInv, SendOf
<1> QED  BY <1>1, ConnInitInv, ConnNextInv, PTL DEF Spec

(* DecRecvRef never takes _dwRecvRef below zero, where it would wrap, and  *)
(* no receive is counted twice, under the conditions NoWrap names.         *)
THEOREM RecvCountNeverWraps == Spec => []NoWrap
<1>1. ConnInv => NoWrap
  BY Zenon DEF ConnInv, CountInv, Counts, Plain, Apart, Tidy, NoWrap
<1> QED  BY <1>1, ConnInitInv, ConnNextInv, PTL DEF Spec
=============================================================================
