---------------------------- MODULE ObjectPoolMgr ----------------------------
(***************************************************************************)
(* The two object managers of _lib/object_pool_mgr.h, both under _lock in  *)
(* every operation.                                                        *)
(*                                                                         *)
(*   ObjectPoolMgrBase (ConnectorMgr): SetFreeObject takes back an object  *)
(*   only if it is in _usedList; it may be called twice.                   *)
(*   ObjectMgrBase over ObjectPool (UserSessionMgr, ZoneMgr): SetFreeObject *)
(*   pushes to _freeList whatever it is given; its callers must not call   *)
(*   it twice (UserSessions!NoDoubleFree).                                 *)
(*                                                                         *)
(* Objects are numbered in the order they are allocated.  _usedList is     *)
(* only searched, so it is a set here; _freeList is a stack whose top is   *)
(* its first element.                                                      *)
(***************************************************************************)
EXTENDS Integers, Sequences

CONSTANTS InitCount,  \* objects at the start, or the first block's size
          MaxPool     \* bound on the objects allocated

ASSUME PoolAssumption ==
    /\ InitCount \in Nat \ {0}
    /\ MaxPool \in Nat /\ InitCount <= MaxPool

VARIABLES checked,    \* this is an ObjectPoolMgrBase, else an ObjectMgrBase
          poolCount,  \* objects allocated
          addCount,   \* objects the next AddAlloc adds
          freeList,   \* _freeList
          usedList,   \* _usedList
          ret         \* history: what GetFreeObject last returned, and a
                      \* bit that changes with every return

poolVars == <<checked, poolCount, addCount, freeList, usedList, ret>>

Object == 1..poolCount

PoolTypeOK ==
    /\ checked \in BOOLEAN
    /\ poolCount \in 0..MaxPool /\ addCount \in Nat \ {0}
    /\ freeList \in Seq(Object)
    /\ usedList \in SUBSET Object
    /\ ret \in (0..poolCount) \X {0, 1}

(* ObjectPoolMgrBase's constructor allocates InitCount objects; ObjectPool *)
(* starts without any.                                                     *)
PoolInit ==
    /\ checked \in BOOLEAN
    /\ poolCount = IF checked THEN InitCount ELSE 0
    /\ addCount = IF checked THEN 2 * InitCount ELSE InitCount
    /\ freeList = [i \in 1..poolCount |-> i]
    /\ usedList = {}
    /\ ret = <<0, 0>>

-----------------------------------------------------------------------------
(* The pool after AddAlloc: addCount new objects; ObjectPoolMgrBase adds   *)
(* twice what it has, ObjectPool twice what it last added.                 *)
Allocated == [i \in 1..addCount |-> poolCount + i]
NextAdd == IF checked THEN 2 * (poolCount + addCount) ELSE 2 * addCount

(* GetFreeObject: the top of _freeList, after AddAlloc if it is empty.     *)
GetTopLate(list) ==
    /\ usedList' = usedList \cup {Head(list)}
    /\ freeList' = Tail(list)
    /\ ret' = <<IF Tail(list) = << >> THEN 0 ELSE Head(Tail(list)), 1 - ret[2]>>

GetTop(list) ==
    /\ usedList' = usedList \cup {Head(list)}
    /\ freeList' = Tail(list)
    /\ ret' = <<Head(list), 1 - ret[2]>>

GetFreeObject ==
    \/ /\ freeList # << >>
       /\ GetTop(freeList)
       /\ UNCHANGED <<checked, poolCount, addCount>>
    \/ /\ freeList = << >>
       /\ poolCount + addCount <= MaxPool
       /\ GetTop(Allocated)
       /\ poolCount' = poolCount + addCount
       /\ addCount' = NextAdd
       /\ UNCHANGED checked

(* SetFreeObject: of an object that is in use, and, where the manager      *)
(* checks for it, of one that was given back before.                       *)
SetFreeObject(o) ==
    /\ checked \/ o \in usedList
    /\ \/ /\ o \in usedList
          /\ usedList' = usedList \ {o}
          /\ freeList' = <<o>> \o freeList
       \/ /\ o \notin usedList
          /\ UNCHANGED <<freeList, usedList>>
    /\ UNCHANGED <<checked, poolCount, addCount, ret>>

PoolNext == GetFreeObject \/ \E o \in Object : SetFreeObject(o)

PoolSpec == PoolInit /\ [][PoolNext]_poolVars

-----------------------------------------------------------------------------
(* Every object allocated is either free, once, or in use: none is lost    *)
(* and none can be handed out twice.                                       *)
Partition ==
    /\ \A i, j \in 1..Len(freeList) : freeList[i] = freeList[j] => i = j
    /\ \A i \in 1..Len(freeList) : freeList[i] \notin usedList
    /\ \A o \in Object : o \in usedList \/ \E i \in 1..Len(freeList) : freeList[i] = o

(* The managers keep the promise of Allocator.                             *)
Promise == INSTANCE Allocator WITH Object <- 1..MaxPool, inUse <- usedList
IsAllocator == Promise!Spec
=============================================================================
