---------------------------- MODULE WorldDbProofs ----------------------------
(***************************************************************************)
(* Proofs about WorldDb, for any number of callers and calls, any list of  *)
(* default items and any bound on the clock and on the sequence.           *)
(*                                                                         *)
(* The tables: a caller's record says how far its call is (CallOK), and    *)
(* the number of a call under way marks nothing in the tables yet (Fresh). *)
(* The generator: every number handed out is from an earlier second or     *)
(* below _sequance (Behind).                                               *)
(***************************************************************************)
EXTENDS WorldDb, SequenceTheorems, FiniteSetTheorems, TLAPS

Fields == {"step", "op", "call", "cid", "name", "todo", "list", "chars", "new", "old"}

\* The steps of each function.
Placed(x) ==
    \/ x.op = "none" /\ x.step = "idle"
    \/ /\ x.op = "CharacterCreate"
       /\ x.step \in {"open", "insertChar", "generate", "number", "insertItem", "commit"}
    \/ /\ x.op = "ItemCreate"
       /\ x.step \in {"generate", "number", "open", "insertItem", "commit"}
    \/ x.op = "ItemRemove" /\ x.step \in {"open", "delete", "commit"}

\* What a call has changed carries its number.
Changes(x) ==
    /\ x.op # "CharacterCreate" => x.chars = {}
    /\ x.op \in {"none", "ItemRemove"} => x.new = {}
    /\ x.op # "ItemRemove" => x.old = {}
    /\ \A r \in x.chars : r.by = x.call
    /\ \A i \in x.new : i.by = x.call

\* CharacterCreate: the row before the numbers, the numbers before the items,
\* and one item for each default item so far.
Creation(x) == x.op = "CharacterCreate" =>
    /\ x.todo = DefaultItems
    /\ x.list \in Seq(Nat \X Nat)
    /\ IsFiniteSet(x.new)
    /\ \A k \in 1..Cardinality(x.new) : \E i \in x.new : i.type = DefaultItems[k]
    /\ x.step \notin {"open", "insertChar"} => x.chars # {}
    /\ x.step \notin {"insertItem", "commit"} => x.new = {}
    /\ x.step = "insertItem" => /\ Len(x.list) = Len(DefaultItems)
                                /\ Cardinality(x.new) < Len(DefaultItems)
    /\ x.step = "commit" => Cardinality(x.new) = Len(DefaultItems)

\* ItemRemove: which of the two numbers are deleted.
Sns(rows) == {i.sn : i \in rows}
Removal(x) == x.op = "ItemRemove" =>
    /\ x.todo = << x.todo[1], x.todo[2] >>
    /\ x.step # "commit" => \/ x.list = x.todo /\ x.old = {}
                            \/ x.step = "delete" /\ x.list = << x.todo[2] >>
                               /\ Sns(x.old) = {x.todo[1]}
    /\ x.step = "commit" => Sns(x.old) = {x.todo[1], x.todo[2]}

CallOK(x) ==
    Fields \subseteq DOMAIN x /\ Placed(x) /\ Changes(x) /\ Creation(x) /\ Removal(x)

\* Nothing is marked with the number n.
Fresh(n) ==
    /\ \A r \in characters : r.by # n
    /\ \A i \in items : i.by # n
    /\ \A g \in gone : g.by # n
    /\ \A r \in returned : r.call # n

Active(t) == tx[t].step # "idle"

Numbering ==
    /\ calls \in Nat
    /\ \A n \in Nat : n > calls => Fresh(n)
    /\ \A t \in Caller : Active(t) => tx[t].call \in 1..calls /\ Fresh(tx[t].call)
    /\ \A t, u \in Caller : Active(t) /\ Active(u) /\ t # u => tx[t].call # tx[u].call

Clocks == clock \in Nat /\ lastTimeSec \in Nat /\ sequance \in Nat

TInv ==
    /\ DOMAIN tx = Caller /\ \A t \in Caller : CallOK(tx[t])
    /\ Numbering /\ Clocks
    /\ WholeCharacters /\ CreateAnswersTruly /\ RemovedTogether

\* The generator, under the assumptions of ItemSNUnique.
Assumed == setting.callers = 1 /\ setting.restart = "later" /\ setting.clock = "forward"

Behind(sn, second, n) == sn[1] < second \/ (sn[1] = second /\ sn[2] < n)

GInv ==
    /\ ~up => \A t \in Caller : ~Active(t)
    /\ issued \subseteq Nat \X Nat
    /\ Assumed =>
         /\ ~reissued
         /\ \A t, u \in Caller : Active(t) /\ Active(u) => t = u
         /\ lastTimeSec <= clock
         /\ \A sn \in issued : sn[1] <= clock
         /\ up => \A sn \in issued : sn[1] < clock \/ (sn[1] = lastTimeSec /\ sn[2] <= sequance)
         /\ \A t \in Caller : tx[t].step = "number" =>
              sequance <= MaxSequence /\ \A sn \in issued : Behind(sn, lastTimeSec, sequance)

-----------------------------------------------------------------------------
(* The initial state.                                                      *)

LEMMA IdleOK == CallOK(Idle) /\ Idle.step = "idle"
<1>1. Creation(Idle) /\ Removal(Idle) /\ Changes(Idle)
  BY Zenon DEF Creation, Removal, Changes, Idle
<1>2. Fields \subseteq DOMAIN Idle /\ Placed(Idle)
  BY Zenon DEF Fields, Placed, Idle
<1> QED  BY <1>1, <1>2, Zenon DEF CallOK, Idle

LEMMA StoredWhole ==
    ASSUME NEW k \in 1..Len(DefaultItems)
    PROVE  \E i \in StoredItems : i.by = 0 /\ i.type = DefaultItems[k]
<1>1. Len(DefaultItems) \in Nat /\ k - 1 \in 0..Len(DefaultItems) - 1 /\ (k - 1) + 1 = k
  BY WorldDbAssumption
<1> DEFINE i == [sn |-> << 0, k - 1 >>, type |-> DefaultItems[(k - 1) + 1],
                 owner |-> Stored.cid, by |-> 0]
<1>2. i \in StoredItems
  BY <1>1, Zenon DEF StoredItems
<1>3. i.by = 0 /\ i.type = DefaultItems[k]
  BY <1>1, Zenon
<1> QED  BY <1>2, <1>3, Zenon

LEMMA InitTInv == Init => TInv
<1> SUFFICES ASSUME Init PROVE TInv
  BY Zenon
<1>1. \A t \in Caller : tx[t] = Idle
  BY Zenon DEF Init
<1>2. DOMAIN tx = Caller /\ \A t \in Caller : CallOK(tx[t]) /\ ~Active(t)
  BY <1>1, IdleOK, Zenon DEF Init, Active
<1>3. /\ \A r \in characters : r = Stored
      /\ \A i \in items : i.by = 0
      /\ gone = {} /\ returned = {} /\ calls = 0
  BY DEF Init, StoredItems
<1>4. Numbering
  BY <1>2, <1>3 DEF Numbering, Fresh, Stored
<1>5. Clocks
  BY Zenon DEF Init, Clocks
<1>6. WholeCharacters
  <2>1. CASE setting.stored
    BY <2>1, StoredWhole DEF Init, WholeCharacters, Stored
  <2>2. CASE ~setting.stored
    BY <2>2, Zenon DEF Init, WholeCharacters
  <2> QED  BY <2>1, <2>2, Zenon
<1>7. CreateAnswersTruly /\ RemovedTogether
  BY <1>3, Zenon DEF CreateAnswersTruly, RemovedTogether
<1> QED  BY <1>2, <1>4, <1>5, <1>6, <1>7, Zenon DEF TInv

-----------------------------------------------------------------------------
(* A step inside a call, and the end of one.                               *)

\* Nothing but t's own record changes, and it stays the record of its call.
LEMMA GoesOnOK ==
    ASSUME TInv, NEW t \in Caller, Active(t), NEW y, CallOK(y),
           y.call = tx[t].call, tx' = [tx EXCEPT ![t] = y],
           Clocks', UNCHANGED << tables, calls, returned >>
    PROVE  TInv'
<1>1. DOMAIN tx' = Caller /\ \A u \in Caller : tx'[u] = IF u = t THEN y ELSE tx[u]
  BY Zenon DEF TInv
<1>2. \A u \in Caller : CallOK(tx'[u])
  BY <1>1, Zenon DEF TInv
<1>3. \A n : Fresh(n)' <=> Fresh(n)
  BY Zenon DEF Fresh, tables
<1>4. \A u \in Caller : /\ tx'[u].call = tx[u].call
                        /\ Active(u)' => Active(u)
  BY <1>1, Zenon DEF Active
<1>5. Numbering'
  BY <1>3, <1>4 DEF TInv, Numbering
<1>6. WholeCharacters' /\ CreateAnswersTruly' /\ RemovedTogether'
  BY Zenon DEF TInv, WholeCharacters, CreateAnswersTruly, RemovedTogether, tables
<1> QED  BY <1>1, <1>2, <1>5, <1>6, Zenon DEF TInv

\* t's call is over; whether anything of it was committed is up to the rest.
LEMMA EndedOK ==
    ASSUME TInv, NEW t \in Caller, Active(t), NEW result, NEW raised,
           End(t, result, raised), UNCHANGED calls,
           \A n \in Nat : n # tx[t].call /\ Fresh(n) => Fresh(n)'
    PROVE  /\ DOMAIN tx' = Caller
           /\ \A u \in Caller : CallOK(tx'[u])
           /\ Numbering'
<1>1. DOMAIN tx' = Caller /\ \A u \in Caller : tx'[u] = IF u = t THEN Idle ELSE tx[u]
  BY Zenon DEF TInv, End
<1>2. \A u \in Caller : CallOK(tx'[u])
  BY <1>1, IdleOK, Zenon DEF TInv
<1>3. \A u \in Caller : Active(u)' => u # t /\ Active(u) /\ tx'[u].call = tx[u].call
  BY <1>1, IdleOK, Zenon DEF Active
<1>4. tx[t].call \in 1..calls /\ calls \in Nat
  BY Zenon DEF TInv, Numbering
<1>5. \A n \in Nat : n > calls => Fresh(n)'
  BY <1>4 DEF TInv, Numbering
<1>6. ASSUME NEW u \in Caller, Active(u)'
      PROVE  tx'[u].call \in 1..calls /\ Fresh(tx[u].call)'
  <2>1. tx[u].call \in 1..calls /\ Fresh(tx[u].call) /\ tx[u].call # tx[t].call
    BY <1>3, <1>6, Zenon DEF TInv, Numbering
  <2>2. Fresh(tx[u].call)'
    <3>1. PICK n \in Nat : n = tx[u].call
      BY <1>4, <2>1
    <3>2. n # tx[t].call /\ Fresh(n) /\ tx'[u].call = n
      BY <1>3, <1>6, <2>1, <3>1, Zenon DEF Fresh
    <3>3. Fresh(n)'
      BY <3>2, Zenon
    <3> QED  BY <3>2, <3>3, Zenon DEF Fresh
  <2> QED  BY <1>3, <1>6, <2>1, <2>2, Zenon
<1>7. \A u, v \in Caller : Active(u)' /\ Active(v)' /\ u # v => tx'[u].call # tx'[v].call
  BY <1>3 DEF TInv, Numbering
<1> QED  BY <1>1, <1>2, <1>4, <1>5, <1>6, <1>7, Zenon DEF Numbering

\* Rolled back: the call has left nothing in the tables.
LEMMA RolledBackOK ==
    ASSUME TInv, NEW t \in Caller, Active(t), NEW result, NEW raised,
           tx[t].op = "CharacterCreate" => result # "true" \/ raised,
           End(t, result, raised), Clocks', UNCHANGED << tables, calls >>
    PROVE  TInv'
<1> DEFINE e == [op |-> tx[t].op, call |-> tx[t].call, todo |-> tx[t].todo,
                 result |-> result, raised |-> raised]
<1>1. returned' = returned \cup {e}
  BY Zenon DEF End
<1>2. Fresh(tx[t].call)
  BY Zenon DEF TInv, Numbering
<1>3. UNCHANGED << characters, items, gone >>
  BY Zenon DEF tables
<1>4. \A n \in Nat : n # tx[t].call /\ Fresh(n) => Fresh(n)'
  BY <1>1, <1>3 DEF Fresh
<1>5. CreateAnswersTruly'
  BY <1>1, <1>2, <1>3 DEF TInv, CreateAnswersTruly, Fresh
<1>6. RemovedTogether'
  <2>1. {g \in gone : g.by = e.call} = {}
    BY <1>2, Zenon DEF Fresh
  <2> QED  BY <1>1, <1>3, <2>1, Zenon DEF TInv, RemovedTogether
<1>7. WholeCharacters'
  BY <1>3, Zenon DEF TInv, WholeCharacters
<1> QED  BY <1>4, <1>5, <1>6, <1>7, EndedOK, Zenon DEF TInv

\* Committed: what the call has changed is what a reader sees from now on.
LEMMA CommittedOK ==
    ASSUME TInv, NEW t \in Caller, tx[t].step = "commit", Apply(t),
           NEW result, NEW raised, result # "false",
           End(t, result, raised), Clocks', UNCHANGED calls
    PROVE  TInv'
<1> DEFINE x == tx[t]
           e == [op |-> x.op, call |-> x.call, todo |-> x.todo,
                 result |-> result, raised |-> raised]
<1>1. returned' = returned \cup {e}
  BY Zenon DEF End
<1>2. Active(t) /\ Fresh(x.call) /\ CallOK(x)
  BY Zenon DEF TInv, Numbering, Active
<1>3. /\ characters' = characters \cup x.chars
      /\ items' = (items \ x.old) \cup x.new
      /\ gone' = gone \cup {[item |-> i, by |-> x.call] : i \in x.old}
  BY Zenon DEF Apply
<1>4. /\ \A r \in x.chars : r.by = x.call
      /\ \A i \in x.new : i.by = x.call
  BY <1>2, Zenon DEF CallOK, Changes
<1> HIDE DEF x
<1>5. \A n \in Nat : n # x.call /\ Fresh(n) => Fresh(n)'
  BY <1>1, <1>3, <1>4 DEF Fresh
<1>6. \A i \in items : i \in items' \/ \E g \in gone' : g.item = i
  <2> SUFFICES ASSUME NEW i \in items, i \notin items'
               PROVE  \E g \in gone' : g.item = i
    BY Zenon
  <2>1. [item |-> i, by |-> x.call] \in gone'
    BY <1>3, Zenon
  <2> QED  BY <2>1, Zenon
<1>7. WholeCharacters'
  <2> SUFFICES ASSUME NEW r \in characters', NEW k \in 1..Len(DefaultItems)
               PROVE  \/ \E i \in items' : i.by = r.by /\ i.type = DefaultItems[k]
                      \/ \E g \in gone' : g.item.by = r.by /\ g.item.type = DefaultItems[k]
    BY Zenon DEF WholeCharacters
  <2>1. CASE r \in characters
    <3>1. CASE \E i \in items : i.by = r.by /\ i.type = DefaultItems[k]
      BY <1>6, <3>1, Zenon
    <3>2. CASE \E g \in gone : g.item.by = r.by /\ g.item.type = DefaultItems[k]
      BY <1>3, <3>2, Zenon
    <3> QED  BY <2>1, <3>1, <3>2, Zenon DEF TInv, WholeCharacters
  <2>2. CASE r \in x.chars
    <3>1. x.op = "CharacterCreate" /\ x.step = "commit"
      BY <1>2, <2>2, Zenon DEF CallOK, Changes, x
    <3>2. Cardinality(x.new) = Len(DefaultItems)
      BY <1>2, <3>1, Zenon DEF CallOK, Creation
    <3>3. \E i \in x.new : i.type = DefaultItems[k]
      BY <1>2, <3>1, <3>2, Zenon DEF CallOK, Creation
    <3> QED  BY <1>3, <1>4, <2>2, <3>3, Zenon
  <2> QED  BY <1>3, <2>1, <2>2, Zenon
<1>8. CreateAnswersTruly'
  <2> SUFFICES ASSUME NEW r \in returned', r.op = "CharacterCreate"
               PROVE  /\ r.result = "false" =>
                           /\ \A c \in characters' : c.by # r.call
                           /\ \A i \in items' : i.by # r.call
                      /\ r.result = "true" /\ ~r.raised =>
                           \E c \in characters' : c.by = r.call
    BY Zenon DEF CreateAnswersTruly
  <2>1. CASE r \in returned
    <3>1. r.call # x.call
      BY <1>2, <2>1, Zenon DEF Fresh
    <3> QED  BY <1>3, <1>4, <2>1, <3>1, Zenon DEF TInv, CreateAnswersTruly
  <2>2. CASE r = e
    <3>1. x.chars # {}
      BY <1>2, <2>2, Zenon DEF CallOK, Creation, x
    <3> QED  BY <1>3, <1>4, <2>2, <3>1, Zenon
  <2> QED  BY <1>1, <2>1, <2>2, Zenon
<1>9. RemovedTogether'
  <2> SUFFICES ASSUME NEW r \in returned', r.op = "ItemRemove",
                      {g \in gone' : g.by = r.call} # {}
               PROVE  {g.item.sn : g \in {g \in gone' : g.by = r.call}} = {r.todo[1], r.todo[2]}
    BY Zenon DEF RemovedTogether
  <2>1. CASE r \in returned
    <3>1. r.call # x.call
      BY <1>2, <2>1, Zenon DEF Fresh
    <3>2. {g \in gone' : g.by = r.call} = {g \in gone : g.by = r.call}
      BY <1>3, <3>1
    <3> QED  BY <2>1, <3>2, Zenon DEF TInv, RemovedTogether
  <2>2. CASE r = e
    <3>1. Sns(x.old) = {x.todo[1], x.todo[2]}
      BY <1>2, <2>2, Zenon DEF CallOK, Removal, x
    <3>2. {g \in gone' : g.by = x.call} = {[item |-> i, by |-> x.call] : i \in x.old}
      BY <1>2, <1>3 DEF Fresh
    <3>3. \A i \in x.old : [item |-> i, by |-> x.call].item.sn = i.sn
      BY Zenon
    <3> DEFINE rows == {[item |-> i, by |-> x.call] : i \in x.old}
    <3>4. \A sn : sn \in {g.item.sn : g \in rows} <=> sn \in Sns(x.old)
      <4>1. \A sn : sn \in {g.item.sn : g \in rows} <=> \E g \in rows : sn = g.item.sn
        BY Zenon
      <4>2. \A sn : sn \in Sns(x.old) <=> \E i \in x.old : sn = i.sn
        BY Zenon DEF Sns
      <4>3. ASSUME NEW sn PROVE (\E g \in rows : sn = g.item.sn) <=> \E i \in x.old : sn = i.sn
        BY <3>3, Zenon
      <4> QED  BY <4>1, <4>2, <4>3
    <3> HIDE DEF rows
    <3>5. {g.item.sn : g \in rows} = Sns(x.old)
      BY <3>4, Zenon
    <3> QED  BY <2>2, <3>1, <3>2, <3>5, Zenon DEF rows
  <2> QED  BY <1>1, <2>1, <2>2, Zenon
<1> QED  BY <1>2, <1>5, <1>7, <1>8, <1>9, EndedOK, Zenon DEF TInv, x

-----------------------------------------------------------------------------
(* The start of a call.                                                    *)

LEMMA StartedOK ==
    ASSUME TInv, NEW t \in Caller, ~Active(t), NEW y, CallOK(y),
           y.call = calls + 1, y.step # "idle",
           tx' = [tx EXCEPT ![t] = y], calls' = calls + 1,
           Clocks', UNCHANGED << tables, returned >>
    PROVE  TInv'
<1>1. DOMAIN tx' = Caller /\ \A u \in Caller : tx'[u] = IF u = t THEN y ELSE tx[u]
  BY Zenon DEF TInv
<1>2. \A u \in Caller : CallOK(tx'[u])
  BY <1>1, Zenon DEF TInv
<1>3. \A n : Fresh(n)' <=> Fresh(n)
  BY Zenon DEF Fresh, tables
<1>4. calls \in Nat /\ Fresh(calls + 1) /\ \A n \in Nat : n > calls + 1 => Fresh(n)
  BY DEF TInv, Numbering
<1>5. \A u \in Caller : u # t => tx'[u] = tx[u] /\ (Active(u)' <=> Active(u))
  BY <1>1, Zenon DEF Active
<1>6. tx'[t].call = calls + 1
  BY <1>1, Zenon
<1>7. \A u \in Caller : u # t /\ Active(u) =>
          tx[u].call \in 1..calls /\ Fresh(tx[u].call)
  BY Zenon DEF TInv, Numbering
<1>8. \A u, v \in Caller : Active(u)' /\ Active(v)' /\ u # v => tx'[u].call # tx'[v].call
  BY <1>4, <1>5, <1>6, <1>7 DEF TInv, Numbering
<1>9. \A u \in Caller : Active(u)' => tx'[u].call \in 1..calls + 1 /\ Fresh(tx[u].call)'
  BY <1>3, <1>4, <1>5, <1>6, <1>7 DEF Fresh
<1>10. Numbering'
  BY <1>3, <1>4, <1>8, <1>9 DEF Numbering
<1>11. WholeCharacters' /\ CreateAnswersTruly' /\ RemovedTogether'
  BY Zenon DEF TInv, WholeCharacters, CreateAnswersTruly, RemovedTogether, tables
<1> QED  BY <1>1, <1>2, <1>10, <1>11, Zenon DEF TInv

LEMMA CallStarts ==
    ASSUME TInv, NEW t \in Caller, NEW step, NEW op, NEW cid, NEW name, NEW todo, NEW list,
           Call(t, step, op, cid, name, todo, list), step # "idle",
           \/ op = "CharacterCreate" /\ step = "open" /\ todo = DefaultItems /\ list = << >>
           \/ op = "ItemCreate" /\ step = "generate"
           \/ op = "ItemRemove" /\ step = "open" /\ list = todo /\ \E a, b : todo = << a, b >>
    PROVE  TInv'
<1> DEFINE y == [Idle EXCEPT !.step = step, !.op = op, !.call = calls + 1, !.cid = cid,
                             !.name = name, !.todo = todo, !.list = list]
<1>1. /\ DOMAIN y = Fields
      /\ y.step = step /\ y.op = op /\ y.call = calls + 1 /\ y.todo = todo /\ y.list = list
      /\ y.chars = {} /\ y.new = {} /\ y.old = {}
  BY Zenon DEF Idle, Fields
<1>2. tx' = [tx EXCEPT ![t] = y] /\ ~Active(t) /\ calls' = calls + 1
  BY Zenon DEF Call, Active
<1>3. Clocks' /\ UNCHANGED << tables, returned >>
  BY Zenon DEF TInv, Call, Clocks, generator
<1> HIDE DEF y
<1>4. Placed(y) /\ Changes(y)
  BY <1>1, Zenon DEF Placed, Changes
<1>5. Creation(y)
  <2>1. IsFiniteSet({}) /\ Cardinality({}) = 0
    BY FS_EmptySet, Zenon
  <2>2. << >> \in Seq(Nat \X Nat)
    OBVIOUS
  <2> QED  BY <1>1, <2>1, <2>2 DEF Creation
<1>6. Removal(y)
  BY <1>1 DEF Removal
<1>7. CallOK(y)
  BY <1>1, <1>4, <1>5, <1>6, Zenon DEF CallOK
<1> QED  BY <1>1, <1>2, <1>3, <1>7, StartedOK, Zenon

LEMMA StartOK == ASSUME TInv, NEW t \in Caller, Start(t) PROVE TInv'
<1>1. CASE StartCharacterCreate(t)
  BY <1>1, CallStarts, Zenon DEF StartCharacterCreate
<1>2. CASE StartItemCreate(t)
  BY <1>2, CallStarts, Zenon DEF StartItemCreate
<1>3. CASE StartItemRemove(t)
  BY <1>3, CallStarts, Zenon DEF StartItemRemove
<1> QED  BY <1>1, <1>2, <1>3, Zenon DEF Start

-----------------------------------------------------------------------------
(* The steps of a call.                                                    *)

LEMMA OpenOK == ASSUME TInv, NEW t \in Caller, Open(t) PROVE TInv'
<1>1. tx[t].step = "open" /\ Active(t) /\ CallOK(tx[t])
  BY Zenon DEF Open, Active, TInv
<1>2. Clocks' /\ UNCHANGED << tables, calls >>
  BY Zenon DEF TInv, Open, Clocks, generator
<1>3. CASE Raised(t)
  BY <1>1, <1>2, <1>3, RolledBackOK, Zenon DEF Raised
<1>4. CASE /\ tx' = [tx EXCEPT ![t].step = FirstStep(tx[t].op)]
           /\ UNCHANGED returned
  <2> DEFINE x == tx[t]
             y == [x EXCEPT !.step = FirstStep(x.op)]
  <2>1. /\ x.op = "CharacterCreate" => y.step = "insertChar"
        /\ x.op = "ItemCreate" => y.step = "insertItem"
        /\ x.op = "ItemRemove" => y.step = "delete"
    BY <1>1, Zenon DEF FirstStep, CallOK, Fields
  <2>2. /\ Fields \subseteq DOMAIN y
        /\ y.op = x.op /\ y.call = x.call /\ y.todo = x.todo /\ y.list = x.list
        /\ y.chars = x.chars /\ y.new = x.new /\ y.old = x.old
    BY <1>1, Zenon DEF CallOK, Fields
  <2>3. tx' = [tx EXCEPT ![t] = y]
    BY <1>4, Zenon
  <2>4. x.step = "open" /\ CallOK(x)
    BY <1>1, Zenon
  <2> HIDE DEF x, y
  <2>5. Placed(y)
    BY <2>1, <2>2, <2>4, Zenon DEF CallOK, Placed
  <2>6. Changes(y)
    BY <2>2, <2>4, Zenon DEF CallOK, Changes
  <2>7. Creation(y)
    BY <2>1, <2>2, <2>4, Zenon DEF CallOK, Creation
  <2>8. Removal(y)
    BY <2>1, <2>2, <2>4, Zenon DEF CallOK, Removal
  <2>9. CallOK(y) /\ y.call = tx[t].call
    BY <2>2, <2>5, <2>6, <2>7, <2>8, Zenon DEF CallOK, x
  <2> QED  BY <1>1, <1>2, <1>4, <2>3, <2>9, GoesOnOK, Zenon
<1> QED  BY <1>3, <1>4, Zenon DEF Open

LEMMA FailedOK ==
    ASSUME TInv, NEW t \in Caller, Active(t), Failed(t), Clocks', UNCHANGED << tables, calls >>
    PROVE  TInv'
  BY RolledBackOK, Zenon DEF Failed

LEMMA QueryCharacterCreateOK ==
    ASSUME TInv, NEW t \in Caller, QueryCharacterCreate(t) PROVE TInv'
<1> DEFINE x == tx[t]
           row == [cid |-> x.cid, name |-> x.name, by |-> x.call]
           y == [x EXCEPT !.chars = {row}, !.step = "generate"]
<1>1. x.step = "insertChar" /\ Active(t) /\ CallOK(x)
  BY Zenon DEF QueryCharacterCreate, Active, TInv
<1>2. Clocks' /\ UNCHANGED << tables, calls >>
  BY Zenon DEF TInv, QueryCharacterCreate, Clocks, generator
<1>3. CASE Failed(t)
  BY <1>1, <1>2, <1>3, FailedOK, Zenon
<1>4. CASE tx' = [tx EXCEPT ![t].chars = {row}, ![t].step = "generate"] /\ UNCHANGED returned
  <2>1. /\ Fields \subseteq DOMAIN y
        /\ y.step = "generate" /\ y.chars = {row}
        /\ y.op = x.op /\ y.call = x.call /\ y.todo = x.todo /\ y.list = x.list
        /\ y.new = x.new /\ y.old = x.old
    BY <1>1, Zenon DEF CallOK, Fields
  <2>2. tx' = [tx EXCEPT ![t] = y]
    BY <1>4, Zenon
  <2>3. row.by = x.call
    BY Zenon
  <2>4. x.step = "insertChar" /\ CallOK(x)
    BY <1>1, Zenon
  <2> HIDE DEF x, y, row
  <2>5. x.op = "CharacterCreate"
    BY <2>4, Zenon DEF CallOK, Placed
  <2>6. Placed(y) /\ Changes(y)
    BY <2>1, <2>3, <2>4, <2>5, Zenon DEF CallOK, Placed, Changes
  <2>7. Creation(y) /\ Removal(y)
    BY <2>1, <2>4, <2>5, Zenon DEF CallOK, Creation, Removal
  <2>8. CallOK(y) /\ y.call = tx[t].call
    BY <2>1, <2>6, <2>7, Zenon DEF CallOK, x
  <2> QED  BY <1>1, <1>2, <1>4, <2>2, <2>8, GoesOnOK, Zenon
<1> QED  BY <1>3, <1>4, Zenon DEF QueryCharacterCreate

LEMMA GenerateSNOK == ASSUME TInv, NEW t \in Caller, GenerateSN(t) PROVE TInv'
<1> DEFINE x == tx[t]
           y == [x EXCEPT !.step = "number"]
<1>1. x.step = "generate" /\ Active(t) /\ CallOK(x)
  BY Zenon DEF GenerateSN, Active, TInv
<1>2. Clocks' /\ UNCHANGED << tables, calls >>
  BY DEF TInv, GenerateSN, Clocks
<1>3. CASE Thrown(t)
  BY <1>1, <1>2, <1>3, RolledBackOK, Zenon DEF Thrown, Raised
<1>4. CASE tx' = [tx EXCEPT ![t].step = "number"] /\ UNCHANGED returned
  <2>1. /\ Fields \subseteq DOMAIN y
        /\ y.step = "number"
        /\ y.op = x.op /\ y.call = x.call /\ y.todo = x.todo /\ y.list = x.list
        /\ y.chars = x.chars /\ y.new = x.new /\ y.old = x.old
    BY <1>1, Zenon DEF CallOK, Fields
  <2>2. tx' = [tx EXCEPT ![t] = y]
    BY <1>4, Zenon
  <2>3. x.step = "generate" /\ CallOK(x)
    BY <1>1, Zenon
  <2> HIDE DEF x, y
  <2>4. Placed(y) /\ Changes(y)
    BY <2>1, <2>3, Zenon DEF CallOK, Placed, Changes
  <2>5. Creation(y)
    BY <2>1, <2>3, Zenon DEF CallOK, Creation
  <2>6. Removal(y)
    BY <2>1, <2>3, Zenon DEF CallOK, Placed, Removal
  <2>7. CallOK(y) /\ y.call = tx[t].call
    BY <2>1, <2>4, <2>5, <2>6, Zenon DEF CallOK, x
  <2> QED  BY <1>1, <1>2, <1>4, <2>2, <2>7, GoesOnOK, Zenon
<1> QED  BY <1>3, <1>4, Zenon DEF GenerateSN

LEMMA MaskedType == ASSUME NEW n \in Nat PROVE Masked(n) \in 0..MaxSequence
  BY WorldDbAssumption DEF Masked

LEMMA NumberReadyOK == ASSUME TInv, NEW t \in Caller, NumberReady(t) PROVE TInv'
<1> DEFINE x == tx[t]
           list == Append(x.list, << lastTimeSec, Masked(sequance) >>)
           step == IF Len(list) = Len(x.todo) THEN Numbered(x.op) ELSE "generate"
           y == [x EXCEPT !.list = list, !.step = step]
<1>1. x.step = "number" /\ Active(t) /\ CallOK(x)
  BY Zenon DEF NumberReady, Active, TInv
<1>2. Clocks' /\ UNCHANGED << tables, calls, returned >>
  BY Zenon DEF TInv, NumberReady, Clocks
<1>3. tx' = [tx EXCEPT ![t] = y]
  BY Zenon DEF NumberReady
<1>4. /\ Fields \subseteq DOMAIN y
      /\ y.step = step /\ y.list = list
      /\ y.op = x.op /\ y.call = x.call /\ y.todo = x.todo
      /\ y.chars = x.chars /\ y.new = x.new /\ y.old = x.old
  BY <1>1, Zenon DEF CallOK, Fields
<1>5. << lastTimeSec, Masked(sequance) >> \in Nat \X Nat
  <2>1. lastTimeSec \in Nat /\ sequance \in Nat
    BY Zenon DEF TInv, Clocks
  <2>2. Masked(sequance) \in 0..MaxSequence
    BY <2>1, MaskedType, Zenon
  <2>3. Masked(sequance) \in Nat
    BY <2>2, WorldDbAssumption
  <2> QED  BY <2>1, <2>3, Zenon
<1>6. x.list \in Seq(Nat \X Nat) => list \in Seq(Nat \X Nat) /\ Len(list) = Len(x.list) + 1
  BY <1>5, AppendProperties
<1>7. \/ step = "generate"
      \/ /\ Len(list) = Len(x.todo)
         /\ step = IF x.op = "CharacterCreate" THEN "insertItem" ELSE "open"
  BY Zenon DEF Numbered
<1>8. x.op \in {"CharacterCreate", "ItemCreate"} /\ x.step = "number"
  BY <1>1, Zenon DEF CallOK, Placed
<1>9. CallOK(x)
  BY <1>1, Zenon
<1> HIDE DEF x, y, list, step
<1>10. Placed(y) /\ Changes(y) /\ Removal(y)
  BY <1>4, <1>7, <1>8, <1>9, Zenon DEF CallOK, Placed, Changes, Removal
<1>11. Creation(y)
  <2> SUFFICES ASSUME x.op = "CharacterCreate" PROVE Creation(y)
    BY <1>4, Zenon DEF Creation
  <2>1. x.list \in Seq(Nat \X Nat) /\ x.new = {} /\ x.todo = DefaultItems /\ x.chars # {}
    BY <1>8, <1>9, Zenon DEF CallOK, Creation
  <2>2. list \in Seq(Nat \X Nat) /\ Len(list) > 0
    BY <1>6, <2>1, LenProperties
  <2>3. IsFiniteSet({}) /\ Cardinality({}) = 0
    BY FS_EmptySet, Zenon
  <2> QED  BY <1>4, <1>7, <2>1, <2>2, <2>3 DEF Creation
<1>12. CallOK(y) /\ y.call = tx[t].call
  BY <1>4, <1>10, <1>11, Zenon DEF CallOK, x
<1> QED  BY <1>1, <1>2, <1>3, <1>12, GoesOnOK, Zenon

LEMMA QueryItemCreateOK == ASSUME TInv, NEW t \in Caller, QueryItemCreate(t) PROVE TInv'
<1> DEFINE x == tx[t]
           item == NextItem(t)
           k == Cardinality(x.new) + 1
           step == IF LastItem(t) THEN "commit" ELSE "insertItem"
           y == [x EXCEPT !.new = x.new \cup {item}, !.step = step]
<1>1. x.step = "insertItem" /\ Active(t) /\ CallOK(x)
  BY Zenon DEF QueryItemCreate, Active, TInv
<1>2. Clocks' /\ UNCHANGED << tables, calls >>
  BY Zenon DEF TInv, QueryItemCreate, Clocks, generator
<1>3. CASE Failed(t)
  BY <1>1, <1>2, <1>3, FailedOK, Zenon
<1>4. CASE /\ ~SnTaken(t)
           /\ tx' = [tx EXCEPT ![t].new = @ \cup {item}, ![t].step = step]
           /\ UNCHANGED returned
  <2>1. tx' = [tx EXCEPT ![t] = y]
    BY <1>4, Zenon
  <2>2. /\ Fields \subseteq DOMAIN y
        /\ y.step = step /\ y.new = x.new \cup {item}
        /\ y.op = x.op /\ y.call = x.call /\ y.todo = x.todo /\ y.list = x.list
        /\ y.chars = x.chars /\ y.old = x.old
    BY <1>1, Zenon DEF CallOK, Fields
  <2>3. item.by = x.call /\ item.type = x.todo[k]
    BY Zenon DEF NextItem
  <2>4. item \notin x.new
    BY <1>4, Zenon DEF SnTaken
  <2>5. \/ step = "commit" /\ k = Len(x.list)
        \/ step = "insertItem" /\ k # Len(x.list)
    BY Zenon DEF LastItem
  <2>6. x.step = "insertItem" /\ CallOK(x)
    BY <1>1, SMTT(30)
  <2> HIDE DEF x, y, item, step
  <2>7. Placed(y) /\ Changes(y)
    BY <2>2, <2>3, <2>5, <2>6, SMTT(30) DEF CallOK, Placed, Changes
  <2>8. Removal(y)
    BY <2>2, <2>6, SMTT(30) DEF CallOK, Placed, Removal
  <2>9. Creation(y)
    <3> SUFFICES ASSUME x.op = "CharacterCreate" PROVE Creation(y)
      BY <2>2, Zenon DEF Creation
    <3>1. /\ x.list \in Seq(Nat \X Nat) /\ x.todo = DefaultItems /\ x.chars # {}
          /\ IsFiniteSet(x.new)
          /\ \A j \in 1..Cardinality(x.new) : \E i \in x.new : i.type = DefaultItems[j]
          /\ Len(x.list) = Len(DefaultItems) /\ Cardinality(x.new) < Len(DefaultItems)
      BY <2>6, Zenon DEF CallOK, Creation
    <3>2. IsFiniteSet(y.new) /\ Cardinality(y.new) = k
      <4>1. /\ IsFiniteSet(x.new \cup {item})
            /\ Cardinality(x.new \cup {item}) =
                 IF item \in x.new THEN Cardinality(x.new) ELSE Cardinality(x.new) + 1
        BY <3>1, FS_AddElement, Zenon
      <4> QED  BY <2>2, <2>4, <4>1, Zenon
    <3>3. Cardinality(x.new) \in Nat /\ Len(DefaultItems) \in Nat
      BY <3>1, FS_CardinalityType, LenProperties, Zenon
    <3>4. \A j \in 1..k : \E i \in y.new : i.type = DefaultItems[j]
      <4>1. \A j \in 1..k : j = k \/ j \in 1..Cardinality(x.new)
        BY <3>3
      <4> HIDE DEF k
      <4>2. \A j \in 1..k : j = k => item \in y.new /\ item.type = DefaultItems[j]
        BY <2>2, <2>3, <3>1, Zenon
      <4>3. \A j \in 1..Cardinality(x.new) : \E i \in y.new : i.type = DefaultItems[j]
        BY <2>2, <3>1, Zenon
      <4> QED  BY <4>1, <4>2, <4>3, Zenon
    <3>5. y.step = "commit" => k = Len(DefaultItems)
      BY <2>2, <2>5, <3>1, Zenon
    <3>6. y.step # "commit" => y.step = "insertItem" /\ k < Len(DefaultItems)
      BY <2>2, <2>5, <3>1, <3>3
    <3> HIDE DEF k
    <3> QED  BY <2>2, <3>1, <3>2, <3>4, <3>5, <3>6, Zenon DEF Creation
  <2>10. CallOK(y) /\ y.call = tx[t].call
    BY <2>2, <2>7, <2>8, <2>9, Zenon DEF CallOK, x
  <2> QED  BY <1>1, <1>2, <1>4, <2>1, <2>10, GoesOnOK, Zenon
<1> QED  BY <1>3, <1>4, Zenon DEF QueryItemCreate

LEMMA QueryItemRemoveOK == ASSUME TInv, NEW t \in Caller, QueryItemRemove(t) PROVE TInv'
<1> DEFINE x == tx[t]
           rows == Deleted(t)
           step == IF Len(x.list) = 1 THEN "commit" ELSE "delete"
           y == [x EXCEPT !.old = x.old \cup rows, !.list = Tail(x.list), !.step = step]
<1>1. x.step = "delete" /\ Active(t) /\ CallOK(x)
  BY Zenon DEF QueryItemRemove, Active, TInv
<1>2. Clocks' /\ UNCHANGED << tables, calls >>
  BY Zenon DEF TInv, QueryItemRemove, Clocks, generator
<1>3. CASE Failed(t)
  BY <1>1, <1>2, <1>3, FailedOK, Zenon
<1>4. CASE /\ ~Missing(t)
           /\ tx' = [tx EXCEPT ![t].old = @ \cup rows, ![t].list = Tail(@), ![t].step = step]
           /\ UNCHANGED returned
  <2>1. tx' = [tx EXCEPT ![t] = y]
    BY <1>4, Zenon
  <2>2. /\ Fields \subseteq DOMAIN y
        /\ y.step = step /\ y.old = x.old \cup rows /\ y.list = Tail(x.list)
        /\ y.op = x.op /\ y.call = x.call /\ y.todo = x.todo
        /\ y.chars = x.chars /\ y.new = x.new
    BY <1>1, Zenon DEF CallOK, Fields
  <2>3. rows # {} /\ \A i \in rows : i.sn = Head(x.list)
    BY <1>4, Zenon DEF Missing, Deleted
  <2>4. x.step = "delete" /\ CallOK(x) /\ x.op = "ItemRemove"
    BY <1>1, Zenon DEF CallOK, Placed
  <2>5. /\ Len(x.list) = 1 => step = "commit"
        /\ Len(x.list) = 2 => step = "delete"
    OBVIOUS
  <2> HIDE DEF x, y, rows, step
  <2>6. Sns(y.old) = Sns(x.old) \cup {Head(x.list)}
    BY <2>2, <2>3, Zenon DEF Sns
  <2>7. step \in {"commit", "delete"}
    BY Zenon DEF step
  <2>8. Placed(y) /\ Changes(y) /\ Creation(y)
    BY <2>2, <2>4, <2>7, SMTT(30) DEF CallOK, Placed, Changes, Creation
  <2>9. Removal(y)
    <3>1. x.todo = << x.todo[1], x.todo[2] >>
      BY <2>4, Zenon DEF CallOK, Removal
    <3>2. CASE x.list = x.todo /\ x.old = {}
      <4>1. Head(x.list) = x.todo[1] /\ Tail(x.list) = << x.todo[2] >> /\ Len(x.list) = 2
        <5>1. PICK a, b : x.todo = << a, b >>
          BY <3>1, Zenon
        <5> QED  BY <3>2, <5>1
      <4>2. Sns(x.old) = {}
        BY <3>2, Zenon DEF Sns
      <4> QED  BY <2>2, <2>4, <2>5, <2>6, <3>1, <4>1, <4>2, Zenon DEF Removal
    <3>3. CASE x.list = << x.todo[2] >> /\ Sns(x.old) = {x.todo[1]}
      <4>1. Head(x.list) = x.todo[2] /\ Len(x.list) = 1
        BY <3>3
      <4> QED  BY <2>2, <2>4, <2>5, <2>6, <3>1, <3>3, <4>1, Zenon DEF Removal
    <3> QED  BY <2>4, <3>2, <3>3, Zenon DEF CallOK, Removal
  <2>10. CallOK(y) /\ y.call = tx[t].call
    BY <2>2, <2>8, <2>9, Zenon DEF CallOK, x
  <2> QED  BY <1>1, <1>2, <1>4, <2>1, <2>10, GoesOnOK, Zenon
<1> QED  BY <1>3, <1>4, Zenon DEF QueryItemRemove

LEMMA CommitOK == ASSUME TInv, NEW t \in Caller, Commit(t) PROVE TInv'
  BY CommittedOK, Zenon DEF Commit, TInv, Clocks, generator

LEMMA ConnectionLostOK == ASSUME TInv, NEW t \in Caller, ConnectionLost(t) PROVE TInv'
<1>1. Active(t) /\ End(t, "threw", TRUE) /\ Clocks' /\ UNCHANGED calls
  BY Zenon DEF ConnectionLost, Connected, Active, TInv, Clocks, generator
<1>2. CASE UNCHANGED tables
  BY <1>1, <1>2, RolledBackOK, Zenon
<1>3. CASE tx[t].step = "commit" /\ Apply(t)
  BY <1>1, <1>3, CommittedOK, Zenon
<1> QED  BY <1>2, <1>3, Zenon DEF ConnectionLost

\* Every transaction is lost with the server; the tables are not.
LEMMA CrashOK == ASSUME TInv, Crash PROVE TInv'
<1>1. DOMAIN tx' = Caller /\ \A t \in Caller : CallOK(tx'[t]) /\ ~Active(t)'
  BY IdleOK, Zenon DEF Crash, Active
<1>2. \A n : Fresh(n)' <=> Fresh(n)
  BY Zenon DEF Crash, Fresh, tables
<1>3. Numbering'
  BY <1>1, <1>2, Zenon DEF Crash, TInv, Numbering
<1>4. Clocks' /\ WholeCharacters' /\ CreateAnswersTruly' /\ RemovedTogether'
  BY Zenon DEF Crash, TInv, Clocks, WholeCharacters, CreateAnswersTruly, RemovedTogether, tables
<1> QED  BY <1>1, <1>3, <1>4, Zenon DEF TInv

LEMMA OthersOK ==
    ASSUME TInv, Clocks', UNCHANGED << tables, tx, calls, returned >>
    PROVE  TInv'
<1>1. \A n : Fresh(n)' <=> Fresh(n)
  BY Zenon DEF Fresh, tables
<1>2. Numbering'
  <2>1. \A t \in Caller : tx'[t].call = tx[t].call /\ (Active(t)' <=> Active(t))
    BY Zenon DEF Active
  <2> QED  BY <1>1, <2>1, Zenon DEF TInv, Numbering
<1>3. WholeCharacters' /\ CreateAnswersTruly' /\ RemovedTogether'
  BY Zenon DEF TInv, WholeCharacters, CreateAnswersTruly, RemovedTogether, tables
<1> QED  BY <1>2, <1>3, Zenon DEF TInv

LEMMA NextTInv == TInv /\ [Next]_vars => TInv'
<1> SUFFICES ASSUME TInv, [Next]_vars PROVE TInv'
  BY Zenon
<1>1. ASSUME NEW t \in Caller, Start(t) \/ Step(t) \/ ConnectionLost(t) PROVE TInv'
  BY <1>1, StartOK, OpenOK, QueryCharacterCreateOK, GenerateSNOK, NumberReadyOK,
     QueryItemCreateOK, QueryItemRemoveOK, CommitOK, ConnectionLostOK, Zenon DEF Step
<1>2. CASE Crash
  BY <1>2, CrashOK, Zenon
<1>3. CASE Restart
  BY <1>3, OthersOK, Zenon DEF Restart, TInv, Clocks, generator
<1>4. CASE Tick
  BY <1>4, OthersOK DEF Tick, TInv, Clocks
<1>5. CASE UNCHANGED vars
  BY <1>5, OthersOK, Zenon DEF vars, TInv, Clocks, generator
<1> QED  BY <1>1, <1>2, <1>3, <1>4, <1>5, Zenon DEF Next

\* A character and its default items appear in the tables together, whatever
\* statement, connection or server fails (WorldQuery.cs, CharacterCreate).
THEOREM CharactersAreWhole == Spec => []WholeCharacters
<1>1. TInv => WholeCharacters
  BY Zenon DEF TInv
<1> QED  BY <1>1, InitTInv, NextTInv, PTL DEF Spec

\* A false of CharacterCreate means that nothing was stored, and a true
\* without an exception that the character was (WorldQuery.cs, CharacterCreate).
THEOREM CreateIsTruthful == Spec => []CreateAnswersTruly
<1>1. TInv => CreateAnswersTruly
  BY Zenon DEF TInv
<1> QED  BY <1>1, InitTInv, NextTInv, PTL DEF Spec

\* ItemRemove deletes both of its items or none (WorldQuery_Item.cs, ItemRemove).
THEOREM RemovesBothOrNone == Spec => []RemovedTogether
<1>1. TInv => RemovedTogether
  BY Zenon DEF TInv
<1> QED  BY <1>1, InitTInv, NextTInv, PTL DEF Spec

-----------------------------------------------------------------------------
(* The item numbers.                                                       *)

LEMMA InitGInv == Init => GInv
<1> SUFFICES ASSUME Init PROVE GInv
  BY Zenon
<1>1. \A t \in Caller : tx[t].step = "idle"
  BY IdleOK, Zenon DEF Init
<1>2. Len(DefaultItems) \in Nat
  BY WorldDbAssumption
<1>3. ASSUME NEW sn \in issued PROVE sn \in Nat \X Nat /\ sn[1] = 0
  <2>1. PICK i \in items : sn = i.sn
    BY <1>3, Zenon DEF Init
  <2>2. PICK k \in 0..Len(DefaultItems) - 1 : i.sn = << 0, k >>
    BY <2>1 DEF Init, StoredItems
  <2> QED  BY <1>2, <2>1, <2>2
<1>4. up /\ clock = 1 /\ lastTimeSec = 0 /\ sequance = 0 /\ ~reissued
  BY Zenon DEF Init
<1> QED  BY <1>1, <1>3, <1>4 DEF GInv, Active

\* A step that does not touch the generator, and starts no second call.
LEMMA KeepsGInv ==
    ASSUME GInv, UNCHANGED << setting, up, generator >>,
           \A t \in Caller : Active(t)' => up,
           \A t \in Caller : tx'[t].step = "number" => tx[t].step = "number",
           Assumed => \A t, u \in Caller : Active(t)' /\ Active(u)' => t = u
    PROVE  GInv'
  BY Zenon DEF GInv, generator, Assumed, Behind

\* A step of a call that is under way.
Moves(t) ==
    /\ Active(t)
    /\ \A u \in Caller \ {t} : tx'[u] = tx[u]

LEMMA MovesKeepsGInv ==
    ASSUME GInv, UNCHANGED << setting, up, generator >>, NEW t \in Caller, Moves(t),
           tx'[t].step # "number"
    PROVE  GInv'
<1>1. \A u \in Caller : Active(u)' => Active(u)
  BY Zenon DEF Moves, Active
<1>2. \A u \in Caller : tx'[u].step = "number" => tx[u].step = "number"
  BY Zenon DEF Moves
<1>3. \A u \in Caller : Active(u)' => up
  BY <1>1, Zenon DEF GInv
<1>4. Assumed => \A u, v \in Caller : Active(u)' /\ Active(v)' => u = v
  BY <1>1, Zenon DEF GInv
<1> QED  BY <1>2, <1>3, <1>4, KeepsGInv, Zenon

LEMMA CallGInv ==
    ASSUME TInv, GInv, NEW t \in Caller,
           NEW step, NEW op, NEW cid, NEW name, NEW todo, NEW list,
           Call(t, step, op, cid, name, todo, list), step # "number"
    PROVE  GInv'
<1>1. /\ up /\ UNCHANGED << setting, up, generator >>
      /\ setting.callers = 1 => \A u \in Caller : ~Active(u)
  BY Zenon DEF Call, Active
<1>2. (\A u \in Caller \ {t} : tx'[u] = tx[u]) /\ tx'[t].step = step
  BY Zenon DEF Call, TInv, Idle
<1>3. \A u \in Caller : tx'[u].step = "number" => tx[u].step = "number"
  BY <1>2, Zenon
<1>4. Assumed => \A u, v \in Caller : Active(u)' /\ Active(v)' => u = v
  BY <1>1, <1>2, Zenon DEF Assumed, Active
<1> QED  BY <1>1, <1>3, <1>4, KeepsGInv, Zenon

LEMMA StartGInv == ASSUME TInv, GInv, NEW t \in Caller, Start(t) PROVE GInv'
<1>1. CASE StartCharacterCreate(t)
  BY <1>1, CallGInv, Zenon DEF StartCharacterCreate
<1>2. CASE StartItemCreate(t)
  BY <1>2, CallGInv, Zenon DEF StartItemCreate
<1>3. CASE StartItemRemove(t)
  BY <1>3, CallGInv, SMTT(30) DEF StartItemRemove
<1> QED  BY <1>1, <1>2, <1>3, Zenon DEF Start

LEMMA EndMoves ==
    ASSUME TInv, NEW t \in Caller, Active(t), NEW result, NEW raised, End(t, result, raised)
    PROVE  Moves(t) /\ tx'[t].step = "idle"
  BY IdleOK, Zenon DEF TInv, End, Moves

LEMMA StatementGInv ==
    ASSUME TInv, GInv, NEW t \in Caller,
           \/ Open(t) \/ QueryCharacterCreate(t) \/ QueryItemCreate(t) \/ QueryItemRemove(t)
           \/ Commit(t) \/ ConnectionLost(t)
    PROVE  GInv'
<1>1. Active(t) /\ UNCHANGED << setting, up, generator >>
  BY Zenon DEF Open, QueryCharacterCreate, QueryItemCreate, QueryItemRemove, Commit,
         ConnectionLost, Connected, Active
<1>2. CASE \E result, raised : End(t, result, raised)
  BY <1>1, <1>2, EndMoves, MovesKeepsGInv, Zenon
<1>3. CASE Open(t) /\ tx' = [tx EXCEPT ![t].step = FirstStep(tx[t].op)]
  <2>1. FirstStep(tx[t].op) # "number"
    BY Zenon DEF FirstStep
  <2>2. Moves(t) /\ tx'[t].step = FirstStep(tx[t].op)
    BY <1>1, <1>3, Zenon DEF Moves, TInv, CallOK, Fields
  <2> QED  BY <1>1, <2>1, <2>2, MovesKeepsGInv, Zenon
<1>4. CASE QueryCharacterCreate(t) /\ ~ \E result, raised : End(t, result, raised)
  <2>1. Moves(t) /\ tx'[t].step = "generate"
    BY <1>1, <1>4, Zenon DEF QueryCharacterCreate, Failed, Moves, TInv, CallOK, Fields
  <2> QED  BY <1>1, <2>1, MovesKeepsGInv, Zenon
<1>5. CASE QueryItemCreate(t) /\ ~ \E result, raised : End(t, result, raised)
  <2>1. Moves(t) /\ tx'[t].step \in {"commit", "insertItem"}
    BY <1>1, <1>5, Zenon DEF QueryItemCreate, Failed, Moves, TInv, CallOK, Fields
  <2> QED  BY <1>1, <2>1, MovesKeepsGInv, Zenon
<1>6. CASE QueryItemRemove(t) /\ ~ \E result, raised : End(t, result, raised)
  <2>1. Moves(t) /\ tx'[t].step \in {"commit", "delete"}
    BY <1>1, <1>6, ZenonT(40) DEF QueryItemRemove, Failed, Moves, TInv, CallOK, Fields
  <2> QED  BY <1>1, <2>1, MovesKeepsGInv, Zenon
<1> QED  BY <1>2, <1>3, <1>4, <1>5, <1>6, Zenon DEF Open, Raised, Commit, ConnectionLost

\* The number in the making is above every number handed out.
LEMMA GenerateGInv == ASSUME TInv, GInv, NEW t \in Caller, GenerateSN(t) PROVE GInv'
<1>1. /\ Active(t) /\ up /\ UNCHANGED << setting, up, clock, issued, reissued >>
      /\ clock \in Nat /\ lastTimeSec \in Nat /\ sequance \in Nat /\ MaxSequence \in Nat
  BY WorldDbAssumption, Zenon DEF GenerateSN, Active, GInv, TInv, Clocks
<1>2. /\ \A u \in Caller \ {t} : tx'[u] = tx[u]
      /\ \/ tx'[t].step = "number" /\ (NewSecond(clock) \/ ~TooLarge(sequance + 1))
         \/ tx'[t].step = "idle" /\ ~NewSecond(clock)
  <2>1. CASE /\ tx' = [tx EXCEPT ![t].step = "number"]
             /\ NewSecond(clock) \/ ~TooLarge(sequance + 1)
    BY <2>1, Zenon DEF TInv, CallOK, Fields
  <2>2. CASE Thrown(t) /\ ~NewSecond(clock)
    BY <1>1, <2>2, EndMoves, Zenon DEF Thrown, Raised, Moves
  <2> QED  BY <2>1, <2>2, Zenon DEF GenerateSN
<1>3. \/ NewSecond(clock) /\ lastTimeSec' = clock /\ sequance' = 0
      \/ ~NewSecond(clock) /\ lastTimeSec' = lastTimeSec /\ sequance' = sequance + 1
  BY Zenon DEF GenerateSN
<1>4. (~up => \A u \in Caller : ~Active(u))' /\ (issued \subseteq Nat \X Nat)'
  BY <1>1, Zenon DEF GInv
<1>5. ASSUME Assumed'
      PROVE  /\ ~reissued' /\ lastTimeSec' <= clock'
             /\ \A sn \in issued' : sn[1] <= clock'
             /\ \A sn \in issued' : Behind(sn, lastTimeSec', sequance')
             /\ tx'[t].step = "number" => sequance' <= MaxSequence
             /\ \A u, v \in Caller : Active(u)' /\ Active(v)' => u = v
             /\ \A u \in Caller : tx'[u].step = "number" => u = t
  <2>1. /\ ~reissued /\ lastTimeSec <= clock
        /\ \A sn \in issued : /\ sn \in Nat \X Nat /\ sn[1] <= clock
                              /\ sn[1] < clock \/ (sn[1] = lastTimeSec /\ sn[2] <= sequance)
        /\ \A u, v \in Caller : Active(u) /\ Active(v) => u = v
    BY <1>1, <1>5, Zenon DEF GInv, Assumed
  <2>2. \A sn \in issued : Behind(sn, lastTimeSec', sequance')
    BY <1>1, <1>3, <2>1 DEF Behind, NewSecond
  <2>3. tx'[t].step = "number" => sequance' <= MaxSequence
    BY <1>1, <1>2, <1>3 DEF TooLarge
  <2>4. /\ \A u, v \in Caller : Active(u)' /\ Active(v)' => u = v
        /\ \A u \in Caller : tx'[u].step = "number" => u = t
    BY <1>1, <1>2, <2>1, Zenon DEF Active
  <2>5. lastTimeSec' <= clock'
    BY <1>1, <1>3, <2>1
  <2> QED  BY <1>1, <2>1, <2>2, <2>3, <2>4, <2>5, Zenon
<1>6. lastTimeSec' \in Nat /\ sequance' \in Nat /\ clock' \in Nat
  BY <1>1, <1>3
<1>7. ASSUME Assumed', NEW sn \in issued'
      PROVE  sn[1] < clock' \/ (sn[1] = lastTimeSec' /\ sn[2] <= sequance')
  <2>1. Behind(sn, lastTimeSec', sequance') /\ lastTimeSec' <= clock' /\ sn \in Nat \X Nat
    BY <1>4, <1>5, <1>7, SMTT(30)
  <2> QED  BY <1>6, <2>1 DEF Behind
<1> QED  BY <1>4, <1>5, <1>7, Zenon DEF GInv

\* ... and is handed out as it is: the mask takes nothing off.
LEMMA NumberReadyGInv == ASSUME TInv, GInv, NEW t \in Caller, NumberReady(t) PROVE GInv'
<1> DEFINE sn == << lastTimeSec, Masked(sequance) >>
<1>1. /\ tx[t].step = "number" /\ Active(t) /\ up
      /\ UNCHANGED << setting, up, clock, lastTimeSec, sequance >>
      /\ issued' = issued \cup {sn} /\ reissued' = (reissued \/ sn \in issued)
      /\ clock \in Nat /\ lastTimeSec \in Nat /\ sequance \in Nat /\ MaxSequence \in Nat
  BY WorldDbAssumption, Zenon DEF NumberReady, Active, GInv, TInv, Clocks
<1>2. /\ \A u \in Caller \ {t} : tx'[u] = tx[u]
      /\ tx'[t].step # "number"
  BY Zenon DEF NumberReady, TInv, CallOK, Fields, Numbered
<1>3. sn \in Nat \X Nat
  <2>1. Masked(sequance) \in 0..MaxSequence
    BY <1>1, MaskedType, Zenon
  <2> QED  BY <1>1, <2>1
<1>4. issued' \subseteq Nat \X Nat
  BY <1>1, <1>3, SMTT(30) DEF GInv
<1>5. ASSUME Assumed'
      PROVE  /\ ~reissued'
             /\ \A u, v \in Caller : Active(u)' /\ Active(v)' => u = v
             /\ lastTimeSec <= clock
             /\ \A n \in issued' : n[1] < clock \/ (n[1] = lastTimeSec /\ n[2] <= sequance)
             /\ \A u \in Caller : tx'[u].step # "number"
  <2>1. /\ ~reissued /\ lastTimeSec <= clock /\ sequance <= MaxSequence
        /\ \A n \in issued : n \in Nat \X Nat /\ Behind(n, lastTimeSec, sequance)
        /\ \A u, v \in Caller : Active(u) /\ Active(v) => u = v
    BY <1>1, <1>5, Zenon DEF GInv, Assumed
  <2>2. Masked(sequance) = sequance
    BY <1>1, <2>1 DEF Masked
  <2>3. sn[1] = lastTimeSec /\ sn[2] = sequance
    BY <2>2, Zenon
  <2> HIDE DEF sn
  <2>4. sn \notin issued
    BY <1>1, <2>1, <2>3 DEF Behind
  <2>5. \A n \in issued' : n[1] < clock \/ (n[1] = lastTimeSec /\ n[2] <= sequance)
    BY <1>1, <2>1, <2>3 DEF Behind
  <2>6. /\ \A u, v \in Caller : Active(u)' /\ Active(v)' => u = v
        /\ \A u \in Caller : tx'[u].step # "number"
    BY <1>1, <1>2, <2>1, SMTT(30) DEF Active
  <2> QED  BY <1>1, <2>1, <2>3, <2>4, <2>5, <2>6, Zenon
<1>6. ASSUME Assumed', NEW n \in issued' PROVE n[1] <= clock
  BY <1>1, <1>4, <1>5, <1>6
<1> QED  BY <1>1, <1>4, <1>5, <1>6, Zenon DEF GInv

LEMMA NextGInv == TInv /\ GInv /\ [Next]_vars => GInv'
<1> SUFFICES ASSUME TInv, GInv, [Next]_vars PROVE GInv'
  BY Zenon
<1>1. ASSUME NEW t \in Caller, Start(t) \/ Step(t) \/ ConnectionLost(t) PROVE GInv'
  BY <1>1, StartGInv, StatementGInv, GenerateGInv, NumberReadyGInv, SMTT(30) DEF Step
<1>2. CASE Crash
  <2>1. \A t \in Caller : tx'[t].step = "idle"
    BY <1>2, IdleOK, Zenon DEF Crash
  <2>2. ~up' /\ lastTimeSec' = 0 /\ UNCHANGED << setting, clock, issued, reissued >>
    BY <1>2, Zenon DEF Crash
  <2>3. clock \in Nat
    BY Zenon DEF TInv, Clocks
  <2> QED  BY <2>1, <2>2, <2>3 DEF GInv, Active, Assumed
<1>3. CASE Restart
  <2>1. ~up /\ up' /\ UNCHANGED << setting, clock, lastTimeSec, sequance, issued, reissued, tx >>
    BY <1>3, Zenon DEF Restart, generator
  <2>2. Assumed => \A sn \in issued : sn[1] < clock
    BY <1>3, Zenon DEF Restart, Assumed
  <2>3. \A t \in Caller : tx[t].step = "idle"
    BY <2>1, SMTT(30) DEF GInv, Active
  <2> QED  BY <2>1, <2>2, <2>3, Zenon DEF GInv, Active, Assumed
<1>4. CASE Tick
  <2>1. UNCHANGED << setting, up, lastTimeSec, sequance, issued, reissued, tx >>
    BY <1>4, Zenon DEF Tick
  <2>2. Assumed => clock' = clock + 1
    BY <1>4, Zenon DEF Tick, Assumed
  <2>3. clock \in Nat /\ lastTimeSec \in Nat
    BY Zenon DEF TInv, Clocks
  <2>4. issued \subseteq Nat \X Nat
    BY Zenon DEF GInv
  <2>5. ASSUME Assumed', NEW sn \in issued' PROVE sn[1] < clock'
    BY <2>1, <2>2, <2>3, <2>4, <2>5 DEF GInv, Assumed
  <2>6. ASSUME Assumed', NEW sn \in issued' PROVE sn[1] <= clock'
    <3>1. clock' \in Nat /\ sn[1] \in Nat
      BY <2>1, <2>2, <2>3, <2>4, <2>6 DEF Assumed
    <3> QED  BY <2>5, <2>6, <3>1
  <2>7. Assumed' => lastTimeSec' <= clock'
    BY <2>1, <2>2, <2>3, SMTT(30) DEF GInv, Assumed
  <2> QED  BY <2>1, <2>5, <2>6, <2>7, Zenon DEF GInv, Active, Assumed, Behind
<1>5. CASE UNCHANGED vars
  <2>1. UNCHANGED << setting, up, clock, lastTimeSec, sequance, issued, reissued, tx >>
    BY <1>5, Zenon DEF vars, generator
  <2> QED  BY <2>1, Zenon DEF GInv, Active, Assumed, Behind
<1> QED  BY <1>1, <1>2, <1>3, <1>4, <1>5, Zenon DEF Next

\* GenerateSN never hands out a number twice as long as calls do not overlap,
\* the clock is not set back and a restart takes until the next second
\* (Character.cs, GeneratorItemSN).
THEOREM ItemNumbersUnique == Spec => []ItemSNUnique
<1>1. GInv => ItemSNUnique
  BY Zenon DEF GInv, ItemSNUnique, Assumed
<1>2. Init => TInv /\ GInv
  BY InitTInv, InitGInv, Zenon
<1>3. (TInv /\ GInv) /\ [Next]_vars => (TInv /\ GInv)'
  BY NextTInv, NextGInv, Zenon
<1> QED  BY <1>1, <1>2, <1>3, PTL DEF Spec
==============================================================================
