------------------------------- MODULE WorldDb -------------------------------
(***************************************************************************)
(* WorldDbConnection of the C# db server: CharacterCreate, ItemCreate and  *)
(* ItemRemove, each a transaction of several statements on its own         *)
(* connection; GeneratorItemSN, the source of item numbers; and the tables *)
(* of world_db.sql.  Callers run in parallel, a connection or the whole    *)
(* server may be lost between any two statements, and the clock may be set *)
(* back.                                                                   *)
(***************************************************************************)
EXTENDS Integers, Sequences, FiniteSets

CONSTANTS Caller,       \* threads that call WorldDbConnection
          Cid, Name,    \* character ids and names
          DefaultItems, \* CharacterCreateDefault.items, their types in order
          MaxTime,      \* bound: seconds
          MaxSequence,  \* 0xFFFFFF
          Settings      \* what may happen: whether calls overlap (callers), how
                        \* soon the server is back (restart), whether the clock
                        \* is set back (clock), whether there is a character
                        \* from before (stored), and the bound on calls (calls)

ASSUME WorldDbAssumption ==
    /\ MaxTime \in Nat /\ MaxSequence \in Nat
    /\ DefaultItems \in Seq(Nat)

VARIABLES
    setting,     \* a member of Settings; never changes
    up,          \* the db server runs
    clock,       \* UTC, in seconds
    lastTimeSec, \* GeneratorItemSN._lastTimeSec
    sequance,    \* GeneratorItemSN._sequance
    characters,  \* committed rows of the table characters
    items,       \* committed rows of the table items
    tx,          \* what each caller does
    calls,       \* calls started
    issued,      \* history: item numbers handed out
    reissued,    \* history: one was handed out twice
    gone,        \* history: rows of items deleted, and by which call
    returned     \* history: how each call ended

generator == << clock, lastTimeSec, sequance, issued, reissued >>
tables == << characters, items, gone >>
vars == << setting, up, generator, tables, tx, calls, returned >>

\* A caller with nothing to do.  todo is what the call is asked for, the types
\* to create or the numbers to delete; list the numbers it works with; chars,
\* new and old (the items it deletes) are its changes until it commits.
Idle == [step |-> "idle", op |-> "none", call |-> 0, cid |-> 0, name |-> 0,
         todo |-> << >>, list |-> << >>, chars |-> {}, new |-> {}, old |-> {}]

\* A character created in an earlier second, before the calls of the model.
Stored == [cid |-> CHOOSE c \in Cid : TRUE, name |-> CHOOSE n \in Name : TRUE,
           by |-> 0]
StoredItems == {[sn |-> << 0, k >>, type |-> DefaultItems[k + 1],
                 owner |-> Stored.cid, by |-> 0] : k \in 0..Len(DefaultItems) - 1}

Init ==
    /\ setting \in Settings
    /\ up = TRUE
    /\ clock = 1 /\ lastTimeSec = 0 /\ sequance = 0
    /\ characters = IF setting.stored THEN {Stored} ELSE {}
    /\ items = IF setting.stored THEN StoredItems ELSE {}
    /\ issued = {i.sn : i \in items}
    /\ gone = {}
    /\ tx = [t \in Caller |-> Idle]
    /\ calls = 0
    /\ reissued = FALSE /\ returned = {}

-----------------------------------------------------------------------------
(* Calls.                                                                  *)

Call(t, step, op, cid, name, todo, list) ==
    /\ up /\ tx[t].step = "idle"
    /\ calls < setting.calls
    /\ setting.callers = 1 => \A u \in Caller : tx[u].step = "idle"
    /\ calls' = calls + 1
    /\ tx' = [tx EXCEPT ![t] = [Idle EXCEPT !.step = step, !.op = op,
                                            !.call = calls + 1, !.cid = cid,
                                            !.name = name, !.todo = todo,
                                            !.list = list]]
    /\ UNCHANGED << setting, up, generator, tables, returned >>

StartCharacterCreate(t) ==
    \E cid \in Cid, name \in Name :
        Call(t, "open", "CharacterCreate", cid, name, DefaultItems, << >>)

\* ItemCreate is given its items with their numbers: the caller generates them
\* before the call opens a connection.
StartItemCreate(t) ==
    \E cid \in Cid :
        Call(t, "generate", "ItemCreate", cid, 0, << DefaultItems[1] >>, << >>)

\* Two numbers to delete: of any character, or unknown ones.
StartItemRemove(t) ==
    \E a, b \in {i.sn : i \in items} \cup {<< 0, MaxSequence >>} :
        Call(t, "open", "ItemRemove", 0, 0, << a, b >>, << a, b >>)

\* The call is over, its transaction with it; how it answers.
End(t, result, raised) ==
    /\ tx' = [tx EXCEPT ![t] = Idle]
    /\ returned' = returned \cup {[op |-> tx[t].op, call |-> tx[t].call,
                                   todo |-> tx[t].todo, result |-> result,
                                   raised |-> raised]}

\* An exception: the catch block rolls back, and the function returns true.
Raised(t) == End(t, "true", TRUE)

\* A statement's Result is a failure: rolled back.  CharacterCreate returns
\* false, the other two go on to return true.
FailedAnyTrue(t) == End(t, "true", FALSE)
Failed(t) ==
    End(t, IF tx[t].op = "CharacterCreate" THEN "false" ELSE "true", FALSE)

FirstStep(op) == CASE op = "CharacterCreate" -> "insertChar"
                   [] op = "ItemCreate" -> "insertItem"
                   [] OTHER -> "delete"

Open(t) ==
    /\ tx[t].step = "open"
    /\ \/ /\ tx' = [tx EXCEPT ![t].step = FirstStep(tx[t].op)]
          /\ UNCHANGED returned
       \/ Raised(t)                                \* conn.Open throws
    /\ UNCHANGED << setting, up, generator, tables, calls >>

-----------------------------------------------------------------------------
(* GeneratorItemSN.GenerateSN: no lock; the numbers are read again from    *)
(* the static fields when the result is put together.                      *)

\* Its exception: caught by CharacterCreate, not by a caller of ItemCreate.
Thrown(t) == IF tx[t].op = "CharacterCreate" THEN Raised(t)
             ELSE End(t, "threw", TRUE)

\* Where a call goes on once it has all its numbers.
Numbered(op) == IF op = "CharacterCreate" THEN "insertItem" ELSE "open"

NewSecondAlways(now) == TRUE
NewSecond(now) == now # lastTimeSec
TooLarge(n) == n > MaxSequence

\* Instead of the exception: wait for the next second.
GenerateSNWaits(t) ==
    /\ tx[t].step = "generate"
    /\ \/ NewSecond(clock) /\ lastTimeSec' = clock /\ sequance' = 0
       \/ /\ ~NewSecond(clock) /\ ~TooLarge(sequance + 1)
          /\ sequance' = sequance + 1 /\ UNCHANGED lastTimeSec
    /\ tx' = [tx EXCEPT ![t].step = "number"]
    /\ UNCHANGED << setting, up, clock, issued, reissued, tables, calls,
                    returned >>

GenerateSN(t) ==
    /\ tx[t].step = "generate"
    /\ \/ /\ NewSecond(clock)
          /\ lastTimeSec' = clock
          /\ sequance' = 0
          /\ tx' = [tx EXCEPT ![t].step = "number"]
          /\ UNCHANGED returned
       \/ /\ ~NewSecond(clock)
          /\ sequance' = sequance + 1
          /\ UNCHANGED lastTimeSec
          /\ IF TooLarge(sequance + 1) THEN Thrown(t)
             ELSE /\ tx' = [tx EXCEPT ![t].step = "number"]
                  /\ UNCHANGED returned
    /\ UNCHANGED << setting, up, clock, issued, reissued, tables, calls >>

Masked(n) == n % (MaxSequence + 1)

NumberReady(t) ==
    LET sn == << lastTimeSec, Masked(sequance) >>
        list == Append(tx[t].list, sn)
    IN  /\ tx[t].step = "number"
        /\ issued' = issued \cup {sn}
        /\ reissued' = (reissued \/ sn \in issued)
        /\ tx' = [tx EXCEPT ![t].list = list,
                            ![t].step = IF Len(list) = Len(tx[t].todo)
                                        THEN Numbered(tx[t].op) ELSE "generate"]
        /\ UNCHANGED << setting, up, clock, lastTimeSec, sequance, tables,
                        calls, returned >>

-----------------------------------------------------------------------------
(* Statements.  A key of an open transaction blocks the others that need   *)
(* it until it ends, or until the server gives up waiting (an exception).  *)

Others(t) == Caller \ {t}

CharTaken(t) ==
    \E r \in characters : r.cid = tx[t].cid \/ r.name = tx[t].name
CharLocked(t) ==
    \E u \in Others(t) : \E r \in tx[u].chars :
        r.cid = tx[t].cid \/ r.name = tx[t].name

QueryCharacterCreate(t) ==
    /\ tx[t].step = "insertChar"
    /\ \/ /\ ~CharTaken(t) /\ ~CharLocked(t)
          /\ tx' = [tx EXCEPT
                ![t].chars = {[cid |-> tx[t].cid, name |-> tx[t].name,
                               by |-> tx[t].call]},
                ![t].step = "generate"]
          /\ UNCHANGED returned
       \/ /\ CharTaken(t) \/ CharLocked(t)       \* duplicate key, or timeout
          /\ Failed(t)
    /\ UNCHANGED << setting, up, generator, tables, calls >>

\* The item t inserts next.
NextItem(t) ==
    LET k == Cardinality(tx[t].new) + 1
    IN  [sn |-> tx[t].list[k], type |-> tx[t].todo[k], owner |-> tx[t].cid,
         by |-> tx[t].call]

SnTaken(t) ==
    \E i \in items \cup UNION {tx[u].new : u \in Caller} :
        i.sn = NextItem(t).sn
OwnerExists(t) == \E r \in characters \cup tx[t].chars : r.cid = tx[t].cid

LastButOne(t) == Cardinality(tx[t].new) + 2 >= Len(tx[t].list)
LastItem(t) == Cardinality(tx[t].new) + 1 = Len(tx[t].list)

\* One INSERT of the loop; the foreign key needs the owner's row.
QueryItemCreate(t) ==
    /\ tx[t].step = "insertItem"
    /\ \/ /\ ~SnTaken(t) /\ OwnerExists(t)
          /\ tx' = [tx EXCEPT
                ![t].new = @ \cup {NextItem(t)},
                ![t].step = IF LastItem(t) THEN "commit" ELSE "insertItem"]
          /\ UNCHANGED returned
       \/ /\ SnTaken(t) \/ ~OwnerExists(t)
          /\ Failed(t)
    /\ UNCHANGED << setting, up, generator, tables, calls >>

\* One DELETE of the loop: by number only.  No row is a failure.
Deleted(t) == {i \in items \ tx[t].old : i.sn = Head(tx[t].list)}
RowLocked(t) == \E u \in Others(t) : Deleted(t) \cap tx[u].old # {}
MissingIgnored(t) == FALSE
Missing(t) == Deleted(t) = {}

QueryItemRemove(t) ==
    /\ tx[t].step = "delete"
    /\ \/ /\ ~Missing(t) /\ ~RowLocked(t)
          /\ tx' = [tx EXCEPT
                ![t].old = @ \cup Deleted(t),
                ![t].list = Tail(@),
                ![t].step = IF Len(tx[t].list) = 1 THEN "commit"
                            ELSE "delete"]
          /\ UNCHANGED returned
       \/ /\ Missing(t) \/ RowLocked(t)
          /\ Failed(t)
    /\ UNCHANGED << setting, up, generator, tables, calls >>

-----------------------------------------------------------------------------
(* The end of a transaction, and faults.                                   *)

Apply(t) ==
    /\ characters' = characters \cup tx[t].chars
    /\ items' = (items \ tx[t].old) \cup tx[t].new
    /\ gone' = gone \cup {[item |-> i, by |-> tx[t].call] : i \in tx[t].old}

Commit(t) ==
    /\ tx[t].step = "commit"
    /\ Apply(t)
    /\ End(t, "true", FALSE)
    /\ UNCHANGED << setting, up, generator, calls >>

\* t has a connection open.
Connected(t) ==
    /\ tx[t].step \notin {"idle", "open"}
    /\ tx[t].op = "ItemCreate" => tx[t].step \in {"insertItem", "commit"}

\* The connection is lost: the database rolls back, or has just committed.
\* The next statement throws, and so does the Rollback of the catch block.
ConnectionLost(t) ==
    /\ Connected(t)
    /\ \/ UNCHANGED tables
       \/ tx[t].step = "commit" /\ Apply(t)
    /\ End(t, "threw", TRUE)
    /\ UNCHANGED << setting, up, generator, calls >>

\* The server ends; its static fields start anew with the next one.
Crash ==
    /\ up /\ up' = FALSE
    /\ tx' = [t \in Caller |-> Idle]
    /\ lastTimeSec' = 0 /\ sequance' = 0
    /\ UNCHANGED << setting, clock, issued, reissued, tables, calls,
                    returned >>

Restart ==
    /\ ~up /\ up' = TRUE
    /\ setting.restart = "later" => \A sn \in issued : sn[1] < clock
    /\ UNCHANGED << setting, generator, tables, tx, calls, returned >>

Tick ==
    /\ clock' \in {clock + 1} \cup (IF setting.clock = "back" THEN {clock - 1}
                                    ELSE {})
    /\ clock' \in 1..MaxTime
    /\ UNCHANGED << setting, up, lastTimeSec, sequance, issued, reissued,
                    tables, tx, calls, returned >>

Start(t) ==
    StartCharacterCreate(t) \/ StartItemCreate(t) \/ StartItemRemove(t)

Step(t) ==
    \/ Open(t) \/ QueryCharacterCreate(t) \/ GenerateSN(t) \/ NumberReady(t)
    \/ QueryItemCreate(t) \/ QueryItemRemove(t) \/ Commit(t)

Next ==
    \/ \E t \in Caller : Start(t) \/ Step(t) \/ ConnectionLost(t)
    \/ Crash \/ Restart \/ Tick

Spec == Init /\ [][Next]_vars

\* A thread that is in a call goes on with it.
FairSpec == Spec /\ \A t \in Caller : WF_vars(Step(t))

-----------------------------------------------------------------------------
\* Types of the tables and of the generator's fields (Character.cs:193-200).
TypeOK ==
    /\ characters \subseteq [cid : Cid, name : Name, by : 0..setting.calls]
    /\ \A i \in items : i.owner \in Cid /\ i.sn \in issued
    /\ issued \subseteq (0..MaxTime) \X (0..MaxSequence)
    /\ lastTimeSec \in 0..MaxTime
    /\ \A t \in Caller : tx[t].call \in 0..setting.calls

\* What a reader may ever see of a character is the whole of it: its row and
\* every default item, except for items that an ItemRemove has deleted.  The
\* row and the items are written by several statements
\* (WorldQuery.cs:76, WorldQuery_Item.cs:16), and any of them, the connection
\* and the server may fail in between.
WholeCharacters ==
    \A r \in characters :
        \A k \in 1..Len(DefaultItems) :
            \/ \E i \in items : i.by = r.by /\ i.type = DefaultItems[k]
            \/ \E g \in gone : g.item.by = r.by /\ g.item.type = DefaultItems[k]

\* CharacterCreate's answer: false means that nothing of the call is in the
\* tables, and true without an exception that its character is.  (After an
\* exception it returns true as well, WorldQuery.cs:102-107.)
CreateAnswersTruly ==
    \A r \in returned : r.op = "CharacterCreate" =>
        /\ r.result = "false" =>
             /\ \A c \in characters : c.by # r.call
             /\ \A i \in items : i.by # r.call
        /\ r.result = "true" /\ ~r.raised =>
             \E c \in characters : c.by = r.call

\* Within one server no item number is handed out twice, provided that calls
\* do not overlap, the clock is never set back, and a restart takes the server
\* into a later second: GenerateSN has no lock and starts again at 0 in a new
\* process (Character.cs:198-218).
ItemSNUnique ==
    setting.callers = 1 /\ setting.restart = "later" /\ setting.clock = "forward"
        => ~reissued

\* The items of one ItemRemove are deleted together or not at all, whichever
\* of its DELETE statements fails and whoever else deletes the same rows.
RemovedTogether ==
    \A t \in returned : t.op = "ItemRemove" =>
        LET deleted == {g \in gone : g.by = t.call}
        IN  deleted = {} \/ {g.item.sn : g \in deleted} = {t.todo[1], t.todo[2]}

\* Every call returns: no statement waits for ever for a key of another
\* transaction, and no path of the three functions loops.
CallsReturn ==
    \A t \in Caller : tx[t].step # "idle" ~> tx[t].step = "idle"
==============================================================================
