------------------------- MODULE CachedTodosProofs -------------------------
(***************************************************************************)
(* Proofs about CachedTodos: its types and the coherence of both caches.   *)
(***************************************************************************)
EXTENDS CachedTodos, TodoTableProofs, TLAPS

-----------------------------------------------------------------------------
(* Types.  TypeOK alone is not inductive: that itemCache.Set stores a todo *)
(* rests on the request holding one.                                       *)

TInv == TypeOK /\ HeldHasType

\* Every program point of a request is in PC.
LEMMA PCFacts ==
    /\ HoldsItem \subseteq PC
    /\ ListCallDue \subseteq PC
    /\ {"idle", "getQuery", "listQuery", "listFill"} \subseteq PC
  BY DEF PC

\* An answer is a result.
LEMMA AnswerTypes ==
    /\ \A t \in Todo : Item(t) \in [item : Todo] /\ Item(t).item = t
    /\ \A r \in Rows : List(r) \in [list : Rows] /\ List(r).list = r
    /\ [item : Todo] \subseteq Result
    /\ [list : Rows] \subseteq Result
    /\ {NoResult, Failed, Deleted} \subseteq Result
  BY DEF Item, List, Result

LEMMA TypeInit == Init => TInv
  <1> SUFFICES ASSUME Init PROVE TInv
    OBVIOUS
  <1>1. TablesTypeOK
    BY NoRowsIsRows DEF Init, StoreInit, TablesInit, TablesTypeOK, NoRows
  <1>2. TypeOK
    BY <1>1, NoRowsIsRows, PCFacts, AnswerTypes
       DEF Init, StoreInit, EmptyCaches, TypeOK, NoRows, Rows
  <1>3. HeldHasType
    BY DEF Init, HeldHasType, HoldsItem
  <1> QED
    BY <1>2, <1>3 DEF TInv

\* A step of request w keeps the types when its variables do and what w then
\* holds fits where w then stands.
LEMMA TypeMove ==
    ASSUME TInv, NEW w \in Worker,
           TypeOK',
           \A x \in Worker \ {w} : pc'[x] = pc[x] /\ result'[x] = result[x],
           pc'[w] \in HoldsItem \ {"deleteDrop"} => result'[w] \in [item : Todo],
           pc'[w] = "listFill" => result'[w] \in [list : Rows]
    PROVE  TInv'
  BY DEF TInv, HeldHasType

LEMMA TypeStep == TInv /\ [Next]_vars => TInv'
  <1> SUFFICES ASSUME TInv, [Next]_vars PROVE TInv'
    OBVIOUS
  <1> USE DEF Answer
  <1>t. TypeOK /\ HeldHasType /\ TablesTypeOK
    BY DEF TInv, TypeOK
  <1>1. ASSUME NEW w \in Worker, RequestStep(w)
        PROVE  TInv'
    <2>k. key[w] \in TodoID /\ result[w] \in Result /\ pc[w] \in PC
      BY <1>t DEF TypeOK
    <2>1. CASE GetByIDQuery(w)
      <3>1. CASE todos[key[w]] # Absent
        <4>1. todos[key[w]] \in Todo
          BY <1>t, <2>k, <3>1 DEF TablesTypeOK, Rows
        <4> QED
          BY <1>t, <2>1, <2>k, <3>1, <4>1, TypeMove, AnswerTypes, PCFacts
             DEF GetByIDQuery, Goto, HoldsItem, TypeOK, tables, caches, history, TablesTypeOK
      <3>2. CASE todos[key[w]] = Absent
        BY <1>t, <2>1, <2>k, <3>2, TypeMove, AnswerTypes, PCFacts
           DEF GetByIDQuery, Goto, HoldsItem, TypeOK, tables, caches, history, TablesTypeOK
      <3> QED
        BY <3>1, <3>2
    <2>2. CASE GetByIDFill(w)
      <3>1. itemCache' \in [TodoID -> Todo \cup {Absent}]
        BY <1>t, <2>2, <2>k DEF GetByIDFill, SetItem, HeldHasType, HoldsItem, TypeOK
      <3> QED
        BY <1>t, <2>2, <2>k, <3>1, TypeMove, PCFacts
           DEF GetByIDFill, SetItem, Return, Goto, HoldsItem, TypeOK, tables, TablesTypeOK
    <2>3. CASE GetAllLookup(w)
      <3>1. CASE listCache # NoList
        <4>1. listCache \in Rows
          BY <1>t, <3>1 DEF TypeOK
        <4> QED
          BY <1>t, <2>3, <2>k, <3>1, <4>1, TypeMove, AnswerTypes, PCFacts
             DEF GetAllLookup, HoldsItem, TypeOK, tables, caches, history, TablesTypeOK
      <3>2. CASE listCache = NoList
        BY <1>t, <2>3, <2>k, <3>2, TypeMove, PCFacts
           DEF GetAllLookup, Goto, HoldsItem, TypeOK, tables, caches, history, TablesTypeOK
      <3> QED
        BY <3>1, <3>2
    <2>4. CASE GetAllQuery(w)
      BY <1>t, <2>4, <2>k, TypeMove, AnswerTypes, PCFacts
         DEF GetAllQuery, Goto, HoldsItem, TypeOK, tables, caches, history, TablesTypeOK
    <2>5. CASE GetAllQueryFails(w)
      <3>1. PICK rows \in Rows : Answer(w, List(rows))
        <4>1. \A ids \in SUBSET TodoID :
                 [i \in TodoID |-> IF i \in ids THEN todos[i] ELSE Absent] \in Rows
          BY <1>t DEF TablesTypeOK, Rows
        <4> QED
          BY <2>5, <4>1, NoRowsIsRows DEF GetAllQueryFails
      <3> QED
        BY <1>t, <2>5, <2>k, <3>1, TypeMove, AnswerTypes, PCFacts
           DEF GetAllQueryFails, Goto, HoldsItem, TypeOK, tables, caches, TablesTypeOK
    <2>6. CASE GetAllFill(w)
      <3>1. listCache' \in Rows \cup {NoList}
        BY <1>t, <2>6 DEF GetAllFill, HeldHasType
      <3> QED
        BY <1>t, <2>6, <2>k, <3>1, TypeMove, PCFacts
           DEF GetAllFill, Return, Goto, HoldsItem, TypeOK, tables, TablesTypeOK
    <2>7. CASE CreateInsert(w)
      <3>1. PICK i \in TodoID, title \in Title, u \in User :
               /\ InsertTodo(i, title, u)
               /\ Answer(w, Item(NewTodo(i, title, u)))
               /\ Begin(w, i, "createSet")
        BY <2>7 DEF CreateInsert
      <3>2. TablesTypeOK' /\ NewTodo(i, title, u) \in Todo
        BY <1>t, <3>1, InsertFacts
      <3> QED
        BY <1>t, <2>7, <3>1, <3>2, TypeMove, AnswerTypes, PCFacts
           DEF CreateInsert, Begin, Goto, AnnouncedChange, Overtake, Overtaken,
               HoldsItem, TypeOK, caches
    <2>8. CASE CreateRefused(w)
      BY <1>t, <2>8, <2>k, TypeMove, AnswerTypes, PCFacts
         DEF CreateRefused, HoldsItem, TypeOK, tables, caches, history, TablesTypeOK,
             HeldHasType
    <2>9. CASE CreateSet(w)
      <3>1. itemCache' \in [TodoID -> Todo \cup {Absent}]
        BY <1>t, <2>9, <2>k DEF CreateSet, SetItem, HeldHasType, HoldsItem, TypeOK
      <3> QED
        BY <1>t, <2>9, <2>k, <3>1, TypeMove, PCFacts
           DEF CreateSet, SetItem, Goto, HoldsItem, ListCallDue, TypeOK, tables, TablesTypeOK
    <2>10. CASE CreateInvalidate(w)
      BY <1>t, <2>10, <2>k, TypeMove, PCFacts
         DEF CreateInvalidate, DropList, Return, Goto, HoldsItem, TypeOK, tables, TablesTypeOK
    <2>11. CASE UpdateSet(w)
      <3>1. itemCache' \in [TodoID -> Todo \cup {Absent}]
        BY <1>t, <2>11, <2>k DEF UpdateSet, SetItem, HeldHasType, HoldsItem, TypeOK
      <3> QED
        BY <1>t, <2>11, <2>k, <3>1, TypeMove, PCFacts
           DEF UpdateSet, SetItem, Goto, HoldsItem, ListCallDue, TypeOK, tables, TablesTypeOK
    <2>12. CASE UpdateInvalidate(w)
      BY <1>t, <2>12, <2>k, TypeMove, PCFacts
         DEF UpdateInvalidate, DropList, Return, Goto, HoldsItem, TypeOK, tables, TablesTypeOK
    <2>13. CASE DeleteDrop(w)
      BY <1>t, <2>13, <2>k, TypeMove, PCFacts
         DEF DeleteDrop, DropItem, Goto, HoldsItem, ListCallDue, TypeOK, tables, TablesTypeOK
    <2>14. CASE DeleteInvalidate(w)
      BY <1>t, <2>14, <2>k, TypeMove, PCFacts
         DEF DeleteInvalidate, DropList, Return, Goto, HoldsItem, TypeOK, tables, TablesTypeOK
    <2>15. CASE StatementFails(w)
      BY <1>t, <2>15, <2>k, TypeMove, AnswerTypes, PCFacts
         DEF StatementFails, Goto, HoldsItem, TypeOK, tables, caches, history, TablesTypeOK
    <2>16. CASE ReplyLost(w)
      <3>1. TablesTypeOK'
        BY <1>t, <2>16, InsertFacts, UpdateFacts, DeleteFacts DEF ReplyLost
      <3>2. pc[w] = "idle"
        BY <2>16 DEF ReplyLost
      <3> QED
        BY <1>t, <2>16, <2>k, <3>1, <3>2, TypeMove, AnswerTypes, PCFacts
           DEF ReplyLost, SilentChange, Overtake, Overtaken, Changed, HoldsItem, TypeOK, caches
    <2>17. ASSUME NEW i \in TodoID, GetByIDLookup(w, i)
           PROVE  TInv'
      <3>1. CASE itemCache[i] # Absent
        <4>1. itemCache[i] \in Todo
          BY <1>t, <3>1 DEF TypeOK
        <4> QED
          BY <1>t, <2>17, <2>k, <3>1, <4>1, TypeMove, AnswerTypes, PCFacts
             DEF GetByIDLookup, HoldsItem, TypeOK, tables, caches, history, TablesTypeOK
      <3>2. CASE itemCache[i] = Absent
        BY <1>t, <2>17, <2>k, <3>2, TypeMove, PCFacts
           DEF GetByIDLookup, Begin, Goto, HoldsItem, TypeOK, tables, caches, history,
               TablesTypeOK
      <3> QED
        BY <3>1, <3>2
    <2>18. ASSUME NEW i \in TodoID, UpdateStatement(w, i)
           PROVE  TInv'
      <3>1. TablesTypeOK' /\ todos'[i] \in Todo
        BY <1>t, <2>18, UpdateFacts DEF UpdateStatement
      <3> QED
        BY <1>t, <2>18, <3>1, TypeMove, AnswerTypes, PCFacts
           DEF UpdateStatement, Begin, Goto, AnnouncedChange, Overtake, Overtaken,
               HoldsItem, TypeOK, caches
    <2>19. ASSUME NEW i \in TodoID, DeleteStatement(w, i)
           PROVE  TInv'
      <3>1. TablesTypeOK'
        BY <1>t, <2>19, DeleteFacts DEF DeleteStatement
      <3> QED
        BY <1>t, <2>19, <3>1, TypeMove, AnswerTypes, PCFacts
           DEF DeleteStatement, Begin, Goto, AnnouncedChange, Overtake, Overtaken,
               HoldsItem, TypeOK, caches
    <2>20. ASSUME NEW i \in TodoID, WriteNotFound(w, i)
           PROVE  TInv'
      BY <1>t, <2>20, <2>k, TypeMove, AnswerTypes, PCFacts
         DEF WriteNotFound, HoldsItem, TypeOK, tables, caches, history, TablesTypeOK
    <2> QED
      BY <1>1, <2>1, <2>2, <2>3, <2>4, <2>5, <2>6, <2>7, <2>8, <2>9, <2>10, <2>11, <2>12,
         <2>13, <2>14, <2>15, <2>16, <2>17, <2>18, <2>19, <2>20 DEF RequestStep
  <1>2. CASE UserDelete
    <2>1. TablesTypeOK'
      BY <1>t, <1>2, DeleteUserFacts DEF UserDelete
    <2> QED
      BY <1>t, <1>2, <2>1
         DEF UserDelete, SilentChange, Overtake, Overtaken, Changed, TInv, TypeOK, HeldHasType,
             caches
  <1>3. CASE ProcessRestart
    BY <1>t, <1>3, NoRowsIsRows, PCFacts, AnswerTypes
       DEF ProcessRestart, Restart, TInv, TypeOK, HeldHasType, HoldsItem, tables, TablesTypeOK,
           NoRows
  <1>4. CASE UNCHANGED vars
    BY <1>t, <1>4
       DEF vars, storeVars, tables, caches, history, TInv, TypeOK, HeldHasType, TablesTypeOK
  <1> QED
    BY <1>1, <1>2, <1>3, <1>4 DEF Next

\* Every variable of the cached service keeps its type, for any number of
\* goroutines, todos, titles and users, and whatever fails.
THEOREM TypeCorrect == CachedSpec => []TypeOK
  <1>1. TInv => TypeOK
    BY DEF TInv
  <1> QED
    BY <1>1, TypeInit, TypeStep, PTL DEF CachedSpec

-----------------------------------------------------------------------------
(* What a request holds. *)

\* A table that keeps every row is the same table.
LEMMA NothingChanged ==
    ASSUME todos \in Rows, todos' \in Rows, Changed = {}
    PROVE  todos' = todos
  BY DEF Changed, Rows

\* A request that does not move, and is marked when it is overtaken, still holds
\* the state of the table or is marked.
LEMMA HeldStays ==
    ASSUME TInv, TInv', HeldIsCurrent, NEW x \in Worker,
           pc'[x] = pc[x], key'[x] = key[x], result'[x] = result[x],
           x \in outdated => x \in outdated',
           x \in Overtaken(Changed) => x \in outdated'
    PROVE  x \in outdated' \/ Held(x)'
  <1> SUFFICES ASSUME x \notin outdated' PROVE Held(x)'
    OBVIOUS
  <1>1. Held(x) /\ x \notin Overtaken(Changed)
    BY DEF HeldIsCurrent
  <1>2. todos \in Rows /\ todos' \in Rows /\ key[x] \in TodoID
    BY DEF TInv, TypeOK, TablesTypeOK
  <1>3. ASSUME pc[x] \in HoldsItem PROVE todos'[key[x]] = todos[key[x]]
    BY <1>1, <1>2, <1>3 DEF Overtaken, Changed
  <1>4. ASSUME pc[x] = "listFill" PROVE todos' = todos
    BY <1>1, <1>2, <1>4, NothingChanged DEF Overtaken
  <1> QED
    BY <1>1, <1>3, <1>4 DEF Held, HoldsItem, Item, List

\* A step of request w keeps HeldIsCurrent when the others stay and are marked as
\* they are overtaken, and w is marked or holds the state of the table.
LEMMA HeldMove ==
    ASSUME TInv, TInv', HeldIsCurrent, NEW w \in Worker,
           \A x \in Worker \ {w} : /\ pc'[x] = pc[x]
                                   /\ key'[x] = key[x]
                                   /\ result'[x] = result[x]
                                   /\ x \in outdated => x \in outdated'
                                   /\ x \in Overtaken(Changed) => x \in outdated',
           w \in outdated' \/ Held(w)'
    PROVE  HeldIsCurrent'
  BY HeldStays DEF HeldIsCurrent

\* Nobody is overtaken while the table stands still.
LEMMA NobodyOvertaken ==
    ASSUME todos' = todos
    PROVE  Overtaken(Changed) = {}
  BY DEF Overtaken, Changed

LEMMA HeldStep == TInv /\ TInv' /\ HeldIsCurrent /\ [Next]_vars => HeldIsCurrent'
  <1> SUFFICES ASSUME TInv, TInv', HeldIsCurrent, [Next]_vars PROVE HeldIsCurrent'
    OBVIOUS
  <1> USE DEF Answer, Goto
  <1>t. TypeOK /\ TablesTypeOK /\ todos \in Rows
    BY DEF TInv, TypeOK, TablesTypeOK
  <1>1. ASSUME NEW w \in Worker, RequestStep(w)
        PROVE  HeldIsCurrent'
    <2>1. CASE GetByIDQuery(w)
      BY <1>t, <2>1, HeldMove, NobodyOvertaken
         DEF GetByIDQuery, Held, HoldsItem, TypeOK, tables, caches, history
    <2>2. CASE GetByIDFill(w)
      BY <1>t, <2>2, HeldMove, NobodyOvertaken
         DEF GetByIDFill, SetItem, Return, Held, HoldsItem, TypeOK, tables
    <2>3. CASE GetAllLookup(w)
      BY <1>t, <2>3, HeldMove, NobodyOvertaken
         DEF GetAllLookup, Held, HoldsItem, TypeOK, tables, caches, history
    <2>4. CASE GetAllQuery(w)
      BY <1>t, <2>4, HeldMove, NobodyOvertaken
         DEF GetAllQuery, Held, HoldsItem, TypeOK, tables, caches, history
    <2>5. CASE GetAllQueryFails(w)
      BY <1>t, <2>5, HeldMove, NobodyOvertaken
         DEF GetAllQueryFails, Held, HoldsItem, TypeOK, tables, caches
    <2>6. CASE GetAllFill(w)
      BY <1>t, <2>6, HeldMove, NobodyOvertaken
         DEF GetAllFill, Return, Held, HoldsItem, TypeOK, tables
    <2>7. CASE CreateInsert(w)
      <3>1. PICK i \in TodoID, title \in Title, u \in User :
               /\ InsertTodo(i, title, u)
               /\ Answer(w, Item(NewTodo(i, title, u)))
               /\ Begin(w, i, "createSet")
        BY <2>7 DEF CreateInsert
      <3>2. todos'[i] = NewTodo(i, title, u) /\ NewTodo(i, title, u) \in Todo
        BY <1>t, <3>1, InsertFacts
      <3>3. Held(w)'
        BY <1>t, <3>1, <3>2, MarkersAreNoValues DEF Held, Begin, TypeOK
      <3> QED
        BY <1>t, <2>7, <3>1, <3>3, HeldMove
           DEF CreateInsert, AnnouncedChange, Overtake, Begin, TypeOK
    <2>8. CASE CreateRefused(w)
      BY <1>t, <2>8, HeldMove, NobodyOvertaken
         DEF CreateRefused, Held, HoldsItem, TypeOK, tables, caches, history
    <2>9. CASE CreateSet(w)
      BY <1>t, <2>9, HeldMove, NobodyOvertaken
         DEF CreateSet, SetItem, Held, HoldsItem, TypeOK, tables
    <2>10. CASE CreateInvalidate(w)
      BY <1>t, <2>10, HeldMove, NobodyOvertaken
         DEF CreateInvalidate, DropList, Return, Held, HoldsItem, TypeOK, tables
    <2>11. CASE UpdateSet(w)
      BY <1>t, <2>11, HeldMove, NobodyOvertaken
         DEF UpdateSet, SetItem, Held, HoldsItem, TypeOK, tables
    <2>12. CASE UpdateInvalidate(w)
      BY <1>t, <2>12, HeldMove, NobodyOvertaken
         DEF UpdateInvalidate, DropList, Return, Held, HoldsItem, TypeOK, tables
    <2>13. CASE DeleteDrop(w)
      BY <1>t, <2>13, HeldMove, NobodyOvertaken
         DEF DeleteDrop, DropItem, Held, HoldsItem, TypeOK, tables
    <2>14. CASE DeleteInvalidate(w)
      BY <1>t, <2>14, HeldMove, NobodyOvertaken
         DEF DeleteInvalidate, DropList, Return, Held, HoldsItem, TypeOK, tables
    <2>15. CASE StatementFails(w)
      BY <1>t, <2>15, HeldMove, NobodyOvertaken
         DEF StatementFails, Held, HoldsItem, TypeOK, tables, caches, history
    <2>16. CASE ReplyLost(w)
      <3>1. Held(w)'
        BY <1>t, <2>16 DEF ReplyLost, Held, HoldsItem
      <3> QED
        BY <1>t, <2>16, <3>1, HeldMove DEF ReplyLost, SilentChange, Overtake, TypeOK
    <2>17. ASSUME NEW i \in TodoID, GetByIDLookup(w, i)
           PROVE  HeldIsCurrent'
      BY <1>t, <2>17, HeldMove, NobodyOvertaken
         DEF GetByIDLookup, Begin, Held, HoldsItem, TypeOK, tables, caches, history
    <2>18. ASSUME NEW i \in TodoID, UpdateStatement(w, i)
           PROVE  HeldIsCurrent'
      <3>1. todos'[i] \in Todo
        BY <1>t, <2>18, UpdateFacts DEF UpdateStatement
      <3>2. Held(w)'
        BY <1>t, <2>18, <3>1, MarkersAreNoValues DEF UpdateStatement, Held, Begin, TypeOK
      <3> QED
        BY <1>t, <2>18, <3>2, HeldMove
           DEF UpdateStatement, AnnouncedChange, Overtake, Begin, TypeOK
    <2>19. ASSUME NEW i \in TodoID, DeleteStatement(w, i)
           PROVE  HeldIsCurrent'
      <3>1. todos'[i] = Absent
        BY <1>t, <2>19, DeleteFacts DEF DeleteStatement
      <3>2. Held(w)'
        BY <1>t, <2>19, <3>1 DEF DeleteStatement, Held, Begin, TypeOK
      <3> QED
        BY <1>t, <2>19, <3>2, HeldMove
           DEF DeleteStatement, AnnouncedChange, Overtake, Begin, TypeOK
    <2>20. ASSUME NEW i \in TodoID, WriteNotFound(w, i)
           PROVE  HeldIsCurrent'
      BY <1>t, <2>20, HeldMove, NobodyOvertaken
         DEF WriteNotFound, Held, HoldsItem, TypeOK, tables, caches, history
    <2> QED
      BY <1>1, <2>1, <2>2, <2>3, <2>4, <2>5, <2>6, <2>7, <2>8, <2>9, <2>10, <2>11, <2>12,
         <2>13, <2>14, <2>15, <2>16, <2>17, <2>18, <2>19, <2>20 DEF RequestStep
  <1>2. CASE UserDelete
    BY <1>2, HeldStays DEF UserDelete, SilentChange, Overtake, HeldIsCurrent
  <1>3. CASE ProcessRestart
    BY <1>3 DEF ProcessRestart, HeldIsCurrent, Held, HoldsItem
  <1>4. CASE UNCHANGED vars
    BY <1>4, HeldStays, NobodyOvertaken
       DEF vars, storeVars, tables, history, HeldIsCurrent
  <1> QED
    BY <1>1, <1>2, <1>3, <1>4 DEF Next

-----------------------------------------------------------------------------
(* The item cache. *)

\* A todo stays coherent when its row, entry and mark stand still and no write of
\* it makes its item cache call.
LEMMA ItemStays ==
    ASSUME NEW i \in TodoID, ItemCoherent(i),
           todos'[i] = todos[i], itemCache'[i] = itemCache[i],
           i \in staleItems => i \in staleItems',
           \A x \in Worker : pc[x] \in ItemCallDue /\ key[x] = i =>
                                pc'[x] \in ItemCallDue /\ key'[x] = i
    PROVE  ItemCoherent(i)'
  BY DEF ItemCoherent

\* itemCache.Set keeps every todo coherent: it stores the row, or marks the entry.
LEMMA SetItemStep ==
    ASSUME TInv, HeldIsCurrent, ItemCoherence, NEW w \in Worker,
           pc[w] \in {"getFill", "createSet", "updateSet"}, SetItem(w),
           \A x \in Worker \ {w} : pc'[x] = pc[x]
    PROVE  ItemCoherence'
  <1>t. itemCache \in [TodoID -> Todo \cup {Absent}] /\ key[w] \in TodoID
    BY DEF TInv, TypeOK
  <1>1. w \in outdated \/ result[w] = Item(todos[key[w]])
    BY DEF HeldIsCurrent, Held, HoldsItem
  <1>2. ItemCoherent(key[w])'
    BY <1>t, <1>1 DEF SetItem, ItemCoherent, Item, tables
  <1>3. ASSUME NEW i \in TodoID \ {key[w]} PROVE ItemCoherent(i)'
    <2>1. ItemCoherent(i)
      BY DEF ItemCoherence
    <2> QED
      BY <1>t, <2>1, ItemStays DEF SetItem, tables
  <1> QED
    BY <1>t, <1>2, <1>3 DEF SetItem, ItemCoherence

LEMMA ItemStep == TInv /\ TInv' /\ HeldIsCurrent /\ ItemCoherence /\ [Next]_vars => ItemCoherence'
  <1> SUFFICES ASSUME TInv, TInv', HeldIsCurrent, ItemCoherence, [Next]_vars
               PROVE  ItemCoherence'
    OBVIOUS
  <1> USE DEF Goto
  <1>t. TypeOK /\ TablesTypeOK /\ todos \in Rows /\ todos' \in Rows
    BY DEF TInv, TypeOK, TablesTypeOK
  \* A step with no item cache call to make, while table and item cache stand still.
  <1>q. ASSUME NEW w \in Worker, pc[w] \notin ItemCallDue,
               \A x \in Worker \ {w} : pc'[x] = pc[x] /\ key'[x] = key[x],
               UNCHANGED <<todos, itemCache, staleItems>>
        PROVE  ItemCoherence'
    BY <1>q, ItemStays DEF ItemCoherence
  \* The statement of a write: its item cache call comes next.
  <1>w. ASSUME NEW w \in Worker, NEW i \in TodoID, pc[w] = "idle",
               pc'[w] \in ItemCallDue, key'[w] = i,
               \A j \in TodoID \ {i} : todos'[j] = todos[j],
               \A x \in Worker \ {w} : pc'[x] = pc[x] /\ key'[x] = key[x],
               UNCHANGED <<itemCache, staleItems>>
        PROVE  ItemCoherence'
    <2>1. ItemCoherent(i)'
      BY <1>w DEF ItemCoherent
    <2>2. ASSUME NEW j \in TodoID \ {i} PROVE ItemCoherent(j)'
      BY <1>w, ItemStays DEF ItemCoherence, ItemCallDue
    <2> QED
      BY <2>1, <2>2 DEF ItemCoherence
  \* A change that no cache call follows marks the entries it leaves behind.
  <1>s. ASSUME SilentChange, UNCHANGED <<itemCache, pc, key>>
        PROVE  ItemCoherence'
    BY <1>t, <1>s DEF SilentChange, Changed, ItemCoherence, ItemCoherent
  <1>1. ASSUME NEW w \in Worker, RequestStep(w)
        PROVE  ItemCoherence'
    <2>1. CASE GetByIDQuery(w)
      BY <1>t, <1>q, <2>1 DEF GetByIDQuery, ItemCallDue, TypeOK, tables, caches, history
    <2>2. CASE GetByIDFill(w)
      BY <1>t, <2>2, SetItemStep DEF GetByIDFill, Return, TypeOK
    <2>3. CASE GetAllLookup(w)
      BY <1>t, <1>q, <2>3 DEF GetAllLookup, ItemCallDue, TypeOK, tables, caches, history
    <2>4. CASE GetAllQuery(w)
      BY <1>t, <1>q, <2>4 DEF GetAllQuery, ItemCallDue, TypeOK, tables, caches, history
    <2>5. CASE GetAllQueryFails(w)
      BY <1>t, <1>q, <2>5 DEF GetAllQueryFails, ItemCallDue, TypeOK, tables, caches
    <2>6. CASE GetAllFill(w)
      BY <1>t, <1>q, <2>6 DEF GetAllFill, Return, ItemCallDue, TypeOK, tables
    <2>7. CASE CreateInsert(w)
      <3>1. PICK i \in TodoID, title \in Title, u \in User :
               InsertTodo(i, title, u) /\ Begin(w, i, "createSet")
        BY <2>7 DEF CreateInsert
      <3> QED
        BY <1>t, <1>w, <2>7, <3>1, InsertFacts
           DEF CreateInsert, Begin, AnnouncedChange, ItemCallDue, TypeOK, caches
    <2>8. CASE CreateRefused(w)
      BY <1>t, <1>q, <2>8 DEF CreateRefused, ItemCallDue, TypeOK, tables, caches, history
    <2>9. CASE CreateSet(w)
      BY <1>t, <2>9, SetItemStep DEF CreateSet, TypeOK
    <2>10. CASE CreateInvalidate(w)
      BY <1>t, <1>q, <2>10 DEF CreateInvalidate, DropList, Return, ItemCallDue, TypeOK, tables
    <2>11. CASE UpdateSet(w)
      BY <1>t, <2>11, SetItemStep DEF UpdateSet, TypeOK
    <2>12. CASE UpdateInvalidate(w)
      BY <1>t, <1>q, <2>12 DEF UpdateInvalidate, DropList, Return, ItemCallDue, TypeOK, tables
    <2>13. CASE DeleteDrop(w)
      <3>1. ItemCoherent(key[w])'
        BY <1>t, <2>13 DEF DeleteDrop, DropItem, ItemCoherent, TypeOK
      <3>2. ASSUME NEW i \in TodoID \ {key[w]} PROVE ItemCoherent(i)'
        BY <1>t, <2>13, ItemStays DEF DeleteDrop, DropItem, ItemCoherence, TypeOK, tables
      <3> QED
        BY <2>13, <3>1, <3>2 DEF DeleteDrop, DropItem, ItemCoherence
    <2>14. CASE DeleteInvalidate(w)
      BY <1>t, <1>q, <2>14 DEF DeleteInvalidate, DropList, Return, ItemCallDue, TypeOK, tables
    <2>15. CASE StatementFails(w)
      BY <1>t, <1>q, <2>15 DEF StatementFails, ItemCallDue, TypeOK, tables, caches, history
    <2>16. CASE ReplyLost(w)
      BY <1>s, <2>16 DEF ReplyLost, caches
    <2>17. ASSUME NEW i \in TodoID, GetByIDLookup(w, i)
           PROVE  ItemCoherence'
      BY <1>t, <1>q, <2>17
         DEF GetByIDLookup, Begin, ItemCallDue, TypeOK, tables, caches, history
    <2>18. ASSUME NEW i \in TodoID, UpdateStatement(w, i)
           PROVE  ItemCoherence'
      BY <1>t, <1>w, <2>18, UpdateFacts
         DEF UpdateStatement, Begin, AnnouncedChange, ItemCallDue, TypeOK, caches
    <2>19. ASSUME NEW i \in TodoID, DeleteStatement(w, i)
           PROVE  ItemCoherence'
      BY <1>t, <1>w, <2>19, DeleteFacts
         DEF DeleteStatement, Begin, AnnouncedChange, ItemCallDue, TypeOK, caches
    <2>20. ASSUME NEW i \in TodoID, WriteNotFound(w, i)
           PROVE  ItemCoherence'
      BY <1>t, <1>q, <2>20 DEF WriteNotFound, ItemCallDue, TypeOK, tables, caches, history
    <2> QED
      BY <1>1, <2>1, <2>2, <2>3, <2>4, <2>5, <2>6, <2>7, <2>8, <2>9, <2>10, <2>11, <2>12,
         <2>13, <2>14, <2>15, <2>16, <2>17, <2>18, <2>19, <2>20 DEF RequestStep
  <1>2. CASE UserDelete
    BY <1>s, <1>2 DEF UserDelete, caches
  <1>3. CASE ProcessRestart
    BY <1>3 DEF ProcessRestart, NoRows, ItemCoherence, ItemCoherent
  <1>4. CASE UNCHANGED vars
    BY <1>4 DEF vars, storeVars, tables, caches, history, ItemCoherence, ItemCoherent
  <1> QED
    BY <1>1, <1>2, <1>3, <1>4 DEF Next

-----------------------------------------------------------------------------
(* The list cache. *)

LEMMA ListStep == TInv /\ TInv' /\ HeldIsCurrent /\ ListCoherence /\ [Next]_vars => ListCoherence'
  <1> SUFFICES ASSUME TInv, TInv', HeldIsCurrent, ListCoherence, [Next]_vars
               PROVE  ListCoherence'
    OBVIOUS
  <1> USE DEF Goto
  <1>t. TypeOK /\ TablesTypeOK /\ todos \in Rows /\ todos' \in Rows
    BY DEF TInv, TypeOK, TablesTypeOK
  \* A step that leaves the list cache call of every write still to make.
  <1>q. ASSUME NEW w \in Worker, pc[w] \in ListCallDue => pc'[w] \in ListCallDue,
               \A x \in Worker \ {w} : pc'[x] = pc[x],
               UNCHANGED <<todos, listCache, staleList>>
        PROVE  ListCoherence'
    BY <1>q DEF ListCoherence
  \* The statement of a write: its list cache call is to come.
  <1>w. ASSUME NEW w \in Worker, pc'[w] \in ListCallDue
        PROVE  ListCoherence'
    BY <1>w DEF ListCoherence
  <1>s. ASSUME SilentChange, UNCHANGED <<listCache, pc>>
        PROVE  ListCoherence'
    BY <1>t, <1>s, NothingChanged DEF SilentChange, ListCoherence
  <1>d. ASSUME NEW w \in Worker, DropList(w)
        PROVE  ListCoherence'
    BY <1>d DEF DropList, ListCoherence
  <1>1. ASSUME NEW w \in Worker, RequestStep(w)
        PROVE  ListCoherence'
    <2>1. CASE GetByIDQuery(w)
      BY <1>t, <1>q, <2>1
         DEF GetByIDQuery, ListCallDue, ItemCallDue, TypeOK, tables, caches, history
    <2>2. CASE GetByIDFill(w)
      BY <1>t, <1>q, <2>2
         DEF GetByIDFill, SetItem, Return, ListCallDue, ItemCallDue, TypeOK, tables
    <2>3. CASE GetAllLookup(w)
      BY <1>t, <1>q, <2>3
         DEF GetAllLookup, ListCallDue, ItemCallDue, TypeOK, tables, caches, history
    <2>4. CASE GetAllQuery(w)
      BY <1>t, <1>q, <2>4
         DEF GetAllQuery, ListCallDue, ItemCallDue, TypeOK, tables, caches, history
    <2>5. CASE GetAllQueryFails(w)
      BY <1>t, <1>q, <2>5
         DEF GetAllQueryFails, ListCallDue, ItemCallDue, TypeOK, tables, caches
    <2>6. CASE GetAllFill(w)
      <3>1. w \in outdated \/ result[w] = List(todos)
        BY <2>6 DEF GetAllFill, HeldIsCurrent, Held
      <3>2. CASE w \in outdated
        BY <2>6, <3>2 DEF GetAllFill, ListCoherence
      <3>3. CASE result[w] = List(todos)
        <4>1. listCache' = todos /\ todos' = todos
          BY <2>6, <3>3 DEF GetAllFill, List, tables
        <4> QED
          BY <4>1 DEF ListCoherence
      <3> QED
        BY <3>1, <3>2, <3>3
    <2>7. CASE CreateInsert(w)
      BY <1>t, <1>w, <2>7 DEF CreateInsert, Begin, ListCallDue, ItemCallDue, TypeOK
    <2>8. CASE CreateRefused(w)
      BY <1>q, <2>8 DEF CreateRefused, tables, caches, history
    <2>9. CASE CreateSet(w)
      BY <1>t, <1>w, <2>9 DEF CreateSet, ListCallDue, TypeOK
    <2>10. CASE CreateInvalidate(w)
      BY <1>d, <2>10 DEF CreateInvalidate
    <2>11. CASE UpdateSet(w)
      BY <1>t, <1>w, <2>11 DEF UpdateSet, ListCallDue, TypeOK
    <2>12. CASE UpdateInvalidate(w)
      BY <1>d, <2>12 DEF UpdateInvalidate
    <2>13. CASE DeleteDrop(w)
      BY <1>t, <1>w, <2>13 DEF DeleteDrop, ListCallDue, TypeOK
    <2>14. CASE DeleteInvalidate(w)
      BY <1>d, <2>14 DEF DeleteInvalidate
    <2>15. CASE StatementFails(w)
      BY <1>t, <1>q, <2>15
         DEF StatementFails, ListCallDue, ItemCallDue, TypeOK, tables, caches, history
    <2>16. CASE ReplyLost(w)
      BY <1>s, <2>16 DEF ReplyLost, caches
    <2>17. ASSUME NEW i \in TodoID, GetByIDLookup(w, i)
           PROVE  ListCoherence'
      BY <1>t, <1>q, <2>17
         DEF GetByIDLookup, Begin, ListCallDue, ItemCallDue, TypeOK, tables, caches, history
    <2>18. ASSUME NEW i \in TodoID, UpdateStatement(w, i)
           PROVE  ListCoherence'
      BY <1>t, <1>w, <2>18 DEF UpdateStatement, Begin, ListCallDue, ItemCallDue, TypeOK
    <2>19. ASSUME NEW i \in TodoID, DeleteStatement(w, i)
           PROVE  ListCoherence'
      BY <1>t, <1>w, <2>19 DEF DeleteStatement, Begin, ListCallDue, ItemCallDue, TypeOK
    <2>20. ASSUME NEW i \in TodoID, WriteNotFound(w, i)
           PROVE  ListCoherence'
      BY <1>q, <2>20 DEF WriteNotFound, tables, caches, history
    <2> QED
      BY <1>1, <2>1, <2>2, <2>3, <2>4, <2>5, <2>6, <2>7, <2>8, <2>9, <2>10, <2>11, <2>12,
         <2>13, <2>14, <2>15, <2>16, <2>17, <2>18, <2>19, <2>20 DEF RequestStep
  <1>2. CASE UserDelete
    BY <1>s, <1>2 DEF UserDelete, caches
  <1>3. CASE ProcessRestart
    BY <1>3 DEF ProcessRestart, ListCoherence
  <1>4. CASE UNCHANGED vars
    BY <1>4 DEF vars, storeVars, tables, caches, history, ListCoherence
  <1> QED
    BY <1>1, <1>2, <1>3, <1>4 DEF Next

-----------------------------------------------------------------------------
LEMMA InvInit == Init => IInv
  <1> SUFFICES ASSUME Init PROVE IInv
    OBVIOUS
  <1>1. TypeOK /\ HeldHasType
    BY TypeInit DEF TInv
  <1>2. HeldIsCurrent
    BY DEF Init, HeldIsCurrent, Held, HoldsItem
  <1>3. ItemCoherence /\ ListCoherence
    BY DEF Init, EmptyCaches, NoRows, ItemCoherence, ItemCoherent, ListCoherence
  <1> QED
    BY <1>1, <1>2, <1>3 DEF IInv

LEMMA InvStep == IInv /\ [Next]_vars => IInv'
  <1> SUFFICES ASSUME IInv, [Next]_vars PROVE IInv'
    OBVIOUS
  <1>1. TInv
    BY DEF IInv, TInv
  <1>2. TInv'
    BY <1>1, TypeStep
  <1>3. HeldIsCurrent'
    BY <1>1, <1>2, HeldStep DEF IInv
  <1>4. ItemCoherence'
    BY <1>1, <1>2, ItemStep DEF IInv
  <1>5. ListCoherence'
    BY <1>1, <1>2, ListStep DEF IInv
  <1> QED
    BY <1>2, <1>3, <1>4, <1>5 DEF IInv, TInv

\* What the runs check as the inductive invariant is one.
THEOREM InvariantHolds == CachedSpec => []IInv
  BY InvInit, InvStep, PTL DEF CachedSpec

\* The item cache of CachedTodoRepository: a cached todo is its row, unless a write
\* has still to make its cache call, an overtaken request wrote it, or a change
\* that makes no cache call passed it by.
THEOREM ItemsCoherent == CachedSpec => []ItemCoherence
  <1>1. IInv => ItemCoherence
    BY DEF IInv
  <1> QED
    BY <1>1, InvInit, InvStep, PTL DEF CachedSpec

\* Its list cache: the cached list is the table, with the same exceptions.
THEOREM ListCoherent == CachedSpec => []ListCoherence
  <1>1. IInv => ListCoherence
    BY DEF IInv
  <1> QED
    BY <1>1, InvInit, InvStep, PTL DEF CachedSpec

\* What a request carries from its statement to its cache call is the state of the
\* table, unless another change overtook it.
THEOREM HoldersAreCurrent == CachedSpec => []HeldIsCurrent
  <1>1. IInv => HeldIsCurrent
    BY DEF IInv
  <1> QED
    BY <1>1, InvInit, InvStep, PTL DEF CachedSpec
=============================================================================
