----------------------- MODULE CachedTodosRefinement -----------------------
(***************************************************************************)
(* Proofs that CachedTodos implements TodoStore: with stale reads whatever *)
(* happens, and exactly for one request at a time.                         *)
(***************************************************************************)
EXTENDS CachedTodosProofs

-----------------------------------------------------------------------------
(* The history of the rows. *)

\* A row has been in the states it has been in, and in the one it is in.
Remembered ==
    \A i \in TodoID : past[i] \subseteq past'[i] /\ todos'[i] \in past'[i]

\* Every statement leaves its trace.
LEMMA RecordFacts == TablesTypeOK /\ Record => Remembered
  BY DEF TablesTypeOK, Record, Remembered

LEMMA PastGrows == TInv /\ SeenBefore /\ [Next]_vars => Remembered
  <1> SUFFICES ASSUME TInv, SeenBefore, [Next]_vars PROVE Remembered
    OBVIOUS
  <1>t. TablesTypeOK
    BY DEF TInv, TypeOK
  <1>s. UNCHANGED tables => Remembered
    BY DEF tables, Remembered, SeenBefore
  <1>1. ASSUME NEW w \in Worker, RequestStep(w)
        PROVE  UNCHANGED tables \/ Record
    BY <1>1 DEF RequestStep, GetByIDQuery, GetByIDFill, GetAllLookup, GetAllQuery,
       GetAllQueryFails, GetAllFill, CreateInsert, CreateRefused, CreateSet,
       CreateInvalidate, UpdateSet, UpdateInvalidate, DeleteDrop, DeleteInvalidate,
       StatementFails, ReplyLost, GetByIDLookup, UpdateStatement, DeleteStatement,
       WriteNotFound, SetItem, DropItem, DropList, InsertTodo, UpdateTodo, DeleteTodo
  <1>2. CASE UserDelete
    BY <1>2, <1>t, RecordFacts DEF UserDelete, DeleteUser
  <1>3. CASE ProcessRestart
    BY <1>3, <1>s DEF ProcessRestart, Restart
  <1>4. CASE UNCHANGED vars
    BY <1>4, <1>s DEF vars, storeVars
  <1> QED
    BY <1>1, <1>2, <1>3, <1>4, <1>s, <1>t, RecordFacts DEF Next

-----------------------------------------------------------------------------
(* What is held or cached was there. *)

LEMMA SeenInit == Init => SeenBefore
  BY DEF Init, StoreInit, TablesInit, EmptyCaches, NoRows, SeenBefore, HoldsItem

\* A request may go anywhere and hold, or cache, what its row is or was.
LEMMA SeenMove ==
    ASSUME TInv, SeenBefore, Remembered, NEW w \in Worker,
           \A x \in Worker \ {w} :
               pc'[x] = pc[x] /\ key'[x] = key[x] /\ result'[x] = result[x],
           \A i \in TodoID : itemCache'[i] = itemCache[i] \/ itemCache'[i] \in past'[i],
           \/ listCache' \in {listCache, NoList}
           \/ \A i \in TodoID : listCache'[i] \in past'[i],
           pc'[w] \in HoldsItem \ {"deleteDrop"} => result'[w].item \in past'[key'[w]],
           pc'[w] = "listFill" => \A i \in TodoID : result'[w].list[i] \in past'[i]
    PROVE  SeenBefore'
  <1>1. \A x \in Worker : key[x] \in TodoID
    BY DEF TInv, TypeOK
  <1>2. \A i \in TodoID : {Absent, todos'[i], itemCache'[i]} \subseteq past'[i]
    BY DEF Remembered, SeenBefore
  <1>3. listCache' # NoList => \A i \in TodoID : listCache'[i] \in past'[i]
    BY DEF Remembered, SeenBefore
  <1>4. ASSUME NEW x \in Worker \ {w}
        PROVE  /\ pc'[x] \in HoldsItem \ {"deleteDrop"} => result'[x].item \in past'[key'[x]]
               /\ pc'[x] = "listFill" => \A i \in TodoID : result'[x].list[i] \in past'[i]
    BY <1>1 DEF Remembered, SeenBefore
  <1> QED
    BY <1>2, <1>3, <1>4 DEF SeenBefore

LEMMA SeenStep == TInv /\ TInv' /\ SeenBefore /\ [Next]_vars => SeenBefore'
  <1> SUFFICES ASSUME TInv, TInv', SeenBefore, [Next]_vars PROVE SeenBefore'
    OBVIOUS
  <1>r. Remembered
    BY PastGrows
  <1>t. TypeOK /\ TypeOK' /\ TablesTypeOK /\ HeldHasType
    BY DEF TInv, TypeOK
  <1>i. \A t : Item(t).item = t
    BY DEF Item
  <1>l. \A rows : List(rows).list = rows
    BY DEF List
  <1> USE DEF Answer
  <1>1. ASSUME NEW w \in Worker, RequestStep(w)
        PROVE  SeenBefore'
    <2>k. key[w] \in TodoID
      BY <1>t DEF TypeOK
    <2>1. CASE GetByIDQuery(w)
      <3>1. todos[key[w]] \in past'[key[w]]
        BY <1>r, <2>k, <2>1 DEF SeenBefore, GetByIDQuery, tables, Remembered
      <3> QED
        BY <1>t, <1>r, <1>i, <2>1, <3>1, SeenMove
           DEF TypeOK, GetByIDQuery, Goto, HoldsItem, tables, caches
    <2>2. CASE GetByIDFill(w)
      <3>1. result[w].item \in past'[key[w]]
        BY <1>r, <2>k, <2>2 DEF SeenBefore, GetByIDFill, HoldsItem, Remembered
      <3> QED
        BY <1>t, <1>r, <2>2, <3>1, SeenMove
           DEF TypeOK, GetByIDFill, SetItem, Return, Goto, HoldsItem
    <2>3. CASE GetAllLookup(w)
      BY <1>t, <1>r, <2>3, SeenMove DEF TypeOK, GetAllLookup, Goto, HoldsItem, caches
    <2>4. CASE GetAllQuery(w)
      <3>1. \A i \in TodoID : todos[i] \in past'[i]
        BY <1>r DEF SeenBefore, Remembered
      <3> QED
        BY <1>t, <1>r, <1>l, <2>4, <3>1, SeenMove
           DEF TypeOK, GetAllQuery, Goto, HoldsItem, caches
    <2>5. CASE GetAllQueryFails(w)
      <3>1. PICK rows : /\ result' = [result EXCEPT ![w] = List(rows)]
                        /\ \A i \in TodoID : rows[i] \in {Absent, todos[i]}
        <4> DEFINE Partial(ids) == [i \in TodoID |-> IF i \in ids THEN todos[i] ELSE Absent]
        <4>1. CASE Answer(w, List(NoRows))
          <5>1. \A i \in TodoID : NoRows[i] \in {Absent, todos[i]}
            BY DEF NoRows
          <5> QED
            BY <4>1, <5>1 DEF Answer
        <4>2. ASSUME NEW ids \in SUBSET TodoID, Answer(w, List(Partial(ids)))
              PROVE  \E rows : /\ result' = [result EXCEPT ![w] = List(rows)]
                               /\ \A i \in TodoID : rows[i] \in {Absent, todos[i]}
          <5>1. \A i \in TodoID : Partial(ids)[i] \in {Absent, todos[i]}
            OBVIOUS
          <5>2. result' = [result EXCEPT ![w] = List(Partial(ids))]
            BY <4>2 DEF Answer
          <5> HIDE DEF Partial
          <5> QED
            BY <5>1, <5>2
        <4>3. \/ Answer(w, List(NoRows))
              \/ \E ids \in SUBSET TodoID : Answer(w, List(Partial(ids)))
          BY <2>5 DEF GetAllQueryFails
        <4> QED
          BY <4>1, <4>2, <4>3
      <3>2. \A i \in TodoID : rows[i] \in past'[i]
        BY <1>r, <3>1 DEF SeenBefore, Remembered
      <3> QED
        BY <1>t, <1>r, <1>l, <2>5, <3>1, <3>2, SeenMove
           DEF TypeOK, GetAllQueryFails, Goto, HoldsItem, caches
    <2>6. CASE GetAllFill(w)
      <3>1. \A i \in TodoID : result[w].list[i] \in past'[i]
        BY <1>r, <2>6 DEF SeenBefore, GetAllFill, Remembered
      <3> QED
        BY <1>t, <1>r, <2>6, <3>1, SeenMove DEF TypeOK, GetAllFill, Return, Goto, HoldsItem
    <2>7. CASE CreateInsert(w)
      <3>1. PICK i \in TodoID, title \in Title, u \in User :
               /\ InsertTodo(i, title, u)
               /\ Answer(w, Item(NewTodo(i, title, u)))
               /\ Begin(w, i, "createSet")
        BY <2>7 DEF CreateInsert
      <3>2. NewTodo(i, title, u) \in past'[i]
        BY <1>t, <1>r, <3>1, InsertFacts DEF Remembered
      <3> QED
        BY <1>t, <1>r, <1>i, <2>7, <3>1, <3>2, SeenMove
           DEF TypeOK, CreateInsert, Begin, Goto, caches
    <2>8. CASE CreateRefused(w)
      BY <1>t, <1>r, <2>8, SeenMove DEF TypeOK, CreateRefused, HoldsItem, caches
    <2>9. CASE CreateSet(w)
      <3>1. result[w].item \in past'[key[w]]
        BY <1>r, <2>k, <2>9 DEF SeenBefore, CreateSet, HoldsItem, Remembered
      <3> QED
        BY <1>t, <1>r, <2>9, <3>1, SeenMove DEF TypeOK, CreateSet, SetItem, Goto, HoldsItem
    <2>10. CASE CreateInvalidate(w)
      BY <1>t, <1>r, <2>10, SeenMove
         DEF TypeOK, CreateInvalidate, DropList, Return, Goto, HoldsItem
    <2>11. CASE UpdateSet(w)
      <3>1. result[w].item \in past'[key[w]]
        BY <1>r, <2>k, <2>11 DEF SeenBefore, UpdateSet, HoldsItem, Remembered
      <3> QED
        BY <1>t, <1>r, <2>11, <3>1, SeenMove DEF TypeOK, UpdateSet, SetItem, Goto, HoldsItem
    <2>12. CASE UpdateInvalidate(w)
      BY <1>t, <1>r, <2>12, SeenMove
         DEF TypeOK, UpdateInvalidate, DropList, Return, Goto, HoldsItem
    <2>13. CASE DeleteDrop(w)
      <3>1. Absent \in past'[key[w]]
        BY <1>r, <2>k DEF SeenBefore, Remembered
      <3> QED
        BY <1>t, <1>r, <2>13, <3>1, SeenMove DEF TypeOK, DeleteDrop, DropItem, Goto, HoldsItem
    <2>14. CASE DeleteInvalidate(w)
      BY <1>t, <1>r, <2>14, SeenMove
         DEF TypeOK, DeleteInvalidate, DropList, Return, Goto, HoldsItem
    <2>15. CASE StatementFails(w)
      BY <1>t, <1>r, <2>15, SeenMove DEF TypeOK, StatementFails, Goto, HoldsItem, caches
    <2>16. CASE ReplyLost(w)
      BY <1>t, <1>r, <2>16, SeenMove DEF TypeOK, ReplyLost, HoldsItem, caches
    <2>17. ASSUME NEW i \in TodoID, GetByIDLookup(w, i)
           PROVE  SeenBefore'
      BY <1>t, <1>r, <2>17, SeenMove DEF TypeOK, GetByIDLookup, Begin, Goto, HoldsItem, caches
    <2>18. ASSUME NEW i \in TodoID, UpdateStatement(w, i)
           PROVE  SeenBefore'
      <3>1. todos'[i] \in past'[i]
        BY <1>r DEF Remembered
      <3> QED
        BY <1>t, <1>r, <1>i, <2>18, <3>1, SeenMove DEF TypeOK, UpdateStatement, Begin, Goto, caches
    <2>19. ASSUME NEW i \in TodoID, DeleteStatement(w, i)
           PROVE  SeenBefore'
      BY <1>t, <1>r, <2>19, SeenMove DEF TypeOK, DeleteStatement, Begin, Goto, caches
    <2>20. ASSUME NEW i \in TodoID, WriteNotFound(w, i)
           PROVE  SeenBefore'
      BY <1>t, <1>r, <2>20, SeenMove DEF TypeOK, WriteNotFound, HoldsItem, caches
    <2> QED
      BY <1>1, <2>1, <2>2, <2>3, <2>4, <2>5, <2>6, <2>7, <2>8, <2>9, <2>10, <2>11, <2>12,
         <2>13, <2>14, <2>15, <2>16, <2>17, <2>18, <2>19, <2>20 DEF RequestStep
  <1>2. CASE UserDelete
    BY <1>t, <1>r, <1>2 DEF TypeOK, UserDelete, SeenBefore, Remembered, caches
  <1>3. CASE ProcessRestart
    BY <1>r, <1>3 DEF ProcessRestart, SeenBefore, Remembered, HoldsItem, NoRows
  <1>4. CASE UNCHANGED vars
    BY <1>4 DEF vars, storeVars, tables, caches, SeenBefore
  <1> QED
    BY <1>1, <1>2, <1>3, <1>4 DEF Next

\* CachedTodoRepository with both caches: no mix of rows and nothing a row never was is
\* held, cached or answered, for any number of requests and whatever fails.
THEOREM SeenHolds == CachedSpec => []SeenBefore
  BY TypeInit, TypeStep, SeenInit, SeenStep, PTL DEF CachedSpec

-----------------------------------------------------------------------------
(* The store with stale reads: every step of the cached service is a call  *)
(* of the store, a stale read, an error or a stutter.                      *)

LEMMA StaleRequest ==
    ASSUME TInv, SeenBefore, NEW w \in Worker, RequestStep(w)
    PROVE  StaleNext \/ UNCHANGED storeVars
  <1>t. TypeOK /\ TablesTypeOK
    BY DEF TInv, TypeOK
  <1>k. key[w] \in TodoID
    BY <1>t DEF TypeOK
  <1> USE DEF StaleNext, StoreNext
  <1>1. CASE GetByIDQuery(w)
    BY <1>k, <1>1 DEF GetByIDQuery, GetByID, Answer
  <1>2. CASE GetByIDFill(w)
    BY <1>2 DEF GetByIDFill, SetItem, storeVars
  <1>3. CASE GetAllLookup(w)
    <2>1. CASE listCache # NoList
      <3>1. listCache \in Rows /\ \A i \in TodoID : listCache[i] \in past[i]
        BY <1>t, <2>1 DEF TypeOK, SeenBefore
      <3>2. StaleGetAll(w)
        BY <1>3, <2>1, <3>1 DEF GetAllLookup, StaleGetAll
      <3> QED
        BY <3>2
    <2>2. CASE listCache = NoList
      BY <1>3, <2>2 DEF GetAllLookup, storeVars
    <2> QED
      BY <2>1, <2>2
  <1>4. CASE GetAllQuery(w)
    BY <1>4 DEF GetAllQuery, GetAll
  <1>5. CASE GetAllQueryFails(w)
    <2>1. PICK rows \in Rows : /\ Answer(w, List(rows))
                              /\ \A i \in TodoID : rows[i] \in {Absent, todos[i]}
      <3>1. ASSUME NEW ids \in SUBSET TodoID
            PROVE  [i \in TodoID |-> IF i \in ids THEN todos[i] ELSE Absent] \in Rows
        BY <1>t DEF TablesTypeOK, Rows
      <3> QED
        BY <1>5, <3>1, NoRowsIsRows DEF GetAllQueryFails, NoRows
    <2>2. \A i \in TodoID : rows[i] \in past[i]
      BY <2>1 DEF SeenBefore
    <2>3. StaleGetAll(w)
      BY <1>5, <2>1, <2>2 DEF GetAllQueryFails, StaleGetAll
    <2> QED
      BY <2>3
  <1>6. CASE GetAllFill(w)
    BY <1>6 DEF GetAllFill, storeVars
  <1>7. CASE CreateInsert(w)
    <2>1. Create(w)
      BY <1>7 DEF CreateInsert, Create
    <2> QED
      BY <2>1
  <1>8. CASE CreateRefused(w)
    <2>1. Create(w)
      BY <1>8 DEF CreateRefused, Create
    <2> QED
      BY <2>1
  <1>9. CASE CreateSet(w)
    BY <1>9 DEF CreateSet, SetItem, storeVars
  <1>10. CASE CreateInvalidate(w)
    BY <1>10 DEF CreateInvalidate, DropList, storeVars
  <1>11. CASE UpdateSet(w)
    BY <1>11 DEF UpdateSet, SetItem, storeVars
  <1>12. CASE UpdateInvalidate(w)
    BY <1>12 DEF UpdateInvalidate, DropList, storeVars
  <1>13. CASE DeleteDrop(w)
    BY <1>13 DEF DeleteDrop, DropItem, storeVars
  <1>14. CASE DeleteInvalidate(w)
    BY <1>14 DEF DeleteInvalidate, DropList, storeVars
  <1>15. CASE StatementFails(w)
    <2>1. Fail(w)
      BY <1>15 DEF StatementFails, Fail
    <2> QED
      BY <2>1
  <1>16. CASE ReplyLost(w)
    <2>1. Unacknowledged(w)
      BY <1>16 DEF ReplyLost, Unacknowledged
    <2> QED
      BY <2>1
  <1>17. ASSUME NEW i \in TodoID, GetByIDLookup(w, i)
         PROVE  StaleNext \/ UNCHANGED storeVars
    <2>1. CASE itemCache[i] # Absent
      <3>1. StaleGetByID(w, i)
        BY <1>17, <2>1 DEF GetByIDLookup, StaleGetByID, SeenBefore
      <3> QED
        BY <3>1
    <2>2. CASE itemCache[i] = Absent
      BY <1>17, <2>2 DEF GetByIDLookup, storeVars
    <2> QED
      BY <2>1, <2>2
  <1>18. ASSUME NEW i \in TodoID, UpdateStatement(w, i)
         PROVE  StaleNext
    <2>1. Update(w, i)
      BY <1>18 DEF UpdateStatement, Update
    <2> QED
      BY <2>1
  <1>19. ASSUME NEW i \in TodoID, DeleteStatement(w, i)
         PROVE  StaleNext
    <2>1. Delete(w, i)
      BY <1>19 DEF DeleteStatement, Delete
    <2> QED
      BY <2>1
  <1>20. ASSUME NEW i \in TodoID, WriteNotFound(w, i)
         PROVE  StaleNext
    <2>1. Delete(w, i)
      BY <1>20 DEF WriteNotFound, Delete
    <2> QED
      BY <2>1
  <1> QED
    BY <1>1, <1>2, <1>3, <1>4, <1>5, <1>6, <1>7, <1>8, <1>9, <1>10, <1>11, <1>12, <1>13,
       <1>14, <1>15, <1>16, <1>17, <1>18, <1>19, <1>20 DEF RequestStep

\* TodoService over the cached repository: whatever overlaps, fails or restarts, for any
\* number of requests and todos, it is the store whose reads may be old: "not found"
\* never is, and changes are exact.
THEOREM CacheImplementsStaleStore == CachedSpec => ImplementsStaleStore
  <1>1. Init => StoreInit
    BY DEF Init
  <1>2. TInv /\ SeenBefore /\ [Next]_vars => [StaleNext]_storeVars
    <2> SUFFICES ASSUME TInv, SeenBefore, [Next]_vars PROVE [StaleNext]_storeVars
      OBVIOUS
    <2>1. ASSUME NEW w \in Worker, RequestStep(w)
          PROVE  [StaleNext]_storeVars
      BY <2>1, StaleRequest
    <2>2. CASE UserDelete
      BY <2>2 DEF UserDelete, LoseUser, StaleNext
    <2>3. CASE ProcessRestart
      BY <2>3 DEF ProcessRestart, StaleNext, StoreNext
    <2>4. CASE UNCHANGED vars
      BY <2>4 DEF vars
    <2> QED
      BY <2>1, <2>2, <2>3, <2>4 DEF Next
  <1> QED
    BY <1>1, <1>2, TypeInit, TypeStep, SeenInit, SeenStep, PTL
       DEF CachedSpec, ImplementsStaleStore, StaleSpec

-----------------------------------------------------------------------------
(* The exact store, for one request at a time.                             *)

\* With one goroutine, no failing statement and no user deleted, no entry and no
\* request is ever marked.
NothingStale == outdated = {} /\ staleItems = {} /\ ~staleList

LEMMA NothingBecomesStale ==
    ASSUME NEW w0, Worker = {w0}, Faults = {}, DeletableUser = {},
           TInv, NothingStale, [Next]_vars
    PROVE  NothingStale'
  <1>1. ASSUME NEW w \in Worker, RequestStep(w)
        PROVE  NothingStale'
    <2>1. pc[w] = "idle" => Overtaken(Changed) = {}
      BY <1>1 DEF Overtaken, HoldsItem
    <2>2. CASE CreateInsert(w) \/ \E i \in TodoID : UpdateStatement(w, i) \/ DeleteStatement(w, i)
      <3>1. pc[w] = "idle" /\ AnnouncedChange
        BY <2>2 DEF CreateInsert, UpdateStatement, DeleteStatement
      <3> QED
        BY <2>1, <3>1 DEF AnnouncedChange, Overtake, NothingStale
    <2>3. CASE GetByIDFill(w) \/ CreateSet(w) \/ UpdateSet(w) \/ DeleteDrop(w)
      BY <2>3 DEF GetByIDFill, CreateSet, UpdateSet, DeleteDrop, SetItem, DropItem, Return,
                  NothingStale
    <2>4. CASE GetAllFill(w) \/ CreateInvalidate(w) \/ UpdateInvalidate(w)
               \/ DeleteInvalidate(w)
      BY <2>4 DEF GetAllFill, CreateInvalidate, UpdateInvalidate, DeleteInvalidate, DropList,
                  Return, NothingStale
    <2>5. CASE \/ GetByIDQuery(w) \/ GetAllLookup(w) \/ GetAllQuery(w) \/ CreateRefused(w)
               \/ \E i \in TodoID : GetByIDLookup(w, i) \/ WriteNotFound(w, i)
      BY <2>5 DEF GetByIDQuery, GetAllLookup, GetAllQuery, CreateRefused, GetByIDLookup,
                  WriteNotFound, history, NothingStale
    <2>6. ~(StatementFails(w) \/ ReplyLost(w) \/ GetAllQueryFails(w))
      BY DEF StatementFails, ReplyLost, GetAllQueryFails
    <2> QED
      BY <1>1, <2>2, <2>3, <2>4, <2>5, <2>6 DEF RequestStep
  <1>2. ~UserDelete
    BY DEF UserDelete
  <1>3. CASE ProcessRestart
    BY <1>3 DEF ProcessRestart, NothingStale
  <1>4. CASE UNCHANGED vars
    BY <1>4 DEF vars, history, NothingStale
  <1> QED
    BY <1>1, <1>2, <1>3, <1>4 DEF Next

LEMMA ExactStep ==
    ASSUME NEW w0, Worker = {w0}, Faults = {}, DeletableUser = {},
           IInv, NothingStale, [Next]_vars
    PROVE  [StoreNext]_storeVars
  <1> USE DEF StoreNext
  <1>t. TInv
    BY DEF IInv, TInv
  <1>k. \A w \in Worker : key[w] \in TodoID
    BY <1>t DEF TInv, TypeOK
  <1>1. ASSUME NEW w \in Worker, RequestStep(w)
        PROVE  [StoreNext]_storeVars
    <2>1. pc[w] = "idle" => \A x \in Worker : pc[x] \notin ListCallDue
      BY DEF ListCallDue, ItemCallDue
    <2>2. pc[w] = "idle" => \A i \in TodoID : itemCache[i] \in {Absent, todos[i]}
      BY <2>1 DEF IInv, ItemCoherence, ItemCoherent, NothingStale, ListCallDue
    <2>3. pc[w] = "idle" => listCache \in {NoList, todos}
      BY <2>1 DEF IInv, ListCoherence, NothingStale
    <2>4. CASE GetByIDQuery(w)
      BY <1>k, <2>4 DEF GetByIDQuery, GetByID, Answer
    <2>5. CASE GetAllLookup(w)
      BY <2>3, <2>5 DEF GetAllLookup, GetAll, storeVars
    <2>6. CASE GetAllQuery(w)
      BY <2>6 DEF GetAllQuery, GetAll
    <2>7. CASE CreateInsert(w) \/ CreateRefused(w)
      <3>1. Create(w)
        BY <2>7 DEF CreateInsert, CreateRefused, Create
      <3> QED
        BY <3>1
    <2>8. CASE GetByIDFill(w) \/ CreateSet(w) \/ UpdateSet(w) \/ DeleteDrop(w)
      BY <2>8 DEF GetByIDFill, CreateSet, UpdateSet, DeleteDrop, SetItem, DropItem, storeVars
    <2>9. CASE GetAllFill(w) \/ CreateInvalidate(w) \/ UpdateInvalidate(w)
               \/ DeleteInvalidate(w)
      BY <2>9 DEF GetAllFill, CreateInvalidate, UpdateInvalidate, DeleteInvalidate, DropList,
                  storeVars
    <2>10. ~(StatementFails(w) \/ ReplyLost(w) \/ GetAllQueryFails(w))
      BY DEF StatementFails, ReplyLost, GetAllQueryFails
    <2>11. ASSUME NEW i \in TodoID, GetByIDLookup(w, i)
           PROVE  [StoreNext]_storeVars
      <3>1. CASE itemCache[i] # Absent
        <4>1. GetByID(w, i)
          BY <2>2, <2>11, <3>1 DEF GetByIDLookup, GetByID
        <4> QED
          BY <4>1
      <3>2. CASE itemCache[i] = Absent
        BY <2>11, <3>2 DEF GetByIDLookup, storeVars
      <3> QED
        BY <3>1, <3>2
    <2>12. ASSUME NEW i \in TodoID, UpdateStatement(w, i)
           PROVE  StoreNext
      <3>1. Update(w, i)
        BY <2>12 DEF UpdateStatement, Update
      <3> QED
        BY <3>1
    <2>13. ASSUME NEW i \in TodoID, DeleteStatement(w, i) \/ WriteNotFound(w, i)
           PROVE  StoreNext
      <3>1. Delete(w, i)
        BY <2>13 DEF DeleteStatement, WriteNotFound, Delete
      <3> QED
        BY <3>1
    <2> QED
      BY <1>1, <2>4, <2>5, <2>6, <2>7, <2>8, <2>9, <2>10, <2>11, <2>12, <2>13 DEF RequestStep
  <1>2. ~UserDelete
    BY DEF UserDelete
  <1>3. CASE ProcessRestart
    BY <1>3 DEF ProcessRestart
  <1>4. CASE UNCHANGED vars
    BY <1>4 DEF vars
  <1> QED
    BY <1>1, <1>2, <1>3, <1>4 DEF Next

\* TodoService over the cached repository, one request at a time, with no failing
\* statement and no user deleted: nobody can tell that there is a cache, restarts
\* included, for any number of todos, titles and users.
THEOREM CacheImplementsStore ==
    ASSUME NEW w0, Worker = {w0}, Faults = {}, DeletableUser = {}
    PROVE  CachedSpec => ImplementsStore
  <1>1. Init => StoreInit /\ NothingStale
    BY DEF Init, NothingStale
  <1>2. IInv /\ NothingStale /\ [Next]_vars => NothingStale'
    BY NothingBecomesStale DEF IInv, TInv
  <1>3. IInv /\ NothingStale /\ [Next]_vars => [StoreNext]_storeVars
    BY ExactStep
  <1> QED
    BY <1>1, <1>2, <1>3, InvInit, InvStep, PTL DEF CachedSpec, ImplementsStore, Spec

\* What CachedTodoRepository answers wrong it answers after an overlap, a failure or a
\* deleted user: without these a deleted todo stays deleted and the list is complete,
\* restarts included.
THEOREM NothingWrongOneAtATime ==
    ASSUME NEW w0, Worker = {w0}, Faults = {}, DeletableUser = {}
    PROVE  CachedSpec => [](DeletedStaysDeleted /\ ListHasAllTodos)
  <1>1. Init => NothingStale
    BY DEF Init, NothingStale
  <1>2. IInv /\ NothingStale /\ [Next]_vars => NothingStale'
    BY NothingBecomesStale DEF IInv, TInv
  <1>3. IInv /\ NothingStale => DeletedStaysDeleted /\ ListHasAllTodos
    <2> SUFFICES ASSUME IInv, NothingStale, AtRest
                 PROVE  /\ \A i \in TodoID : todos[i] = Absent => Visible(i) = Absent
                        /\ VisibleList = todos
      BY DEF DeletedStaysDeleted, ListHasAllTodos
    <2>1. \A w \in Worker : pc[w] \notin ItemCallDue /\ pc[w] \notin ListCallDue
      BY DEF AtRest, ItemCallDue, ListCallDue
    <2>2. \A i \in TodoID : itemCache[i] \in {Absent, todos[i]}
      BY <2>1 DEF IInv, ItemCoherence, ItemCoherent, NothingStale
    <2>3. listCache \in {NoList, todos}
      BY <2>1 DEF IInv, ListCoherence, NothingStale
    <2> QED
      BY <2>2, <2>3 DEF Visible, VisibleList
  <1> QED
    BY <1>1, <1>2, <1>3, InvInit, InvStep, PTL DEF CachedSpec
=============================================================================
