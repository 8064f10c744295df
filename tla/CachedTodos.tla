---------------------------- MODULE CachedTodos ----------------------------
(***************************************************************************)
(* CachedTodoRepository: the read-through, write-through cache that        *)
(* cmd/main.go puts between TodoService and PostgresTodoRepository.  A     *)
(* request runs in a goroutine of its own; each of its cache calls is      *)
(* atomic (InMemoryCache holds its mutex for one map operation) and so is  *)
(* each statement, but nothing joins a statement to the cache call that    *)
(* follows it.  The caches have no TTL: an entry stays until a request     *)
(* replaces or deletes it, or the process ends.                            *)
(***************************************************************************)
EXTENDS TodoStore

CONSTANT NoList     \* listCache holds no entry for allTodosKey

\* The marker is no list.
ASSUME NoListIsNoList == NoList \notin Rows

VARIABLES
    itemCache,      \* itemCache[i] is the cached todo, Absent when there is none
    listCache,      \* the entry of allTodosKey, NoList when there is none
    pc,             \* where the request of each goroutine stands
    key,            \* the id argument of that request
    outdated,       \* history: requests whose result the table no longer agrees with
    staleItems,     \* history: entries written by an outdated request, or whose
                    \* row changed with no cache call to follow
    staleList       \* history: the same for the list entry

history == <<outdated, staleItems, staleList>>
caches == <<itemCache, listCache>>
vars == <<storeVars, caches, pc, key, history>>

\* Program points at which a request is about to cache what it holds.
HoldsItem == {"getFill", "createSet", "updateSet", "deleteDrop"}
\* A write whose statement is done and whose item, or list, cache call is to come.
ItemCallDue == {"createSet", "updateSet", "deleteDrop"}
ListCallDue == ItemCallDue \cup {"createInval", "updateInval", "deleteInval"}

PC == {"idle", "getQuery", "listQuery", "listFill"} \cup HoldsItem \cup ListCallDue

TypeOK ==
    /\ TablesTypeOK
    /\ result \in [Worker -> Result]
    /\ itemCache \in [TodoID -> Todo \cup {Absent}]
    /\ listCache \in Rows \cup {NoList}
    /\ pc \in [Worker -> PC]
    /\ key \in [Worker -> TodoID]
    /\ outdated \subseteq Worker
    /\ staleItems \subseteq TodoID
    /\ staleList \in BOOLEAN

EmptyCaches ==
    /\ itemCache = NoRows
    /\ listCache = NoList

Init ==
    /\ StoreInit
    /\ EmptyCaches
    /\ pc = [w \in Worker |-> "idle"]
    /\ key \in [Worker -> TodoID]
    /\ outdated = {}
    /\ staleItems = {}
    /\ staleList = FALSE

-----------------------------------------------------------------------------
Goto(w, at) == pc' = [pc EXCEPT ![w] = at]

\* The request starts on todo i and goes on at `at'.
Begin(w, i, at) ==
    /\ Goto(w, at)
    /\ key' = [key EXCEPT ![w] = i]

\* The request answers and is done.
Return(w) ==
    /\ Goto(w, "idle")
    /\ outdated' = outdated \ {w}

-----------------------------------------------------------------------------
\* History kept by the steps that change the table.
Changed == {i \in TodoID : todos'[i] # todos[i]}

\* Requests that hold what a change of these rows replaces.
Overtaken(ids) ==
    {w \in Worker : \/ pc[w] \in HoldsItem /\ key[w] \in ids
                    \/ pc[w] = "listFill" /\ ids # {}}

Overtake == outdated' = outdated \cup Overtaken(Changed)

\* A change with a cache call to follow.
AnnouncedChange ==
    /\ Overtake
    /\ UNCHANGED <<staleItems, staleList>>

\* A change with none.
SilentChange ==
    /\ Overtake
    /\ staleItems' = staleItems \cup {i \in Changed : itemCache[i] # Absent}
    /\ staleList' = (staleList \/ (Changed # {} /\ listCache # NoList))

-----------------------------------------------------------------------------
\* itemCache.Set(key, result), and what the request does next.
SetItem(w) ==
    /\ itemCache' = [itemCache EXCEPT ![key[w]] = result[w].item]
    /\ staleItems' = IF w \in outdated THEN staleItems \cup {key[w]}
                                       ELSE staleItems \ {key[w]}
    /\ UNCHANGED <<tables, result, listCache, key, staleList>>

\* itemCache.Delete(key)
DropItem(w) ==
    /\ itemCache' = [itemCache EXCEPT ![key[w]] = Absent]
    /\ staleItems' = staleItems \ {key[w]}
    /\ UNCHANGED <<tables, result, listCache, key, staleList>>

\* listCache.Delete(allTodosKey)
DropList(w) ==
    /\ listCache' = NoList
    /\ staleList' = FALSE
    /\ UNCHANGED <<tables, result, itemCache, key, staleItems>>

-----------------------------------------------------------------------------
\* GetByID: a hit answers at once, a miss goes to the table.
GetByIDLookup(w, i) ==
    /\ pc[w] = "idle"
    /\ \/ /\ itemCache[i] # Absent
          /\ Answer(w, Item(itemCache[i]))
          /\ UNCHANGED <<pc, key>>
       \/ /\ itemCache[i] = Absent
          /\ Begin(w, i, "getQuery")
          /\ UNCHANGED result
    /\ UNCHANGED <<tables, caches, history>>

\* Mutant: the error test after the query is gone, so no row is kept like a row.
GetByIDQueryUntested(w) ==
    /\ pc[w] = "getQuery"
    /\ Answer(w, Item(todos[key[w]]))
    /\ Goto(w, "getFill")
    /\ UNCHANGED <<tables, caches, key, history>>

\* SELECT ... WHERE id: a row is kept for the cache, no row is answered at once.
GetByIDQuery(w) ==
    /\ pc[w] = "getQuery"
    /\ \/ /\ todos[key[w]] # Absent
          /\ Answer(w, Item(todos[key[w]]))
          /\ Goto(w, "getFill")
       \/ /\ todos[key[w]] = Absent
          /\ Answer(w, Failed)
          /\ Goto(w, "idle")
    /\ UNCHANGED <<tables, caches, key, history>>

GetByIDFill(w) ==
    /\ pc[w] = "getFill"
    /\ SetItem(w)
    /\ Return(w)

GetAllLookup(w) ==
    /\ pc[w] = "idle"
    /\ \/ /\ listCache # NoList
          /\ Answer(w, List(listCache))
          /\ UNCHANGED pc
       \/ /\ listCache = NoList
          /\ Goto(w, "listQuery")
          /\ UNCHANGED result
    /\ UNCHANGED <<tables, caches, key, history>>

GetAllQuery(w) ==
    /\ pc[w] = "listQuery"
    /\ Answer(w, List(todos))
    /\ Goto(w, "listFill")
    /\ UNCHANGED <<tables, caches, key, history>>

\* A failed query, or row scan, is answered with an empty list and no error; rows
\* cut short are answered as they are, for nothing reads rows.Err().
GetAllQueryFails(w) ==
    /\ pc[w] = "listQuery"
    /\ \/ /\ "failed" \in Faults
          /\ Answer(w, List(NoRows))
       \/ /\ "cutShort" \in Faults
          /\ \E ids \in SUBSET TodoID :
                Answer(w, List([i \in TodoID |-> IF i \in ids THEN todos[i] ELSE Absent]))
    /\ Goto(w, "listFill")
    /\ outdated' = outdated \cup {w}
    /\ UNCHANGED <<tables, caches, key, staleItems, staleList>>

GetAllFill(w) ==
    /\ pc[w] = "listFill"
    /\ listCache' = result[w].list
    /\ staleList' = (w \in outdated)
    /\ Return(w)
    /\ UNCHANGED <<tables, result, itemCache, key, staleItems>>

\* Mutant: the todo is built, answered and cached without its owner.
CreateInsertUnowned(w) ==
    /\ pc[w] = "idle"
    /\ \E i \in TodoID, title \in Title, u \in User :
          /\ InsertTodo(i, title, u)
          /\ Answer(w, Item(NewTodo(i, title, NULL)))
          /\ Begin(w, i, "createSet")
    /\ AnnouncedChange
    /\ UNCHANGED caches

\* Create: the statement, then itemCache.Set, then listCache.Delete.
CreateInsert(w) ==
    /\ pc[w] = "idle"
    /\ \E i \in TodoID, title \in Title, u \in User :
          /\ InsertTodo(i, title, u)
          /\ Answer(w, Item(NewTodo(i, title, u)))
          /\ Begin(w, i, "createSet")
    /\ AnnouncedChange
    /\ UNCHANGED caches

\* The access token outlives its user: the foreign key refuses the row.
CreateRefused(w) ==
    /\ pc[w] = "idle"
    /\ \E u \in User : u \notin users
    /\ Answer(w, Failed)
    /\ UNCHANGED <<tables, caches, pc, key, history>>

CreateSet(w) ==
    /\ pc[w] = "createSet"
    /\ SetItem(w)
    /\ Goto(w, "createInval")
    /\ outdated' = outdated \ {w}

\* Mutant: Create forgets listCache.Delete.
CreateInvalidateForgotten(w) ==
    /\ pc[w] = "createInval"
    /\ Return(w)
    /\ UNCHANGED <<tables, result, caches, key, staleItems, staleList>>

CreateInvalidate(w) ==
    /\ pc[w] = "createInval"
    /\ DropList(w)
    /\ Return(w)

\* Mutant: Update keeps the row as it was before the statement.
UpdateStatementKeepsOld(w, i) ==
    /\ pc[w] = "idle"
    /\ \E title \in Title, completed \in BOOLEAN :
          UpdateTodo(i, title, completed)
    /\ Answer(w, Item(todos[i]))
    /\ Begin(w, i, "updateSet")
    /\ AnnouncedChange
    /\ UNCHANGED caches

\* Update: the statement, then itemCache.Set, then listCache.Delete.
UpdateStatement(w, i) ==
    /\ pc[w] = "idle"
    /\ \E title \in Title, completed \in BOOLEAN :
          UpdateTodo(i, title, completed)
    /\ Answer(w, Item(todos'[i]))
    /\ Begin(w, i, "updateSet")
    /\ AnnouncedChange
    /\ UNCHANGED caches

\* Mutant: Update forgets itemCache.Set.
UpdateSetForgotten(w) ==
    /\ pc[w] = "updateSet"
    /\ Goto(w, "updateInval")
    /\ outdated' = outdated \ {w}
    /\ UNCHANGED <<tables, result, caches, key, staleItems, staleList>>

UpdateSet(w) ==
    /\ pc[w] = "updateSet"
    /\ SetItem(w)
    /\ Goto(w, "updateInval")
    /\ outdated' = outdated \ {w}

\* Mutant: Update forgets listCache.Delete.
UpdateInvalidateForgotten(w) ==
    /\ pc[w] = "updateInval"
    /\ Return(w)
    /\ UNCHANGED <<tables, result, caches, key, staleItems, staleList>>

UpdateInvalidate(w) ==
    /\ pc[w] = "updateInval"
    /\ DropList(w)
    /\ Return(w)

\* Delete: the statement, then itemCache.Delete, then listCache.Delete.
DeleteStatement(w, i) ==
    /\ pc[w] = "idle"
    /\ DeleteTodo(i)
    /\ Answer(w, Deleted)
    /\ Begin(w, i, "deleteDrop")
    /\ AnnouncedChange
    /\ UNCHANGED caches

\* Mutant: Delete forgets itemCache.Delete.
DeleteDropForgotten(w) ==
    /\ pc[w] = "deleteDrop"
    /\ Goto(w, "deleteInval")
    /\ outdated' = outdated \ {w}
    /\ UNCHANGED <<tables, result, caches, key, staleItems, staleList>>

DeleteDrop(w) ==
    /\ pc[w] = "deleteDrop"
    /\ DropItem(w)
    /\ Goto(w, "deleteInval")
    /\ outdated' = outdated \ {w}

DeleteInvalidate(w) ==
    /\ pc[w] = "deleteInval"
    /\ DropList(w)
    /\ Return(w)

\* Mutant: RowsAffected is not looked at, so deleting no row succeeds.
WriteNotFoundIgnored(w, i) ==
    /\ pc[w] = "idle"
    /\ todos[i] = Absent
    /\ Answer(w, Deleted)
    /\ UNCHANGED <<tables, caches, pc, key, history>>

\* Update or Delete of a row that is not there: an error, and no cache call.
WriteNotFound(w, i) ==
    /\ pc[w] = "idle"
    /\ todos[i] = Absent
    /\ Answer(w, Failed)
    /\ UNCHANGED <<tables, caches, pc, key, history>>

-----------------------------------------------------------------------------
\* Mutant: Delete does not return the error of its statement.
StatementFailsUnnoticed(w) ==
    /\ "failed" \in Faults
    /\ pc[w] \in {"idle", "getQuery"}
    /\ Answer(w, Deleted)
    /\ Goto(w, "idle")
    /\ UNCHANGED <<tables, caches, key, history>>

\* A statement of GetByID, Create, Update or Delete fails: an error is answered
\* and the cache is left alone.
StatementFails(w) ==
    /\ "failed" \in Faults
    /\ pc[w] \in {"idle", "getQuery"}
    /\ Answer(w, Failed)
    /\ Goto(w, "idle")
    /\ UNCHANGED <<tables, caches, key, history>>

\* A change commits and the connection breaks before the reply: the repository
\* sees the same error, so no cache call follows the change.
ReplyLost(w) ==
    /\ "lostReply" \in Faults
    /\ pc[w] = "idle"
    /\ \E i \in TodoID :
          \/ \E title \in Title, u \in User : InsertTodo(i, title, u)
          \/ \E title \in Title, completed \in BOOLEAN : UpdateTodo(i, title, completed)
          \/ DeleteTodo(i)
    /\ Answer(w, Failed)
    /\ SilentChange
    /\ UNCHANGED <<caches, pc, key>>

\* UserService.Delete: the cascade changes todos, and no todo cache is told.
UserDelete ==
    /\ \E u \in DeletableUser : DeleteUser(u)
    /\ SilentChange
    /\ UNCHANGED <<result, caches, pc, key>>

\* The process ends and is started again (restart: always): requests in flight
\* and both caches are gone, the tables are not.
ProcessRestart ==
    /\ Restart
    /\ itemCache' = NoRows
    /\ listCache' = NoList
    /\ pc' = [w \in Worker |-> "idle"]
    /\ outdated' = {}
    /\ staleItems' = {}
    /\ staleList' = FALSE
    /\ UNCHANGED key

-----------------------------------------------------------------------------
RequestStep(w) ==
    \/ GetByIDQuery(w) \/ GetByIDFill(w)
    \/ GetAllLookup(w) \/ GetAllQuery(w) \/ GetAllQueryFails(w) \/ GetAllFill(w)
    \/ CreateInsert(w) \/ CreateRefused(w) \/ CreateSet(w) \/ CreateInvalidate(w)
    \/ UpdateSet(w) \/ UpdateInvalidate(w)
    \/ DeleteDrop(w) \/ DeleteInvalidate(w)
    \/ StatementFails(w) \/ ReplyLost(w)
    \/ \E i \in TodoID :
          \/ GetByIDLookup(w, i)
          \/ UpdateStatement(w, i) \/ DeleteStatement(w, i) \/ WriteNotFound(w, i)

Next ==
    \/ \E w \in Worker : RequestStep(w)
    \/ UserDelete
    \/ ProcessRestart

CachedSpec == Init /\ [][Next]_vars
-----------------------------------------------------------------------------
(***************************************************************************)
(* Properties                                                              *)
(***************************************************************************)

\* A cached todo is its row, unless a write has still to make its item cache call
\* or a request wrote the entry after its row had moved on.  So the only ways
\* for CachedTodoRepository to keep a wrong todo are a read or write overtaken
\* between statement and itemCache.Set, and a change no cache call follows (a lost
\* acknowledgement, the ON DELETE SET NULL cascade); the next write of that todo
\* which nothing overtakes repairs it.
ItemCoherent(i) ==
    \/ itemCache[i] \in {Absent, todos[i]}
    \/ i \in staleItems
    \/ \E w \in Worker : pc[w] \in ItemCallDue /\ key[w] = i

ItemCoherence == \A i \in TodoID : ItemCoherent(i)

\* The cached list is the table, unless a write has still to delete it or it was
\* filled by an overtaken or failed GetAll; any write deletes a wrong list.
ListCoherence ==
    \/ listCache \in {NoList, todos}
    \/ staleList
    \/ \E w \in Worker : pc[w] \in ListCallDue

\* What a request holds on its way to a cache call is the state of the table,
\* unless the request is marked outdated.
Held(w) ==
    /\ pc[w] \in HoldsItem \ {"deleteDrop"} =>
          todos[key[w]] # Absent /\ result[w] = Item(todos[key[w]])
    /\ pc[w] = "deleteDrop" => todos[key[w]] = Absent
    /\ pc[w] = "listFill" => result[w] = List(todos)

HeldIsCurrent == \A w \in Worker \ outdated : Held(w)

\* A request that is about to cache holds something of the right kind.
HeldHasType ==
    \A w \in Worker :
        /\ pc[w] \in HoldsItem \ {"deleteDrop"} => result[w] \in [item : Todo]
        /\ pc[w] = "listFill" => result[w] \in [list : Rows]

\* The inductive invariant of the coherence proofs.
IInv ==
    /\ TypeOK
    /\ HeldHasType
    /\ HeldIsCurrent
    /\ ItemCoherence
    /\ ListCoherence

\* Whatever a request holds for a cache, or a cache for later requests, is or was the
\* state of its row, never a mix of two rows or something the table never had.
SeenBefore ==
    /\ \A i \in TodoID : {Absent, todos[i], itemCache[i]} \subseteq past[i]
    /\ listCache # NoList => \A i \in TodoID : listCache[i] \in past[i]
    /\ \A w \in Worker :
          /\ pc[w] \in HoldsItem \ {"deleteDrop"} => result[w].item \in past[key[w]]
          /\ pc[w] = "listFill" => \A i \in TodoID : result[w].list[i] \in past[i]

\* The cached service is the exact store for one request at a time, when no
\* statement fails and no user is deleted.
ImplementsStore == Spec

\* Whatever overlaps or fails, the cached service is the store with stale reads:
\* nothing is ever answered that its row never was, "not found" is never stale,
\* and an error changes no more than an unacknowledged statement does.
ImplementsStaleStore == StaleSpec

-----------------------------------------------------------------------------
\* What the repository says of the service, at rest.
AtRest == \A w \in Worker : pc[w] = "idle"

\* What a GetByID, or GetAll, that starts now and meets nobody answers.
Visible(i) == IF itemCache[i] # Absent THEN itemCache[i] ELSE todos[i]
VisibleList == IF listCache # NoList THEN listCache ELSE todos

\* TestDelete: once Delete has answered, GetByID of that id is an error.
DeletedStaysDeleted ==
    AtRest => \A i \in TodoID :
        ~Fresh(i) /\ todos[i] = Absent => Visible(i) = Absent

\* GetTodos: "Get list of all todos".
ListHasAllTodos ==
    AtRest => \A i \in TodoID :
        todos[i] # Absent => VisibleList[i] # Absent
=============================================================================
