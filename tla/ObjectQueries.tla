---------------------------- MODULE ObjectQueries ----------------------------
(***************************************************************************)
(* What the MTP initiator is told about objects: StorageFactory with its   *)
(* cache of property values over several storages, the notifications it    *)
(* and the responder handle when the event loop comes round to them, the   *)
(* thumbnails, and the operations of the responder on objects.             *)
(*                                                                         *)
(* The objects, the cache, the notifications under way and the             *)
(* thumbnailers are one record, and a method is a function of it.  An      *)
(* operation of the initiator is one step, for the responder does not      *)
(* return to the event loop in it.  The storages agree with the disk apart *)
(* from files written to (ObjectTree is about the rest), so a change of    *)
(* the user is one step with the plugin's notification of it.  Data are    *)
(* version numbers: "content" stands for the size and the dates.           *)
(***************************************************************************)
EXTENDS Thumbnailer, FiniteSetsExt, Functions, SequencesExt

CONSTANTS
    Stores,       \* the storages, in the order in which they are searched
    Names,        \* names that objects are given
    Pictures,     \* names of files thumbnails are made of
    AtFirst,      \* storage -> handle -> [parent, dir, name]: the objects at first
    Settable,     \* properties the initiator sets: "name", "title"
    Single,       \* properties the initiator asks for singly, of all there are
    HandleBound,  \* bound: the largest handle
    HostBound,    \* bound: operations of the initiator that change something
    AskBound,     \* bound: queries of the initiator
    UserBound,    \* bound: changes by the user of the device
    EditBound,    \* bound: operations on an object that is edited
    FailBound,    \* bound: failures, of operations and of thumbnails
    StepBound     \* bound: all of these together

ASSUME QueriesAssumption ==
    /\ Settable \subseteq {"name", "title"}
    /\ Single \subseteq {"parent", "name", "store", "content", "title", "sample"}
    /\ HandleBound \in Nat /\ HostBound \in Nat /\ AskBound \in Nat
    /\ UserBound \in Nat /\ EditBound \in Nat
    /\ StepBound \in Nat /\ FailBound \in Nat

AllStores == ToSet(Stores)
Root == 0
InRoot == -1  \* 0xFFFFFFFF as a parent
NoStore == "none"

ASSUME StoresAssumption == Stores \in Seq(AllStores) /\ IsInjective(Stores) /\ NoStore \notin AllStores

\* The handles are counted through all storages.
ASSUME AtFirstAssumption ==
    /\ DOMAIN AtFirst = AllStores
    /\ LET H == UNION {DOMAIN AtFirst[st] : st \in AllStores} IN IsFiniteSet(H) /\ H = 1 .. Cardinality(H)
    /\ \A st, to \in AllStores : st # to => DOMAIN AtFirst[st] \cap DOMAIN AtFirst[to] = {}
    /\ \A st \in AllStores : \A h \in DOMAIN AtFirst[st] : AtFirst[st][h].parent \in DOMAIN AtFirst[st] \cup {Root}

VARIABLES
    s,        \* storages, cache, notifications, thumbnailers
    session,  \* a session is open
    edit,     \* the object of BeginEditObject
    used      \* how much of each bound is used up

vars == <<s, session, edit, used>>

InfoProps == {"parent", "name", "store", "content"}
Props == InfoProps \cup {"title", "sample"}
Without(f, keys) == [k \in DOMAIN f \ keys |-> f[k]]
Merge(f, g) == [k \in DOMAIN f \cup DOMAIN g |-> IF k \in DOMAIN f THEN f[k] ELSE g[k]]
Only(k, v) == [x \in {k} |-> v]

-----------------------------------------------------------------------------
(* The objects.  tree: storage -> handle -> item; on: m_eventsEnabled;     *)
(* size: the content the object info was made from; dirty: files whose     *)
(* IN_CLOSE_WRITE is not handled yet.                                      *)

NewItem(parent, dir, name) ==
    [parent |-> parent, dir |-> dir, name |-> name, size |-> 1, content |-> 1, on |-> FALSE]

Has(t, st, h) == h \in DOMAIN t.tree[st]
Live(t) == UNION {DOMAIN t.tree[st] : st \in AllStores}
Kids(t, st, h) == {k \in DOMAIN t.tree[st] : t.tree[st][k].parent = h}

\* h and what is in it
Closed(t, st, H) == \A k \in DOMAIN t.tree[st] : t.tree[st][k].parent \in H => k \in H
Subtree(t, st, h) ==
    {k \in DOMAIN t.tree[st] : \A H \in SUBSET DOMAIN t.tree[st] : h \in H /\ Closed(t, st, H) => k \in H}

\* h and the folders it is in; its path as the set of their names and depths
Above(t, st, h) == {a \in DOMAIN t.tree[st] : h \in Subtree(t, st, a)}
Path(t, st, h) ==
    {[depth |-> Cardinality(Above(t, st, a)), name |-> t.tree[st][a].name] : a \in Above(t, st, h)}

\* Objects H in an order in which what is in a folder comes before it
BottomUp(t, st, H) ==
    {order \in [1 .. Cardinality(H) -> H] :
        /\ \A k \in H : \E i \in DOMAIN order : order[i] = k
        /\ \A i, j \in DOMAIN order : i < j => order[j] \notin Subtree(t, st, order[i])}

Files(t, st, H) == {h \in H : Has(t, st, h) /\ ~t.tree[st][h].dir}
\* Any object with the name of a picture, folders as well
PicturesIn(t, st, H) == {h \in H : Has(t, st, h) /\ t.tree[st][h].name \in Pictures}
CanHold(t, st, p) == p = Root \/ (Has(t, st, p) /\ t.tree[st][p].dir)
Free(t, st, p, name) == \A k \in Kids(t, st, p) : t.tree[st][k].name # name

StorageOfHandle(t, h) ==
    LET holding == {i \in DOMAIN Stores : Has(t, Stores[i], h)}
    IN  IF holding = {} THEN NoStore ELSE Stores[Min(holding)]

-----------------------------------------------------------------------------
(* The cache of property values, and which of its entries are known to be  *)
(* out of date (stale: ghost).                                             *)

InCache(t, h, p) == h \in DOMAIN t.cache /\ p \in DOMAIN t.cache[h]

\* values: handle -> property -> value
CacheAdd(t, values) ==
    LET known(h) == IF h \in DOMAIN t.cache THEN t.cache[h] ELSE <<>>
    IN  [t EXCEPT !.cache = Merge([h \in DOMAIN values |-> Merge(values[h], known(h))], @),
                  !.stale = {q \in @ : ~(q[1] \in DOMAIN values /\ q[2] \in DOMAIN values[q[1]])}]

CacheRemove(t, h) == [t EXCEPT !.cache = Without(@, {h}), !.stale = @ \ ({h} \X Props)]

CacheRemoveProp(t, h, p) ==
    IF ~InCache(t, h, p) THEN t
    ELSE IF DOMAIN t.cache[h] = {p} THEN CacheRemove(t, h)
    ELSE [t EXCEPT !.cache[h] = Without(@, {p}), !.stale = @ \ {<<h, p>>}]

OutOfDate(t, pairs) == [t EXCEPT !.stale = @ \cup {q \in pairs : InCache(t, q[1], q[2])}]

-----------------------------------------------------------------------------
(* Interest of the initiator, and the notifications.  asked: objects it    *)
(* has been answered about in this session; untold: those changed since    *)
(* without a notification (ghosts).                                        *)

\* eventGenerated(): the factory and the responder handle it later.
EmitAll(t, kind, order) == [t EXCEPT !.events = @ \o [i \in DOMAIN order |-> [kind |-> kind, handle |-> order[i]]]]
Emit(t, kind, h) == EmitAll(t, kind, <<h>>)

Changed(t, H) == [t EXCEPT !.untold = @ \cup (H \cap t.asked)]

SetOn(items, H, on) == [h \in DOMAIN items |-> IF h \in H THEN [items[h] EXCEPT !.on = on] ELSE items[h]]

\* getObjectInfo() of items H, and the mutant without m_eventsEnabled
InterestedNot(t, st, H) == t
Interested(t, st, H) == [t EXCEPT !.tree[st] = SetOn(@, H, TRUE)]

SetEventsEnabled(t, h, on) ==
    LET st == StorageOfHandle(t, h) IN IF st = NoStore THEN t ELSE [t EXCEPT !.tree[st] = SetOn(@, {h}, on)]

DisableObjectEvents(t) ==
    [t EXCEPT !.tree = [st \in DOMAIN @ |-> SetOn(@[st], DOMAIN @[st], FALSE)], !.asked = {}, !.untold = {}]

Ask(t, h) == [t EXCEPT !.asked = @ \cup {h}]
Forget(t, H) == [t EXCEPT !.asked = @ \ H, !.untold = @ \ H]

RequestSamples(t, st, H) ==
    [t EXCEPT !.thumb[st] = RequestThumbnails(@, {Path(t, st, h) : h \in PicturesIn(t, st, H)})]

\* populateObjectInfo(): what is on the disk; also the size of the thumbnail
PopulateObjectInfo(t, st, h) ==
    RequestSamples([t EXCEPT !.tree[st][h].size = t.tree[st][h].content], st, {h})

-----------------------------------------------------------------------------
(* Values of properties.                                                   *)

\* getObjectPropertyValueFromStorage(): "title" is no property of the plugin.
\* A sample is there or empty; the plugin never makes it anew.
ValueFromStorage(t, st, h, p) ==
    LET i == t.tree[st][h]
    IN  CASE p = "parent"  -> i.parent
          [] p = "name"    -> i.name
          [] p = "store"   -> st
          [] p = "content" -> i.size
          [] p = "title"   -> "unset"
          [] p = "sample"  -> i.name \in Pictures /\ Path(t, st, h) \in t.thumb[st].paths

\* Reading a sample that is not there asks for it.
ReadProps(t, st, H, P) == Interested(IF "sample" \in P THEN RequestSamples(t, st, H) ELSE t, st, H)

FeedCache(t, st, H, P) == CacheAdd(t, [h \in H |-> [p \in P |-> ValueFromStorage(t, st, h, p)]])

\* getChildPropertyValues() of the parent
MassQuery(t, st, h, P) ==
    LET siblings == Kids(t, st, t.tree[st][h].parent)
    IN  FeedCache(ReadProps(t, st, siblings, P), st, siblings, P)

\* StorageFactory::getObjectPropertyValue(): [t, ok].  The first query in a
\* folder loads the values of all its objects.
GetObjectPropertyValue(t, h, P) ==
    LET missing == {p \in P : ~InCache(t, h, p)}
        st == StorageOfHandle(t, h)
        parent == t.tree[st][h].parent
        i == Interested(t, st, {h})
    IN  IF missing = {} THEN [t |-> t, ok |-> TRUE]
        ELSE IF st = NoStore THEN [t |-> t, ok |-> FALSE]
        ELSE IF parent \in t.mass
        THEN [t |-> FeedCache(ReadProps(i, st, {h}, missing), st, {h}, missing), ok |-> TRUE]
        ELSE [t |-> [MassQuery(i, st, h, missing) EXCEPT !.mass = @ \cup {parent}], ok |-> TRUE]

\* FSStoragePlugin::getObjectHandles(): all objects, those in the root, those in a folder
HandlesIn(t, st, assoc) ==
    CASE assoc = 0        -> [ok |-> TRUE, handles |-> DOMAIN t.tree[st]]
      [] assoc = InRoot   -> [ok |-> TRUE, handles |-> Kids(t, st, Root)]
      [] OTHER -> IF Has(t, st, assoc) /\ t.tree[st][assoc].dir
                  THEN [ok |-> TRUE, handles |-> Kids(t, st, assoc)]
                  ELSE [ok |-> FALSE, handles |-> {}]

\* StorageFactory::getObjectHandles() of all storages ends at the first that refuses:
\* with several storages no folder is in all of them.
GetObjectHandles(t, assoc) ==
    IF \A st \in AllStores : HandlesIn(t, st, assoc).ok
    THEN UNION {HandlesIn(t, st, assoc).handles : st \in AllStores} ELSE {}

-----------------------------------------------------------------------------
(* Operations of the initiator.  An operation suspends the thumbnailers    *)
(* until the responder's state is idle again.                              *)

Thumbs(t, F(_)) == [t EXCEPT !.thumb = [st \in DOMAIN @ |-> F(@[st])]]

Spent == used.ask + used.host + used.user + used.edit + used.fail
Bounds == [ask |-> AskBound, host |-> HostBound, user |-> UserBound, edit |-> EditBound, fail |-> FailBound]
Left(bound) == used[bound] < Bounds[bound] /\ Spent < StepBound
Use(bound) == Left(bound) /\ used' = [used EXCEPT ![bound] = @ + 1]

\* What an operation leaves behind
Answered(t) == s' = Thumbs(t, SuspendThumbnailing)

\* An operation that changes something, and may fail in the middle
Change(t, fails) ==
    /\ fails => Left("fail")
    /\ used' = [used EXCEPT !.host = @ + 1, !.fail = IF fails THEN @ + 1 ELSE @]
    /\ Answered(t)
    /\ UNCHANGED session

Handles == 1 .. HandleBound

\* GetObjectInfo, and GetObject and GetPartialObject as far as they ask for it
GetObjectInfo(h) ==
    LET st == StorageOfHandle(s, h) IN
    /\ st # NoStore
    /\ Answered(Ask(Interested(s, st, {h}), h))
    /\ UNCHANGED <<session, edit>>

GetObjectPropValue(h, p) ==
    LET st == StorageOfHandle(s, h) IN
    /\ st # NoStore
    /\ Answered(Ask(GetObjectPropertyValue(Interested(s, st, {h}), h, {p}).t, h))
    /\ UNCHANGED <<session, edit>>

\* One object of a GetObjectPropList: all properties but the sample
QueryObject(t, h) ==
    LET P == InfoProps \cup Settable
    IN  Ask(GetObjectPropertyValue(Interested(t, StorageOfHandle(t, h), {h}), h, P).t, h)

\* Objects H, which are one or those a depth selects, in the order of their handles
QueryObjects(t, H) ==
    LET upTo[n \in 0 .. HandleBound] ==
            IF n = 0 THEN t ELSE IF n \in H THEN QueryObject(upTo[n - 1], n) ELSE upTo[n - 1]
    IN  upTo[HandleBound]

GetObjectPropList(H) ==
    /\ H # {} /\ H \subseteq Live(s)
    /\ Answered(QueryObjects(s, H))
    /\ UNCHANGED <<session, edit>>

\* The only query that does not ask for the object info: a cached sample is
\* returned for an object the initiator is not noted to be interested in.
GetThumb(h) ==
    LET q == GetObjectPropertyValue(s, h, {"sample"}) IN
    /\ q.ok
    /\ Answered(IF InCache(s, h, "sample") THEN q.t ELSE Ask(q.t, h))
    /\ UNCHANGED <<session, edit>>

Moved(t, st, h) == OutOfDate(t, Subtree(t, st, h) \X {"sample"})

\* FSStoragePlugin::setObjectPropertyValue() of the name: [t, ok]
RenameItem(t, st, h, name, fails) ==
    IF ~Free(t, st, t.tree[st][h].parent, name) THEN [t |-> t, ok |-> FALSE]
    ELSE IF fails THEN [t |-> t, ok |-> TRUE]
    ELSE [t |-> Moved([t EXCEPT !.tree[st][h].name = name], st, h), ok |-> TRUE]

\* mutant: a refused value is cached as well
CacheSetAnyway(r, h, p, v) == CacheAdd(r.t, Only(h, Only(p, v)))

CacheSet(r, h, p, v) == IF r.ok THEN CacheAdd(r.t, Only(h, Only(p, v))) ELSE r.t

\* SetObjectPropValue, or one element of SetObjectPropList.  What the plugin
\* does not store, or failed to, is cached as if it had.
SetObjectProp(h, p, v, fails) ==
    LET st == StorageOfHandle(s, h)
        i == Interested(s, st, {h})
        r == IF p = "name" THEN RenameItem(i, st, h, v, fails) ELSE [t |-> i, ok |-> TRUE]
        t == CacheSet(r, h, p, v)
    IN  /\ st # NoStore
        /\ fails => p = "name" /\ r.ok
        /\ Change(IF fails \/ p = "title" THEN OutOfDate(t, {<<h, p>>}) ELSE t, fails)
        /\ UNCHANGED edit

\* removeFromStorage() of items H
RemoveItems(t, st, H) == [t EXCEPT !.tree[st] = Without(@, H), !.dirty = @ \ ({st} \X H)]

\* StorageFactory::deleteItem(): only the properties of the object itself are dropped.
DeleteItem(t, h) ==
    LET st == StorageOfHandle(t, h)
        H == Subtree(t, st, h)
    IN  CacheRemove(OutOfDate(Forget(RemoveItems(t, st, H), H), H \X Props), h)

DeleteObject(h) ==
    /\ StorageOfHandle(s, h) # NoStore
    /\ Change(DeleteItem(s, h), FALSE)
    /\ UNCHANGED edit

\* DeleteObject of 0xFFFFFFFF: all objects of all storages
DeleteAll ==
    LET empty == [s EXCEPT !.tree = [st \in DOMAIN @ |-> <<>>], !.dirty = {}] IN
    /\ Live(s) # {}
    /\ Change(OutOfDate(Forget(empty, Live(s)), Live(s) \X Props), FALSE)
    /\ UNCHANGED edit

\* moveObject() within a storage
MoveItem(t, st, h, parent) == Moved([t EXCEPT !.tree[st][h].parent = parent], st, h)

\* copyHandle() of objects H below h: they keep their handles, the event loop is
\* told that files have been written, and of the copies nobody is noted to be
\* interested in.
CopyHandle(t, from, to, H, h, parent) ==
    LET copy(k) == [t.tree[from][k] EXCEPT !.parent = IF k = h THEN parent ELSE @, !.on = FALSE]
    IN  [Interested(t, from, H) EXCEPT !.tree[to] = Merge([k \in H |-> copy(k)], @),
                                       !.dirty = @ \cup ({to} \X Files(t, from, H))]

\* moveObject() to another storage: copy, then delete
MoveAcross(t, from, to, h, parent) ==
    LET H == Subtree(t, from, h)
        u == RemoveItems(CopyHandle(t, from, to, H, h, parent), from, H)
    IN  OutOfDate(Forget(u, H), H \X {"store", "sample"})

\* A copy that fails leaves the objects H copied so far, with the handles they
\* still have in the other storage (torn: ghost).
MoveTorn(t, from, to, H, h, parent) ==
    OutOfDate(Forget([CopyHandle(t, from, to, H, h, parent) EXCEPT !.torn = @ \cup H], H), H \X Props)

\* To another storage only the parent is dropped from the cache, of the moved object.
\* A copy fails where the destination has the handle already, from an attempt before.
MoveObject(h, to, parent) ==
    LET from == StorageOfHandle(s, h)
        H == Subtree(s, from, h)
    IN
    /\ from # NoStore /\ CanHold(s, to, parent)
    /\ Free(s, to, parent, s.tree[from][h].name) /\ parent \notin H
    /\ \/ from = to /\ Change(CacheRemoveProp(MoveItem(s, to, h, parent), h, "parent"), FALSE)
       \/ /\ from # to /\ H \cap DOMAIN s.tree[to] = {}
          /\ Change(CacheRemoveProp(MoveAcross(s, from, to, h, parent), h, "parent"), FALSE)
       \/ /\ from # to
          /\ \E C \in SUBSET (H \ DOMAIN s.tree[to]) :
                /\ \A k \in C : k = h \/ s.tree[from][k].parent \in C
                /\ Change(MoveTorn(s, from, to, C, h, parent), TRUE)
    /\ UNCHANGED edit

\* copyObject(): copies of objects H, which are h and what is in it
NewHandle(t, H, k) == t.next - 1 + CHOOSE i \in 1 .. Cardinality(H) : SetToSeq(H)[i] = k
Copies(t, from, to, H, h, parent) ==
    LET copy(k) == [t.tree[from][k] EXCEPT !.parent = IF k = h THEN parent ELSE NewHandle(t, H, @), !.on = FALSE]
        new == t.next .. t.next + Cardinality(H) - 1
    IN  [t EXCEPT !.next = @ + Cardinality(H),
                  !.tree[to] = Merge([m \in new |-> copy(SetToSeq(H)[m - t.next + 1])], @)]

\* A full storage undoes the copy.
CopyObject(h, to, parent, full) ==
    LET from == StorageOfHandle(s, h)
        H == Subtree(s, from, h)
        t == Copies(s, from, to, H, h, parent)
    IN  /\ from # NoStore /\ CanHold(s, to, parent)
        /\ Free(s, to, parent, s.tree[from][h].name) /\ parent \notin H
        /\ s.next + Cardinality(H) <= HandleBound + 1
        /\ Change(IF full THEN DeleteItem(t, NewHandle(s, H, h)) ELSE t, full)
        /\ UNCHANGED edit

\* A new file
AddItem(t, st, parent, name) ==
    [t EXCEPT !.tree[st] = Merge(Only(t.next, NewItem(parent, FALSE, name)), @), !.next = @ + 1]

\* SendObjectInfo or SendObjectPropList, and SendObject
SendObject(st, parent, name) ==
    /\ CanHold(s, st, parent) /\ Free(s, st, parent, name) /\ s.next <= HandleBound
    /\ Change([AddItem(s, st, parent, name) EXCEPT !.dirty = @ \cup {<<st, s.next>>}], FALSE)
    /\ UNCHANGED edit

\* An edit that is abandoned for another leaves its object without
\* notifications and with the properties cached before it.
BeginEditObject(h) ==
    /\ StorageOfHandle(s, h) # NoStore
    /\ Answered(SetEventsEnabled(Forget(OutOfDate(s, {edit} \X {"content"}), {h}), h, FALSE))
    /\ edit' = h
    /\ UNCHANGED session

EndEdit(t, h) == SetEventsEnabled(CacheRemove(t, h), h, TRUE)

\* Of an object that is gone by then nothing is left to be told.
EndEditObject ==
    /\ edit # Root
    /\ Answered(IF StorageOfHandle(s, edit) = NoStore THEN CacheRemove(s, edit) ELSE Ask(EndEdit(s, edit), edit))
    /\ edit' = Root
    /\ UNCHANGED session

\* SendPartialObject or TruncateObject: the info follows, the cache does not.
EditObject ==
    LET st == StorageOfHandle(s, edit) IN
    /\ st # NoStore /\ ~s.tree[st][edit].dir
    /\ Answered([Forget(s, {edit}) EXCEPT !.tree[st][edit].content = @ + 1,
                             !.tree[st][edit].size = s.tree[st][edit].content + 1,
                             !.dirty = @ \cup {<<st, edit>>}])
    /\ UNCHANGED <<session, edit>>

OpenSession ==
    /\ ~session
    /\ session' = TRUE
    /\ Answered(s)
    /\ UNCHANGED <<edit, used>>

\* The edit outlives the session.
CloseSession ==
    /\ Use("host")
    /\ session' = FALSE
    /\ Answered(DisableObjectEvents(s))
    /\ UNCHANGED edit

\* commandFinished, emitted by setResponderState() for the state idle, which comes
\* before the response is sent and long before the idle timer of commandIdle.
Idle ==
    /\ \E st \in AllStores : s.thumb[st].suspended
    /\ s' = Thumbs(s, ResumeThumbnailing)
    /\ UNCHANGED <<session, edit, used>>

-----------------------------------------------------------------------------
(* The user of the device, and the plugin as it is notified.               *)

User(t) == s' = t /\ UNCHANGED <<session, edit>>

UserWrites(st, h) ==
    /\ Has(s, st, h) /\ ~s.tree[st][h].dir
    /\ User(Changed([s EXCEPT !.tree[st][h].content = @ + 1, !.dirty = @ \cup {<<st, h>>}], {h}))

FSModifyTells(t, st, h) == IF s.tree[st][h].size # s.tree[st][h].content THEN Emit(t, "info", h) ELSE t

\* handleFSModify() of IN_CLOSE_WRITE
FSModify(st, h) ==
    /\ <<st, h>> \in s.dirty
    /\ s' = FSModifyTells(PopulateObjectInfo([s EXCEPT !.dirty = @ \ {<<st, h>>}], st, h), st, h)
    /\ UNCHANGED <<session, edit, used>>

\* handleFSMove(): an object is renamed or gets another parent.
FSMove(t, st, h) == Emit(PopulateObjectInfo(Moved(t, st, h), st, h), "info", h)

UserRenames(st, h, name) ==
    /\ Has(s, st, h) /\ Free(s, st, s.tree[st][h].parent, name)
    /\ User(Changed(FSMove([s EXCEPT !.tree[st][h].name = name], st, h), {h}))

\* Interest in the folder it comes from passes to the one it goes to.
UserMoves(st, h, parent) ==
    LET from == s.tree[st][h].parent
        heirs == {parent} \cap {k \in DOMAIN s.tree[st] : from # Root /\ s.tree[st][from].on}
    IN  /\ Has(s, st, h) /\ CanHold(s, st, parent)
        /\ Free(s, st, parent, s.tree[st][h].name) /\ parent \notin Subtree(s, st, h)
        /\ User(Changed(FSMove(Interested([s EXCEPT !.tree[st][h].parent = parent], st, heirs), st, h), {h}))

\* handleFSDelete() of the object and what is in it
UserDeletes(st, h) ==
    LET H == Subtree(s, st, h) IN
    /\ Has(s, st, h)
    /\ \E order \in BottomUp(s, st, H) : User(Changed(EmitAll(RemoveItems(s, st, H), "removed", order), H))

\* handleFSCreate()
UserCreates(st, parent, name) ==
    /\ CanHold(s, st, parent) /\ Free(s, st, parent, name) /\ s.next <= HandleBound
    /\ User(Emit(PopulateObjectInfo(AddItem(s, st, parent, name), st, s.next), "added", s.next))

-----------------------------------------------------------------------------
(* The event loop.                                                         *)

\* StorageFactory::onStorageEvent()
OnStorageEvent(t, e) ==
    CASE e.kind = "info"    -> CacheRemove(t, e.handle)
      [] e.kind = "sample"  -> CacheRemoveProp(t, e.handle, "sample")
      [] e.kind = "removed" -> CacheRemove([t EXCEPT !.mass = @ \ {e.handle}], e.handle)
      [] OTHER -> t

\* MTPResponder::dispatchEvent(): of objects that are gone, too
DispatchEvent(t, e) ==
    LET st == StorageOfHandle(t, e.handle)
    IN  IF e.kind = "added" \/ st = NoStore \/ t.tree[st][e.handle].on
        THEN [t EXCEPT !.untold = @ \ {e.handle}] ELSE t

HandleStorageEvent ==
    /\ s.events # <<>>
    /\ s' = LET e == Head(s.events)
            IN  DispatchEvent(OnStorageEvent([s EXCEPT !.events = Tail(@)], e), e)
    /\ UNCHANGED <<session, edit, used>>

ThumbnailTimer(st) ==
    /\ s.thumb[st].timer
    /\ s' = [s EXCEPT !.thumb[st] = ThumbnailDelayTimeout(@)]
    /\ UNCHANGED <<session, edit, used>>

\* receiveThumbnail() of the object that has the path by now, if there is one
ReceiveThumbnail(t, st, f) ==
    LET H == {h \in DOMAIN t.tree[st] : Path(t, st, h) = f}
        order == SetToSeq(H)
    IN  EmitAll(EmitAll(Changed(t, H), "info", order), "sample", order)

ThumbnailReady(st, f) ==
    /\ f \in s.thumb[st].fetching
    /\ s' = LET t == [s EXCEPT !.thumb[st] = SlotReady(@, f)]
            IN  IF Expected(s.thumb[st], f) THEN ReceiveThumbnail(t, st, f) ELSE t
    /\ UNCHANGED <<session, edit, used>>

ThumbnailFailed(st, f) ==
    /\ f \in s.thumb[st].fetching
    /\ Use("fail")
    /\ s' = [s EXCEPT !.thumb[st] = SlotFailed(@, f)]
    /\ UNCHANGED <<session, edit>>

-----------------------------------------------------------------------------
Parents == 0 .. HandleBound

\* Enumeration has populated the objects and asked for their thumbnails.
Init ==
    /\ LET tree == [st \in AllStores |-> [h \in DOMAIN AtFirst[st] |->
                        NewItem(AtFirst[st][h].parent, AtFirst[st][h].dir, AtFirst[st][h].name)]]
           t == [tree |-> tree, dirty |-> {}, events |-> <<>>, cache |-> <<>>, mass |-> {},
                 next |-> 1 + Cardinality(UNION {DOMAIN tree[st] : st \in AllStores}),
                 thumb |-> [st \in AllStores |-> EnableThumbnailing(NewThumbnailer)],
                 stale |-> {}, torn |-> {}, asked |-> {}, untold |-> {}]
           samples(st) == {Path(t, st, h) : h \in PicturesIn(t, st, DOMAIN tree[st])}
       IN  s = [t EXCEPT !.thumb = [st \in AllStores |-> RequestThumbnails(@[st], samples(st))]]
    /\ session = TRUE
    /\ edit = Root
    /\ used = [b \in DOMAIN Bounds |-> 0]

Query ==
    /\ session /\ Use("ask")
    /\ \/ \E h \in Handles :
             \/ GetObjectInfo(h)
             \/ GetThumb(h)
             \/ \E p \in Single : GetObjectPropValue(h, p)
             \/ GetObjectPropList({h})
       \/ \E assoc \in {0, InRoot} \cup Handles : GetObjectPropList(GetObjectHandles(s, assoc))

Host ==
    /\ session /\ Left("host")
    /\ \/ \E h \in Handles :
             \/ \E p \in Settable, fails \in BOOLEAN :
                   \E v \in (IF p = "name" THEN Names ELSE {"set"}) : SetObjectProp(h, p, v, fails)
             \/ DeleteObject(h)
             \/ \E st \in AllStores, parent \in Parents :
                   \/ MoveObject(h, st, parent)
                   \/ \E full \in BOOLEAN : CopyObject(h, st, parent, full)
       \/ \E st \in AllStores, parent \in Parents, name \in Names : SendObject(st, parent, name)
       \/ DeleteAll
       \/ CloseSession

Editing ==
    /\ session /\ Use("edit")
    /\ (\E h \in Handles : BeginEditObject(h)) \/ EditObject \/ EndEditObject

DeviceUser ==
    /\ Use("user")
    /\ \E st \in AllStores :
          \/ \E h \in Handles :
                \/ UserWrites(st, h)
                \/ UserDeletes(st, h)
                \/ \E name \in Names : UserRenames(st, h, name)
                \/ \E parent \in Parents : UserMoves(st, h, parent)
          \/ \E parent \in Parents, name \in Names : UserCreates(st, parent, name)

Loop ==
    \/ HandleStorageEvent
    \/ Idle
    \/ \E st \in AllStores :
          \/ \E h \in Handles : FSModify(st, h)
          \/ ThumbnailTimer(st)
          \/ \E f \in s.thumb[st].fetching : ThumbnailReady(st, f) \/ ThumbnailFailed(st, f)

Next == Query \/ Host \/ Editing \/ OpenSession \/ DeviceUser \/ Loop

Spec == Init /\ [][Next]_vars

\* The responder becomes idle after every operation, and the timers of the thumbnailers
\* fire.
Fairness == WF_vars(Idle) /\ \A st \in AllStores : WF_vars(ThumbnailTimer(st))

FairSpec == Spec /\ Fairness

-----------------------------------------------------------------------------
(* Properties.                                                             *)

Quiet == s.events = <<>> /\ s.dirty = {}

\* What the storage of an object would answer; an empty sample must still be to come
Truth(h, p, v) ==
    LET st == StorageOfHandle(s, h) IN
    /\ st # NoStore
    /\ IF p = "sample"
       THEN \/ v \/ s.tree[st][h].name \notin Pictures
            \/ Path(s, st, h) \in s.thumb[st].requested
       ELSE v = ValueFromStorage(s, st, h, p)

\* Once the storage's notifications have been handled, a property value in the
\* cache is the one the storage would give, and an empty thumbnail is in the
\* cache only while a thumbnail has been asked for, except for the entries
\* that operations of the initiator itself leave behind (stale), of the content
\* of an object in edit, and of objects a failed move has left in two storages (torn).
CacheTruthful ==
    Quiet => \A h \in DOMAIN s.cache \ s.torn : \A p \in DOMAIN s.cache[h] :
                <<h, p>> \in s.stale \/ (h = edit /\ p = "content") \/ Truth(h, p, s.cache[h][p])

\* Once the notifications have been handled, the initiator has had an event for
\* every change by the user or the thumbnailer of an object it has asked about in this
\* session, though events of other objects are filtered (but see torn).
ChangesTold == Quiet => s.untold \subseteq s.torn

\* No request goes out to the thumbnail service while the responder is at work.
NoFetchAtWork ==
    [][\A st \in AllStores : s.thumb[st].suspended => s'.thumb[st].fetching \subseteq s.thumb[st].fetching]_vars

\* Whatever comes between, all files a thumbnail is wanted of are handed to the
\* service in the end, again and again: once the responder is idle.
RequestsFetched == []<>(\A st \in AllStores : s.thumb[st].queue = {})
=============================================================================
