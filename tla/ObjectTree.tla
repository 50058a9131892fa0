------------------------------ MODULE ObjectTree ------------------------------
(***************************************************************************)
(* FSStoragePlugin: the tree of objects of one storage, kept in agreement  *)
(* with a directory of the file system that the user of the device changes *)
(* at the same time, and what survives a restart of the daemon.            *)
(*                                                                         *)
(* A path is a sequence of names, <<>> the directory of the storage, whose *)
(* item has the handle 0.  The file system tells of its changes by inotify *)
(* events in a queue: the name of the entry and the watch on its directory.*)
(* The plugin replaces watches when paths change; events of a watch it has *)
(* given up are dropped.  The two events of a rename have one cookie, and  *)
(* the first is kept until the next event shows whether it has a second.   *)
(*                                                                         *)
(* Everything of the plugin and of the file system that an operation may   *)
(* change is one record, so that operations are functions of it.           *)
(***************************************************************************)
EXTENDS Integers, SequencesExt

CONSTANTS
    Names,         \* names of files and directories
    Wide,          \* names that are not ASCII
    Cut,           \* wide path -> what is left of it in the file of puoids, if it is a path
    NewNames,      \* bound: names that are given
    MaxDepth,      \* bound: the longest path
    Disks,         \* what may be on the disk at first: sets of [path, dir]
    UserBound,     \* bound: changes by the user of the device
    HostBound,     \* bound: operations of the MTP initiator
    FailBound,     \* bound: copies that fail while data is copied
    RestartBound,  \* bound: restarts of the daemon
    ChangeBound    \* bound: changes, operations and restarts together

ASSUME TreeAssumption ==
    /\ MaxDepth \in Nat \ {0}
    /\ UserBound \in Nat /\ HostBound \in Nat /\ ChangeBound \in Nat
    /\ FailBound \in Nat /\ RestartBound \in Nat
    /\ NewNames \subseteq Names

\* A path is wide if a name in it is.
IsWide(p) == \E i \in DOMAIN p : p[i] \in Wide

ASSUME CutAssumption ==
    \A p \in DOMAIN Cut : /\ p \in Seq(Names) /\ IsWide(p)
                          /\ Cut[p] \in Seq(Names) \ {<<>>} /\ IsWide(Cut[p])

\* Entries of a disk: a tree
AreTree(E) ==
    /\ IsFiniteSet(E)
    /\ \A e \in E : e.path \in Seq(Names) \ {<<>>} /\ e.dir \in BOOLEAN
    /\ \A e \in E : Len(e.path) > 1 => \E f \in E : f.dir /\ f.path = Front(e.path)
    /\ \A e, f \in E : e.path = f.path => e = f

ASSUME DisksAssumption == \A E \in Disks : AreTree(E)

VARIABLES
    s,       \* the plugin's maps, the file system and its notifications
    cached,  \* m_iNotifyCache: a moved-from event without its second yet
    up,      \* the daemon runs
    saved,   \* the files with puoids and references
    before,  \* what the objects were when the daemon stopped: for the properties
    user, host, fails, restarts

vars == <<s, cached, up, saved, before, user, host, fails, restarts>>
budget == <<user, host, fails, restarts>>

None == [none |-> TRUE]
Root == 0
Paths == UNION {[1 .. n -> Names] : n \in 1 .. MaxDepth}
NewPaths == UNION {[1 .. n -> NewNames] : n \in 1 .. MaxDepth}
Child(p, name) == Append(p, name)
Below(p, q) == Len(q) > Len(p) /\ SubSeq(q, 1, Len(p)) = p
Within(p, q) == q = p \/ Below(p, q)
Rebase(q, p, r) == r \o SubSeq(q, Len(p) + 1, Len(q))
Without(f, keys) == [k \in DOMAIN f \ keys |-> f[k]]
Merge(f, g) == [k \in DOMAIN f \cup DOMAIN g |-> IF k \in DOMAIN f THEN f[k] ELSE g[k]]
Put(f, key, value) == Merge([k \in {key} |-> value], f)
Place(q, order) == CHOOSE i \in DOMAIN order : order[i] = q

-----------------------------------------------------------------------------
(* The file system.  disk: path -> inode and kind; watch: wd -> inode.     *)

IsDir(t, p) == p = <<>> \/ (p \in DOMAIN t.disk /\ t.disk[p].dir)
Exists(t, p) == p = <<>> \/ p \in DOMAIN t.disk
Ino(t, p) == IF p = <<>> THEN 0 ELSE t.disk[p].ino
Inodes(t) == {0} \cup {t.disk[p].ino : p \in DOMAIN t.disk}
WatchesOf(t, ino) == {w \in DOMAIN t.watch : t.watch[w] = ino}

\* What is notified about paths P: those in a directory with a watch
Heard(t, P) == {p \in P : WatchesOf(t, Ino(t, Front(p))) # {}}
Event(t, kind, p, cookie) ==
    LET dir == Ino(t, Front(p))
    IN  [kind |-> kind, wd |-> CHOOSE w \in WatchesOf(t, dir) : TRUE, name |-> Last(p),
         cookie |-> cookie, dir |-> dir]

\* Paths P, a directory before what is in it
ByDepth(P) ==
    CHOOSE order \in [1 .. Cardinality(P) -> P] :
        \A i, j \in DOMAIN order : i < j => order[i] # order[j] /\ Len(order[i]) <= Len(order[j])

\* Events about the paths of a sequence
Notify(t, kind, order, cookie) ==
    [t EXCEPT !.queue = @ \o [i \in DOMAIN order |-> Event(t, kind, order[i], cookie)]]
NotifyOne(t, kind, p, cookie) == Notify(t, kind, ByDepth(Heard(t, {p})), cookie)

\* A watch ends with its inode.
DropWatches(t) == [t EXCEPT !.watch = Without(@, {w \in DOMAIN @ : @[w] \notin Inodes(t)})]

\* Makes those of the paths P that are not there yet, in directories that are;
\* the paths D are directories.
Make(t, P, D) ==
    LET new == {p \in P : ~Exists(t, p) /\ \A n \in 0 .. Len(p) - 1 :
                    LET q == SubSeq(p, 1, n) IN IsDir(t, q) \/ (q \in P \cap D /\ ~Exists(t, q))}
        order == SetToSeq(new)
        u == [t EXCEPT !.disk = Merge([p \in new |-> [ino |-> t.ino + Place(p, order) - 1, dir |-> p \in D]], @),
                       !.ino = @ + Len(order)]
    IN  Notify(u, "create", ByDepth(Heard(u, new)), 0)

\* Entries are removed one by one, contents first; a directory with something else in it stays.
Unlink(t, P) ==
    LET gone == {p \in P \cap DOMAIN t.disk : \A q \in DOMAIN t.disk : Below(p, q) => q \in P}
        told == Notify(t, "delete", Reverse(ByDepth(Heard(t, gone))), 0)
    IN  DropWatches([told EXCEPT !.disk = Without(@, gone)])

\* rename() of p to r, which may exist
Rename(t, p, r) ==
    LET from == NotifyOne(t, "from", p, t.cookie)
        tree == {q \in DOMAIN t.disk : Within(p, q)}
        moved == [q \in {Rebase(u, p, r) : u \in tree} |-> t.disk[Rebase(q, r, p)]]
    IN  DropWatches([NotifyOne(from, "to", r, t.cookie) EXCEPT
                        !.disk = Merge(moved, Without(@, tree \cup {r})), !.cookie = @ + 1])

\* A rename that succeeds: r in another place, free or to be replaced by something like it
CanRename(t, p, r) ==
    /\ p # r /\ ~Below(p, r)
    /\ IsDir(t, Front(r))
    /\ \A q \in DOMAIN t.disk : Within(p, q) => Len(Rebase(q, p, r)) <= MaxDepth
    /\ r \in DOMAIN t.disk => /\ t.disk[r].dir = t.disk[p].dir
                              /\ \A q \in DOMAIN t.disk : ~Below(r, q)

-----------------------------------------------------------------------------
(* Watches and maps of the plugin.                                         *)

Kids(t, h) == {k \in DOMAIN t.items \ {Root} : t.items[k].parent = h}
Depth(t) == Max({Len(t.items[h].path) : h \in DOMAIN t.items})

\* h and what is below it
Subtree(t, h) ==
    LET level[n \in 0 .. Depth(t)] == IF n = 0 THEN {h} ELSE UNION {Kids(t, k) : k \in level[n - 1]}
    IN  UNION {level[n] : n \in 0 .. Depth(t)}

\* Of these, what is reached when only folders are entered.  A folder that has become
\* something else when a rename was handled keeps the items of its contents.
Reached(t, h) ==
    {k \in Subtree(t, h) : \A j \in Subtree(t, h) \ {k} : k \in Subtree(t, j) => t.items[j].dir}

\* removeWatchDescriptor() of items H: m_wd keeps the old number.
RemoveWatches(t, H) ==
    LET W == {t.items[h].wd : h \in {k \in H : t.items[k].dir}}
    IN  [t EXCEPT !.watch = Without(@, W), !.wds = Without(@, W)]

\* addWatchDescriptor() of items H: an inode has one watch; -1 if the path is not there.
AddWatches(t, H) ==
    LET dirs == {h \in H : t.items[h].dir}
        there == {h \in dirs : Exists(t, t.items[h].path)}
        inoOf(h) == Ino(t, t.items[h].path)
        fresh == SetToSeq({i \in {inoOf(h) : h \in there} : WatchesOf(t, i) = {}})
        watch == Merge([w \in t.wd .. (t.wd + Len(fresh) - 1) |-> fresh[w - t.wd + 1]], t.watch)
        wdOf(h) == IF h \in there THEN CHOOSE w \in DOMAIN watch : watch[w] = inoOf(h) ELSE -1
    IN  [t EXCEPT !.watch = watch, !.wd = @ + Len(fresh),
                  !.items = [h \in DOMAIN @ |-> IF h \in dirs THEN [@[h] EXCEPT !.wd = wdOf(h)] ELSE @[h]],
                  !.wds = Merge([w \in {wdOf(h) : h \in there} |-> CHOOSE h \in there : wdOf(h) = w], @)]

\* addToStorage() and addItemToMaps() of new paths P: an entry that has gone is
\* taken for a file; a path that had a puoid gets it again.
AddPaths(t, P) ==
    LET order == SetToSeq(P)
        handleOf(p) == t.handle + Place(p, order)
        unknown == SetToSeq(P \ DOMAIN t.puoids)
        puoids == Merge([p \in P \ DOMAIN t.puoids |-> t.puoid + Place(p, unknown)], t.puoids)
        paths == Merge([p \in P |-> handleOf(p)], t.paths)
        parent(p) == IF Front(p) \in DOMAIN paths THEN paths[Front(p)] ELSE Root
        items == [h \in {handleOf(p) : p \in P} |->
                    LET p == order[h - t.handle]
                    IN  [path |-> p, dir |-> IsDir(t, p), wd |-> -1, parent |-> parent(p), puoid |-> puoids[p]]]
        u == [t EXCEPT !.items = Merge(items, @), !.paths = paths, !.puoids = puoids,
                       !.handle = @ + Len(order), !.puoid = @ + Len(unknown)]
    IN  AddWatches(u, DOMAIN items)

\* Mutant: the contents of a new directory are left out.
DiscoverAlone(t, p) == IF p \in DOMAIN t.paths THEN t ELSE AddPaths(t, {p})

\* addToStorage(): p and, if it is a directory, what is in it; where the tree has
\* an item already it is not entered.
Discover(t, p) ==
    IF p \in DOMAIN t.paths THEN t
    ELSE AddPaths(t, {p} \cup {q \in DOMAIN t.disk : Below(p, q) /\ \A r \in DOMAIN t.paths :
                                                         Within(p, r) => ~Within(r, q)})

Lose(t, cause) == [t EXCEPT !.lost = @ \cup {cause}]
LoseIf(t, condition, cause) == IF condition THEN Lose(t, cause) ELSE t

\* removeFromStorage() of items H.  Only of folders are the watches removed: that of
\* an item which is none any more stays, and leads to a handle without an item.
RemoveItems(t, H) ==
    LET stale == \E w \in DOMAIN t.wds : t.wds[w] \in H /\ ~t.items[t.wds[w]].dir
    IN  LoseIf([RemoveWatches(t, H) EXCEPT !.items = Without(@, H),
                                           !.paths = Without(@, {t.items[h].path : h \in H})],
               stale, "stale")

\* deleteItemHelper(h, false, true), for what has gone from the disk.  An item with
\* contents is, after them, deleted "physically": it goes only if its directory is
\* there and empty or, when it is no folder any more, if a file is there.
Forget(t, h) ==
    LET below == Subtree(t, h) \ {h}
        full == {k \in below \cup {h} : Kids(t, k) # {}}
        files == {p \in {t.items[k].path : k \in {j \in full : ~t.items[j].dir}} :
                    Exists(t, p) /\ ~IsDir(t, p)}
        dirs == {t.items[k].path : k \in {j \in full : t.items[j].dir}}
        empty == {p \in dirs : IsDir(t, p) /\ \A q \in DOMAIN t.disk :
                                    Below(p, q) => q \in files \/ (IsDir(t, q) /\ q \in dirs)}
        u == Unlink(t, files \cup empty)
    IN  IF below = {} \/ t.items[h].path \in files \cup empty THEN RemoveItems(u, below \cup {h})
        ELSE Lose(RemoveItems(u, below), "full folder")

\* Every folder the tree has is watched, and its watch leads to it.
Watched(t, h) ==
    t.items[h].dir => /\ t.items[h].wd \in DOMAIN t.wds \cap DOMAIN t.watch
                      /\ t.wds[t.items[h].wd] = h
                      /\ Exists(t, t.items[h].path) /\ t.watch[t.items[h].wd] = Ino(t, t.items[h].path)

\* The item is what the disk has at its path, as far as the plugin looks.
InStep(t, h) ==
    Exists(t, t.items[h].path) /\ t.items[h].dir = IsDir(t, t.items[h].path) /\ Watched(t, h)

\* Something is at path p, and the tree has it not, or not as it is.
Amiss(t, p) == Exists(t, p) /\ (p \in DOMAIN t.paths => ~InStep(t, t.paths[p]))

\* u, where a directory may have lost the watch it has in t
Checked(t, u) == LoseIf(u, \E i \in Inodes(u) : WatchesOf(t, i) # {} /\ WatchesOf(u, i) = {}, "unwatched")

\* Mutant: the items below keep their paths.
ChangePathAlone(t, h, r) ==
    [t EXCEPT !.paths = Put(Without(@, {t.items[h].path}), r, h), !.items[h].path = r]

\* adjustMovedItemsPath() and the change of path of h itself
ChangePath(t, h, r) ==
    LET H == Subtree(t, h)
        p == t.items[h].path
        new(k) == Rebase(t.items[k].path, p, r)
    IN  [t EXCEPT !.paths = Merge([q \in {new(k) : k \in H} |-> CHOOSE k \in H : new(k) = q],
                                  Without(@, {t.items[k].path : k \in H})),
                  !.items = [k \in DOMAIN @ |-> IF k \in H THEN [@[k] EXCEPT !.path = new(k)] ELSE @[k]]]

-----------------------------------------------------------------------------
(* inotify events. *)

HandleOfWatch(t, wd) == IF wd \in DOMAIN t.wds THEN t.wds[wd] ELSE Root
Leads(t, wd) == HandleOfWatch(t, wd) \in DOMAIN t.items
EntryOf(t, e) == Child(t.items[HandleOfWatch(t, e.wd)].path, e.name)

\* The plugin has given up the watch of this event, but not the directory.
Dropped(t, e) == LoseIf(t, e.dir \in Inodes(t), "watch")

\* The watch leads to a handle without an item: looking for that in m_objectHandlesMap
\* gives the handle back, with no item, and what the initiator may ask of it then is
\* not modelled.
DroppedNull(t, e) == Lose(Dropped(t, e), "null item")

Pending(t, e, kinds) == \E i \in DOMAIN t.queue :
    t.queue[i].kind \in kinds /\ t.queue[i].wd = e.wd /\ t.queue[i].name = e.name

\* Mutant: deleteItemHelper(h), which deletes physically
FSDeletePhysically(t, e) ==
    IF e.wd \notin DOMAIN t.wds \/ ~Leads(t, e.wd) \/ EntryOf(t, e) \notin DOMAIN t.paths THEN t
    ELSE LET H == Subtree(t, t.paths[EntryOf(t, e)])
         IN  RemoveItems(Unlink(t, {t.items[h].path : h \in H} \cap DOMAIN t.disk), H)

\* handleFSDelete()
FSDelete(t, e) ==
    IF e.wd \notin DOMAIN t.wds THEN Dropped(t, e)
    ELSE IF ~Leads(t, e.wd) THEN DroppedNull(t, e)
    ELSE LET p == EntryOf(t, e)
             u == IF p \in DOMAIN t.paths THEN Forget(t, t.paths[p]) ELSE t
         IN  LoseIf(u, Exists(u, p) /\ ~Pending(u, e, {"create", "to"}), "came back")

\* handleFSCreate(): a path the tree has is left as it is.
FSCreate(t, e) ==
    LET p == EntryOf(t, e) IN
    IF ~Leads(t, e.wd) THEN DroppedNull(t, e)
    ELSE IF t.items[HandleOfWatch(t, e.wd)].wd # e.wd THEN Dropped(t, e)
    ELSE IF p \notin DOMAIN t.paths THEN Discover(t, p)
    ELSE LoseIf(t, Amiss(t, p), "changed")

\* moveObject() without moving anything on the disk
Relink(t, h, parent) ==
    LET H == Reached(t, h)
        r == Child(t.items[parent].path, Last(t.items[h].path))
    IN  IF t.items[h].dir /\ r \in DOMAIN t.paths THEN t
        ELSE LoseIf(AddWatches([ChangePath(RemoveWatches(t, H), h, r) EXCEPT !.items[h].parent = parent], H),
                    r \in DOMAIN t.paths, "displaced")

\* handleFSMove(): a move keeps the name of the item, also where the event has
\* another; then populateObjectInfo() looks at the disk again.
FSMove(t, f, e) ==
    LET fromDir == HandleOfWatch(t, f.wd)
        toDir == HandleOfWatch(t, e.wd)
        p == EntryOf(t, f)
        r == EntryOf(t, e)
        h == t.paths[p]
        H == Subtree(t, h)
        R == Reached(t, h)
        moved == IF fromDir = toDir THEN AddWatches(RemoveWatches(ChangePath(t, h, r), R), R)
                 ELSE Relink(t, h, toDir)
        place == moved.items[h].path
        seen == [moved EXCEPT !.items[h].dir = IsDir(t, place)]
    IN  IF \/ ~Leads(t, f.wd) \/ ~Leads(t, e.wd)
           \/ t.items[fromDir].wd # f.wd \/ t.items[toDir].wd # e.wd
        THEN Dropped(Dropped(t, f), e)
        ELSE IF p \notin DOMAIN t.paths
        THEN LoseIf(t, Amiss(t, r), "unknown")
        ELSE IF r \in DOMAIN t.paths
        THEN LoseIf(Forget(t, h), IsDir(t, r), "replaced")
        ELSE LoseIf(LoseIf(LoseIf(seen, toDir \in H, "cycle"), place # r, "name"),
                    \E k \in H : Amiss(seen, seen.items[k].path), "unwatched")

\* m_iNotifyCache after event e: the first of a rename, until the next event
Cached(e) == IF e.kind = "from" THEN e ELSE None

\* inotifyEventSlot()
InotifyEvent ==
    LET e == Head(s.queue)
        rest == [s EXCEPT !.queue = Tail(@)]
        paired == cached # None /\ cached.cookie = e.cookie
        t == IF cached # None /\ ~paired THEN FSDelete(rest, cached) ELSE rest
    IN
    /\ up /\ s.queue # <<>>
    /\ s' = Checked(s, CASE e.kind = "create" -> FSCreate(t, e)
                          [] e.kind = "delete" -> FSDelete(t, e)
                          [] e.kind = "to" -> IF paired THEN FSMove(t, cached, e) ELSE FSCreate(t, e)
                          [] e.kind = "from" -> t)
    /\ cached' = Cached(e)
    /\ UNCHANGED <<up, saved, before>> /\ UNCHANGED budget

-----------------------------------------------------------------------------
(* The user of the device. *)

UserChanges(t) ==
    /\ user < UserBound /\ user + host + restarts < ChangeBound /\ user' = user + 1
    /\ s' = t
    /\ UNCHANGED <<cached, up, saved, before, host, fails, restarts>>

UserCreates(p, dir) ==
    /\ ~Exists(s, p) /\ IsDir(s, Front(p))
    /\ UserChanges(Make(s, {p}, IF dir THEN {p} ELSE {}))

UserDeletes(p) ==
    /\ \A q \in DOMAIN s.disk : ~Below(p, q)
    /\ UserChanges(Unlink(s, {p}))

UserRenames(p, r) ==
    /\ CanRename(s, p, r)
    /\ UserChanges(Rename(s, p, r))

\* Out of the storage: only the first event of the rename
UserMovesAway(p) ==
    LET t == NotifyOne(s, "from", p, s.cookie)
    IN  UserChanges(DropWatches([t EXCEPT !.disk = Without(@, {q \in DOMAIN @ : Within(p, q)}), !.cookie = @ + 1]))

-----------------------------------------------------------------------------
(* The initiator. *)

\* The tree may be behind the disk: items F are then not what they are taken for.
HostChanges(F, t) ==
    /\ up
    /\ host < HostBound /\ user + host + restarts < ChangeBound /\ host' = host + 1
    /\ s' = LoseIf(Checked(s, t), \E h \in F : ~InStep(s, h), "behind")
    /\ UNCHANGED <<cached, up, saved, before, user, restarts>>

\* createDirectory(): mkpath() makes the missing parents, too.
MakePath(t, p) ==
    LET P == {SubSeq(p, 1, n) : n \in 1 .. Len(p)} IN Make(t, P, P)

\* addItem() of a new path, or of one the disk has but the tree has not seen yet
HostAdds(parent, name, dir) ==
    LET p == Child(s.items[parent].path, name)
        t == IF ~dir /\ ~Exists(s, p) THEN Make(s, {p}, {}) ELSE IF dir THEN MakePath(s, p) ELSE s
    IN
    /\ p \in Paths \ DOMAIN s.paths
    /\ \A n \in 1 .. Len(p) - 1 : Exists(s, SubSeq(p, 1, n)) => IsDir(s, SubSeq(p, 1, n))
    /\ ~dir => IsDir(s, Front(p))
    /\ Exists(s, p) => IsDir(s, p) = dir
    /\ HostChanges({parent}, Discover(t, p))
    /\ UNCHANGED fails

\* Whether deleteItemHelper() can delete h, when its contents are deleted
Deletable(t, h) ==
    LET p == t.items[h].path IN
    IF t.items[h].dir
    THEN IsDir(t, p) /\ \A q \in DOMAIN t.disk : Below(p, q) => \E k \in Subtree(t, h) : t.items[k].path = q
    ELSE Exists(t, p) /\ ~IsDir(t, p)

\* Deletes items H and their entries on the disk.
Delete(t, H) == RemoveItems(Unlink(t, {t.items[h].path : h \in H}), H)

\* deleteItem(): stops at the first entry that cannot be deleted; siblings come in any order.
HostDeletes(h) ==
    LET below == Subtree(s, h) \ {h}
        good == {k \in below : \A j \in Subtree(s, k) : Deletable(s, j)}
    IN
    /\ h # Root
    /\ IF good = below
       THEN HostChanges({}, Delete(s, below \cup (IF Deletable(s, h) THEN {h} ELSE {})))
       ELSE \E H \in SUBSET good : /\ \A k \in H : Subtree(s, k) \subseteq H
                                   /\ HostChanges({}, Delete(s, H))
    /\ UNCHANGED fails

\* deleteItem(0xFFFFFFFF): each item in its turn, and never the root
HostDeletesAll ==
    /\ HostChanges({}, Delete(s, {h \in DOMAIN s.items \ {Root} : \A k \in Subtree(s, h) : Deletable(s, k)}))
    /\ UNCHANGED fails

\* moveObject(): QDir::rename() replaces nothing; if it fails only the watches are new.
HostMoves(h, parent) ==
    LET H == Reached(s, h)
        p == s.items[h].path
        r == Child(s.items[parent].path, Last(p))
        t == RemoveWatches(s, H)
        done == Exists(s, p) /\ ~Exists(s, r) /\ CanRename(s, p, r)
        displaced == r \in DOMAIN s.paths
    IN
    /\ h # Root
    /\ ~(s.items[h].dir /\ displaced)
    /\ Exists(s, p) => \A q \in DOMAIN s.disk : Within(p, q) => Len(Rebase(q, p, r)) <= MaxDepth
    /\ HostChanges({h, parent}, IF done
                   THEN LoseIf(AddWatches([ChangePath(Rename(t, p, r), h, r) EXCEPT !.items[h].parent = parent], H),
                               displaced, "displaced")
                   ELSE AddWatches(t, H))
    /\ UNCHANGED fails

\* setObjectPropertyValue() of the file name.  The watches on the folders below are
\* asked for before their paths are adjusted.
HostRenames(h, name) ==
    LET H == Subtree(s, h)
        p == s.items[h].path
        r == Child(Front(p), name)
        on == Rename(s, p, r)
        self == [ChangePath(on, h, r) EXCEPT !.puoids = Put(Without(@, {p}), r, s.items[h].puoid)]
        early == [self EXCEPT !.items = [k \in DOMAIN @ |->
                    [@[k] EXCEPT !.path = IF k \in H \ {h} THEN s.items[k].path ELSE self.items[k].path]]]
        late == AddWatches(RemoveWatches(early, Reached(s, h)), Reached(s, h))
        t == [late EXCEPT !.items = [k \in DOMAIN @ |-> [@[k] EXCEPT !.path = self.items[k].path]]]
    IN
    /\ h # Root
    /\ r \notin DOMAIN s.paths
    /\ Exists(s, p) /\ ~Exists(s, r) /\ CanRename(s, p, r)
    /\ HostChanges({h}, t)
    /\ UNCHANGED fails

\* copyObject() of items C below h to r.  The watch on a directory that gets copies
\* is removed meanwhile, so that nothing is notified.
Copied(t, C, h, r) ==
    LET new(k) == Rebase(t.items[k].path, t.items[h].path, r)
        made == Make(t, {new(k) : k \in C}, {new(k) : k \in {j \in C : t.items[j].dir}})
    IN  IF C = {} THEN t ELSE Discover(made, r)

\* copyData() of k fails, or is cancelled and deletes the copy: what was copied
\* before stays, and the directories in progress are not watched again.
CopyFails(t, H, h, r, k, C) ==
    LET path(j) == t.items[j].path
        inProgress == {j \in H : t.items[j].dir /\ Within(path(j), path(k))}
        copies == {Rebase(path(j), path(h), r) : j \in inProgress}
        u == Copied(t, C, h, r)
    IN
    /\ inProgress \subseteq C
    /\ \A j \in C : j = h \/ t.items[j].parent \in C
    /\ HostChanges({}, Lose(RemoveWatches(u, {u.paths[q] : q \in copies \cap DOMAIN u.paths}), "copy"))

HostCopies(h, parent) ==
    LET H == Reached(s, h)
        p == s.items[h].path
        r == Child(s.items[parent].path, Last(p))
        quiet == RemoveWatches(s, {parent})
        files == {k \in H : ~s.items[k].dir}
        lacking == {k \in files : ~Exists(s, s.items[k].path)}
    IN
    /\ h # Root /\ s.items[parent].dir
    /\ ~Within(p, s.items[parent].path)
    /\ IsDir(s, s.items[parent].path)
    /\ Exists(s, r) => IsDir(s, r) = s.items[h].dir
    /\ \A k \in H : Len(Rebase(s.items[k].path, p, r)) <= MaxDepth
    /\ ~(s.items[h].dir /\ r \in DOMAIN s.paths)
    /\ \/ /\ lacking = {}
          /\ HostChanges({parent}, AddWatches(Copied(quiet, H, h, r), {parent}))
          /\ UNCHANGED fails
       \/ \E k \in files, C \in SUBSET H :
             /\ IF lacking = {} THEN fails < FailBound /\ fails' = fails + 1
                ELSE k \in lacking /\ fails' = fails
             /\ lacking \cap C \subseteq {k}
             /\ CopyFails(quiet, H, h, r, k, C)

SetReferences(t, h, R) == [t EXCEPT !.refs = Put(@, h, R)]

\* getReferences() forgets what does not exist any more.  What h itself refers to
\* is left when h is deleted: StorageFactory knows no storage to ask then.
GetReferences(t, h) == [t EXCEPT !.refs[h] = @ \cap DOMAIN t.items]

HostSetsReferences(h, R) ==
    /\ ~s.items[h].dir
    /\ HostChanges({}, SetReferences(s, h, R))
    /\ UNCHANGED fails

HostGetsReferences(h) ==
    /\ up /\ h \in DOMAIN s.items
    /\ s' = GetReferences(s, h)
    /\ UNCHANGED <<cached, up, saved, before>> /\ UNCHANGED budget

-----------------------------------------------------------------------------
(* Restarts. *)

\* storePuoids() writes as many bytes of a path in UTF-8 as it has characters: what is
\* read back of a wide path is another one, or none.  Of several that are read back as
\* one path one wins (QHash order).
StoredPuoids(t) ==
    LET there == {p \in DOMAIN t.puoids : IsWide(p) => p \in DOMAIN Cut}
        back(p) == IF IsWide(p) THEN Cut[p] ELSE p
    IN  [q \in {back(p) : p \in there} |-> t.puoids[CHOOSE p \in there : back(p) = q]]

\* storePuoids() and storeObjectReferences()
Stored(t) ==
    [puoid |-> t.puoid, puoids |-> StoredPuoids(t),
     refs |-> {[of |-> t.items[h].puoid, to |-> {t.items[k].puoid : k \in t.refs[h] \cap DOMAIN t.items}] :
                 h \in DOMAIN t.refs \cap DOMAIN t.items}]

\* What is gone when the process has ended
Ended(t) ==
    [t EXCEPT !.items = <<>>, !.paths = <<>>, !.wds = <<>>, !.puoids = <<>>, !.refs = <<>>,
              !.watch = <<>>, !.queue = <<>>, !.lost = {}, !.wd = 1, !.handle = 0]

\* For the properties: the objects whose file or directory is where the tree has it
InodeOf(t, h) == Ino(t, t.items[h].path)
Placed(t) == {h \in DOMAIN t.items \ {Root} :
                /\ InStep(t, h)
                /\ t.items[h].path \in DOMAIN t.paths /\ t.paths[t.items[h].path] = h
                /\ t.items[h].path \in DOMAIN t.puoids /\ t.puoids[t.items[h].path] = t.items[h].puoid
                /\ \A k \in DOMAIN t.items \ {h} : t.items[k].puoid # t.items[h].puoid}
Snapshot(t) == {[path |-> t.items[h].path, ino |-> InodeOf(t, h), dir |-> t.items[h].dir, puoid |-> t.items[h].puoid,
                 refs |-> IF h \in DOMAIN t.refs /\ ~t.items[h].dir
                          THEN {InodeOf(t, k) : k \in {j \in t.refs[h] \cap Placed(t) : ~t.items[j].dir}}
                          ELSE {}] : h \in Placed(t)}

\* ~FSStoragePlugin(), or a crash, which stores nothing
Stop(clean) ==
    /\ up /\ restarts < RestartBound /\ user + host + restarts < ChangeBound
    /\ up' = FALSE /\ restarts' = restarts + 1
    /\ saved' = IF clean THEN Stored(s) ELSE saved
    /\ before' = IF clean THEN Snapshot(s) ELSE {}
    /\ s' = Ended(s)
    /\ cached' = None
    /\ UNCHANGED <<user, host, fails>>

\* removeUnusedPuoids()
RemoveUnusedPuoids(t) == [t EXCEPT !.puoids = Without(@, {p \in DOMAIN @ : p \notin DOMAIN t.paths})]

\* populateObjectReferences(), of files
PopulateReferences(t) ==
    LET files(x) == {h \in DOMAIN t.items \ {Root} : ~t.items[h].dir /\ t.items[h].puoid = x}
        of(h) == {r \in saved.refs : h \in files(r.of)}
    IN  [t EXCEPT !.refs = [h \in {k \in DOMAIN t.items : of(k) # {}} |->
                              LET r == CHOOSE r \in of(h) : TRUE
                              IN  {CHOOSE k \in files(x) : TRUE : x \in {y \in r.to : files(y) # {}}}]]

RootItem == [path |-> <<>>, dir |-> TRUE, wd |-> -1, parent |-> Root, puoid |-> 0]

\* Mutant: the puoids not in use are removed before the files are enumerated.
EnumeratedLast(t) ==
    LET loaded == [t EXCEPT !.puoid = saved.puoid, !.puoids = saved.puoids,
                            !.items = [h \in {Root} |-> RootItem], !.paths = [p \in {<<>>} |-> Root]]
    IN  PopulateReferences(AddPaths(AddWatches(RemoveUnusedPuoids(loaded), {Root}), DOMAIN t.disk))

\* populatePuoids() and enumerateStorage_worker()
Enumerated(t) ==
    LET loaded == [t EXCEPT !.puoid = saved.puoid, !.puoids = saved.puoids,
                            !.items = [h \in {Root} |-> RootItem], !.paths = [p \in {<<>>} |-> Root]]
    IN  PopulateReferences(RemoveUnusedPuoids(AddPaths(AddWatches(loaded, {Root}), DOMAIN t.disk)))

Start ==
    /\ ~up /\ up' = TRUE
    /\ s' = Enumerated(s)
    /\ UNCHANGED <<cached, saved, before>> /\ UNCHANGED budget

-----------------------------------------------------------------------------
\* The disk with the entries E, their inodes numbered
DiskOf(E) ==
    LET order == SetToSeq(E)
    IN  [p \in {e.path : e \in E} |->
            LET i == CHOOSE i \in DOMAIN order : order[i].path = p IN [ino |-> i, dir |-> order[i].dir]]

Nothing == [disk |-> <<>>, watch |-> <<>>, queue |-> <<>>, ino |-> 1, wd |-> 1, cookie |-> 1,
            items |-> <<>>, paths |-> <<>>, wds |-> <<>>, puoids |-> <<>>, refs |-> <<>>,
            handle |-> 0, puoid |-> 0, lost |-> {}]

Init ==
    /\ saved = [puoid |-> 0, puoids |-> <<>>, refs |-> {}]
    /\ \E E \in Disks : s = [Nothing EXCEPT !.disk = DiskOf(E), !.ino = Cardinality(E) + 1]
    /\ cached = None /\ up = FALSE /\ before = {}
    /\ user = 0 /\ host = 0 /\ fails = 0 /\ restarts = 0

User ==
    \/ \E p \in NewPaths : \E dir \in BOOLEAN : UserCreates(p, dir)
    \/ \E p \in DOMAIN s.disk : \/ UserDeletes(p) \/ UserMovesAway(p)
                               \/ \E r \in NewPaths : UserRenames(p, r)

Host ==
    \E h \in DOMAIN s.items :
        \/ \E n \in NewNames : HostRenames(h, n) \/ \E dir \in BOOLEAN : HostAdds(h, n, dir)
        \/ HostDeletes(h)
        \/ \E g \in DOMAIN s.items : HostMoves(h, g) \/ HostCopies(h, g)
        \/ \E R \in SUBSET {k \in DOMAIN s.items : ~s.items[k].dir} : HostSetsReferences(h, R)

Next ==
    \/ InotifyEvent
    \/ User
    \/ up /\ (Host \/ HostDeletesAll \/ \E h \in DOMAIN s.refs : HostGetsReferences(h))
    \/ \E clean \in BOOLEAN : Stop(clean)
    \/ Start

Spec == Init /\ [][Next]_vars

-----------------------------------------------------------------------------
(* Properties. *)

\* Whatever events and operations interleave, the handles, the paths, the parents
\* and the watches of the plugin describe one tree: no item is reachable by a
\* path or a watch that is not its own, and none is lost to them.  A move over
\* an item whose file has gone, unknown to the plugin, is the exception.  A watch may
\* lead to a handle without an item, but only one that removeFromStorage() left behind
\* because its item was no folder any more.
MapsAgree ==
    {"displaced", "cycle"} \cap s.lost = {} =>
        /\ DOMAIN s.paths = {s.items[h].path : h \in DOMAIN s.items}
        /\ \A h \in DOMAIN s.items : s.paths[s.items[h].path] = h
        /\ \A h \in DOMAIN s.items \ {Root} : /\ s.items[h].parent \in DOMAIN s.items
                                              /\ s.items[s.items[h].parent].path = Front(s.items[h].path)
        /\ \A w \in DOMAIN s.wds : IF s.wds[w] \in DOMAIN s.items THEN s.items[s.wds[w]].wd = w
                                   ELSE "stale" \in s.lost

\* Once all notifications are handled the tree is what is on the disk, and every
\* folder is watched, unless one of the causes of "lost" has happened since the
\* daemon started: these are all the ways to an initiator that sees what is not there.
TreeIsDisk ==
    (up /\ s.queue = <<>> /\ cached = None /\ s.lost = {}) =>
        /\ DOMAIN s.paths = DOMAIN s.disk \cup {<<>>}
        /\ \A h \in DOMAIN s.items : InStep(s, h)

\* For IdentityKept: what a start gives back to the objects there were at the stop.
IdentitiesReturn ==
    LET kept == {b \in before : ~IsWide(b.path) /\ b.path \in DOMAIN s.disk /\ s.disk[b.path].ino = b.ino}
        handle(b) == s'.paths[b.path]
        own == {b \in kept : \A h \in DOMAIN s'.items \ {handle(b)} : s'.items[h].puoid # b.puoid}
    IN  /\ \A b \in kept : s'.items[handle(b)].puoid = b.puoid
        /\ \A b \in own : b.refs \cap {c.ino : c \in own} # {} =>
               /\ handle(b) \in DOMAIN s'.refs
               /\ {c \in own : c.ino \in b.refs} = {c \in own : handle(c) \in s'.refs[handle(b)]}

\* An object keeps its persistent identifier over a clean restart, whatever the user
\* did to other files meanwhile, if it was not moved: m_puoidsMap still has its identifier
\* at its path.  It keeps its references to such objects, too.  Objects whose identifier
\* another one has got are the exception: an object that was moved leaves its identifier
\* in m_puoidsMap for whatever comes to its old path.  So are those whose path is not ASCII:
\* storePuoids() cuts it.
IdentityKept == [][Start => IdentitiesReturn]_vars

\* The plugin answers what it is told about the disk with its own operations on the
\* tree, some of which also delete from the disk: an event, late as it may be, never
\* deletes a file that the user has made at the same place since.  The exception is a file
\* at the path of an item that has contents in the tree but is no folder any more:
\* deleteItemHelper() of the contents deletes it with QFile::remove().
EventsDeleteNoFile ==
    [][InotifyEvent => \A p \in DOMAIN s.disk \ DOMAIN s'.disk :
           s.disk[p].dir \/ \E h \in DOMAIN s.items : s.items[h].path = p /\ ~s.items[h].dir /\ Kids(s, h) # {}]_vars

\* After a rename by the initiator all folders that have a new path are watched.
RenamedAreWatched ==
    [][\A h \in DOMAIN s.items, n \in Names :
           up /\ HostRenames(h, n) => \A k \in Subtree(s', h) : Watched(s', k)]_vars
=============================================================================
