------------------------------ MODULE SolonFs ------------------------------
(***************************************************************************)
(* A Windows folder as a container sees it: the FUSE file system of the    *)
(* agent (crates/solon-agent/src/solonfs.rs), the protocol                 *)
(* (crates/solon-core/src/fs.rs) and the file server of the service        *)
(* (crates/solon-service/src/fileserver.rs).                               *)
(*                                                                         *)
(* The folders a and b of a shared drive each hold at most one file, x.    *)
(* Windows does not tell x from X; the container uses both for the file    *)
(* in a.  A file of Windows is an object with a size, one of two that      *)
(* every write changes.  The session loop of a mount serves one operation  *)
(* at a time, so that an operation is one step, with what it does on the   *)
(* host in it.                                                             *)
(***************************************************************************)
EXTENDS Naturals, Sequences, FiniteSets

CONSTANT MaxIno  \* bound: inode numbers

VARIABLES
    tab,     \* inodes, by_path and next_ino of SolonFs
    attrs,   \* cached sizes that are younger than CACHE_TTL, Stale for the others
    dirs,    \* cached lists of a and b: fresh or not, and with x or not
    disk,    \* host: path -> object, 0 when there is none; 1 for a folder
    size,    \* host: object -> size
    handle,  \* the file that a process of the container has open: inode, object
    moved,   \* history: a folder was renamed, or the open file removed under its path
    trouble  \* history: a change was not the container's, its answer was lost,
             \* or it failed half way

tables == <<tab, attrs, dirs>>
host == <<disk, size>>
vars == <<tables, host, handle, moved, trouble>>

Folder == {"a", "b"}
Name == {"x", "X"}
Path == {<<>>} \cup {<<d>> : d \in Folder} \cup {<<"a", n>> : n \in Name} \cup {<<"b", "x">>}
DiskFile == {<<d, "x">> : d \in Folder}
DiskPath == {<<d>> : d \in Folder} \cup DiskFile
NoPath == <<"none">>
Ino == 1..MaxIno
Object == 1..3   \* two files and an open one that was removed
Stale == 2

Fold(p) == IF Len(p) = 2 THEN <<p[1], "x">> ELSE p
IsFile(p) == Len(p) = 2

TypeOK ==
    /\ tab \in [inodes : [Ino -> Path \cup {NoPath}], by_path : [Path -> 0..MaxIno],
                next : 2..(MaxIno + 1)]
    /\ attrs \in [Ino -> 0..Stale]
    /\ dirs \in [Folder -> {"old", "empty", "full"}]
    /\ disk \in [DiskPath -> Object \cup {0}] /\ size \in [Object -> 0..1]
    /\ handle \in [ino : 0..MaxIno, obj : Object \cup {0}]
    /\ moved \in BOOLEAN /\ trouble \in BOOLEAN

(* A mount whose two folders were looked up.                               *)
Init ==
    /\ tab = [inodes |-> [i \in Ino |-> CASE i = 1 -> <<>> [] i = 2 -> <<"a">> [] i = 3 -> <<"b">>
                                          [] OTHER -> NoPath],
              by_path |-> [p \in Path |-> CASE p = <<>> -> 1 [] p = <<"a">> -> 2 [] p = <<"b">> -> 3
                                          [] OTHER -> 0],
              next |-> 4]
    /\ attrs = [i \in Ino |-> Stale] /\ dirs = [d \in Folder |-> "old"]
    /\ disk = [p \in DiskPath |-> IF IsFile(p) THEN 0 ELSE 1]
    /\ size = [o \in Object |-> 0]
    /\ handle = [ino |-> 0, obj |-> 0]
    /\ moved = FALSE /\ trouble = FALSE

-----------------------------------------------------------------------------
(* ino_for: the inode of a path, a new one for a path that has none.       *)
InoFor(t, p) ==
    IF t.by_path[p] # 0 THEN t
    ELSE [inodes |-> [t.inodes EXCEPT ![t.next] = p],
          by_path |-> [t.by_path EXCEPT ![p] = t.next], next |-> t.next + 1]
Room(ps) == tab.next + Cardinality({p \in ps : tab.by_path[p] = 0}) <= MaxIno + 1

(* Two names of one file on Windows have two inodes here.                  *)
Aliased(t) == \A n \in Name : t.by_path[<<"a", n>>] # 0

(* A request names an inode, or a folder's inode and a name in it: the     *)
(* folders and the files that one can name by their paths.                 *)
Known(i) == tab.inodes[i] # NoPath
FileIno == {i \in Ino : Known(i) /\ IsFile(tab.inodes[i])}
HeldFolder == {d \in Folder : \E i \in Ino : tab.inodes[i] = <<d>>}
FilePath == {p \in Path : IsFile(p)}
NamedFile == {p \in FilePath : p[1] \in HeldFolder}

Troubled(b) == trouble' = (trouble \/ b)

(* remember, and forget_path, on the cached attributes.                    *)
Remember(i, s) == [attrs EXCEPT ![i] = s]
ForgetPath(i) == [attrs EXCEPT ![i] = Stale]

-----------------------------------------------------------------------------
(* The file server.  host_path finds the path on the drive; attr_of gives  *)
(* the size of what is there.                                              *)
Exists(p) == disk[Fold(p)] # 0
SizeAt(p) == size[disk[Fold(p)]]

(* Create and Mkdir.                                                       *)
HostMake(p) ==
    LET new == CHOOSE o \in Object : o # handle.obj /\ \A q \in DiskFile : disk[q] # o
    IN  IF IsFile(p)
        THEN disk' = [disk EXCEPT ![Fold(p)] = new] /\ size' = [size EXCEPT ![new] = 0]
        ELSE disk' = [disk EXCEPT ![p] = 1] /\ UNCHANGED size
(* Unlink and Rmdir; nobody sees the size of an object without a path.     *)
HostRemove(p) ==
    /\ disk' = [disk EXCEPT ![Fold(p)] = 0]
    /\ size' = IF IsFile(p) THEN [size EXCEPT ![disk[Fold(p)]] = 0] ELSE size
(* Write and Truncate open what is under the path.                         *)
HostWrite(p) ==
    size' = [size EXCEPT ![disk[Fold(p)]] = 1 - @] /\ UNCHANGED disk
(* Rename removes a file in the way before it renames; the file may be the *)
(* one to rename, under its other name.  The rename, or both, may fail for *)
(* another reason (a file is open in Windows).                             *)
(* Mutant: the source is removed too when the rename fails.                *)
HostRenameFileMoving(from, to, ok) ==
    /\ disk' = [disk EXCEPT ![Fold(from)] = 0, ![Fold(to)] = IF ok THEN disk[Fold(from)] ELSE 0]
    /\ UNCHANGED size
HostRenameFile(from, to, ok) ==
    LET removed == [disk EXCEPT ![Fold(to)] = 0] IN
    /\ ok => removed[Fold(from)] # 0
    /\ disk' \in IF ok THEN {[removed EXCEPT ![Fold(from)] = 0, ![Fold(to)] = disk[Fold(from)]]}
                      ELSE {removed, disk}
    /\ size' = [o \in Object |-> IF o = disk[Fold(to)] /\ disk' # disk THEN 0 ELSE size[o]]
HostRenameFolder(d, e) ==
    /\ disk' = [disk EXCEPT ![<<d>>] = 0, ![<<d, "x">>] = 0, ![<<e>>] = disk[<<d>>],
                            ![<<e, "x">>] = disk[<<d, "x">>]]
    /\ UNCHANGED size

-----------------------------------------------------------------------------
(* lookup of a folder, and of a file: a fresh attribute answers, a fresh   *)
(* list without the name refuses, and otherwise the host is asked.         *)
LookupFolder(d) ==
    /\ Room({<<d>>}) /\ tab' = InoFor(tab, <<d>>)
    /\ UNCHANGED <<attrs, dirs, host, handle, moved, trouble>>

Lookup(p) ==
    /\ Room({p})
    /\ LET t == InoFor(tab, p)
           i == t.by_path[p]
           asked == attrs[i] = Stale /\ dirs[p[1]] # "empty" /\ Exists(p) IN
       /\ tab' = t
       /\ attrs' = IF asked THEN Remember(i, SizeAt(p)) ELSE attrs
       /\ Troubled(Aliased(t))
    /\ UNCHANGED <<dirs, host, handle, moved>>

(* getattr: fetch_attr.                                                    *)
Getattr(i) ==
    /\ attrs[i] = Stale /\ Exists(tab.inodes[i])
    /\ attrs' = Remember(i, SizeAt(tab.inodes[i]))
    /\ UNCHANGED <<tab, dirs, host, handle, moved, trouble>>

(* readdir: fetch_dir brings the attributes of the files along.            *)
Readdir(d) ==
    /\ dirs[d] = "old" /\ Exists(<<d>>) /\ Room({<<d, "x">>})
    /\ LET p == <<d, "x">> IN
       IF Exists(p)
         THEN LET t == InoFor(tab, p) IN
              /\ tab' = t /\ attrs' = Remember(t.by_path[p], SizeAt(p))
              /\ dirs' = [dirs EXCEPT ![d] = "full"]
              /\ Troubled(Aliased(t))
         ELSE /\ dirs' = [dirs EXCEPT ![d] = "empty"]
              /\ UNCHANGED <<tab, attrs, trouble>>
    /\ UNCHANGED <<host, handle, moved>>

(* A process opens a file that its lookup found; open itself does nothing. *)
Open(i) ==
    /\ Exists(tab.inodes[i])
    /\ handle' = [ino |-> i, obj |-> disk[Fold(tab.inodes[i])]]
    /\ UNCHANGED <<tables, host, moved, trouble>>

(* read and write of the open file go to the path of its inode: to what is *)
(* there, 0 when nothing is.                                               *)
Reached == IF handle.ino = 0 \/ ~Known(handle.ino) THEN 0 ELSE disk[Fold(tab.inodes[handle.ino])]
(* write: the attributes are forgotten, unless the host failed half way or *)
(* its answer was lost.                                                    *)
(* Mutant: they never are.                                                 *)
WriteCached ==
    /\ Reached # 0 /\ HostWrite(tab.inodes[handle.ino])
    /\ UNCHANGED <<tables, handle, moved, trouble>>
Write ==
    /\ Reached # 0 /\ HostWrite(tab.inodes[handle.ino])
    /\ \/ attrs' = ForgetPath(handle.ino) /\ UNCHANGED trouble
       \/ Troubled(TRUE) /\ UNCHANGED attrs
    /\ UNCHANGED <<tab, dirs, handle, moved>>

(* setattr with a size: Truncate, and the attributes anew.                 *)
Setattr(i) ==
    /\ Exists(tab.inodes[i]) /\ HostWrite(tab.inodes[i])
    /\ \/ attrs' = Remember(i, 1 - SizeAt(tab.inodes[i])) /\ UNCHANGED trouble
       \/ Troubled(TRUE) /\ UNCHANGED attrs
    /\ UNCHANGED <<tab, dirs, handle, moved>>

(* create, and mkdir of a folder.                                          *)
Create(p) ==
    /\ Room({p}) /\ Exists(<<p[1]>>) /\ ~Exists(p)
    /\ HostMake(p)
    /\ LET t == InoFor(tab, p) IN
       /\ tab' = t
       /\ \/ /\ attrs' = Remember(t.by_path[p], 0)
             /\ dirs' = [dirs EXCEPT ![p[1]] = "old"] /\ Troubled(Aliased(t))
          \/ UNCHANGED <<attrs, dirs>> /\ Troubled(TRUE)
    /\ UNCHANGED <<handle, moved>>
Mkdir(d) ==
    /\ Room({<<d>>}) /\ ~Exists(<<d>>) /\ tab' = InoFor(tab, <<d>>)
    /\ HostMake(<<d>>)
    /\ UNCHANGED <<attrs, dirs, handle, moved, trouble>>

(* rmdir: the list of the folder that is gone is forgotten.                *)
Rmdir(d) ==
    /\ Room({<<d>>}) /\ Exists(<<d>>) /\ ~Exists(<<d, "x">>) /\ tab' = InoFor(tab, <<d>>)
    /\ HostRemove(<<d>>) /\ dirs' = [dirs EXCEPT ![d] = "old"]
    /\ UNCHANGED <<attrs, handle, moved, trouble>>

(* unlink: the inode keeps its path.                                       *)
(* Mutant: the list of the folder stays fresh.                             *)
UnlinkListed(p) ==
    /\ Room({p}) /\ Exists(p) /\ HostRemove(p)
    /\ LET t == InoFor(tab, p) IN
       tab' = t /\ Troubled(Aliased(t)) /\ attrs' = ForgetPath(t.by_path[p])
    /\ moved' = (moved \/ disk[Fold(p)] = handle.obj)
    /\ UNCHANGED <<dirs, handle>>
Unlink(p) ==
    /\ Room({p}) /\ Exists(p) /\ HostRemove(p)
    /\ LET t == InoFor(tab, p) IN
       /\ tab' = t
       /\ \/ /\ attrs' = ForgetPath(t.by_path[p])
             /\ dirs' = [dirs EXCEPT ![p[1]] = "old"] /\ Troubled(Aliased(t))
          \/ UNCHANGED <<attrs, dirs>> /\ Troubled(TRUE)
    /\ moved' = (moved \/ disk[Fold(p)] = handle.obj)
    /\ UNCHANGED handle

(* rename: the inode follows the file; those below a folder do not.        *)
(* Mutant: the path of the inode that is renamed is not updated.           *)
RenamedHalf(t, from, to) ==
    [t EXCEPT !.by_path = [@ EXCEPT ![from] = 0, ![to] = t.by_path[from]]]
Renamed(t, from, to) ==
    LET i == t.by_path[from]
        old == t.by_path[to] IN
    [t EXCEPT !.inodes = [k \in Ino |-> IF k = i THEN to ELSE IF k = old THEN NoPath ELSE @[k]],
              !.by_path = [@ EXCEPT ![from] = 0, ![to] = i]]

(* What rename does once it has the host's answer: the host succeeded, it  *)
(* failed, or it succeeded and the answer was lost.                        *)
RenameGuest(from, to, answer) ==
    LET t == InoFor(InoFor(tab, from), to) IN
    /\ Troubled(Aliased(t) \/ answer = "lost" \/ (answer = "error" /\ disk' # disk))
    /\ IF answer = "ok"
         THEN /\ tab' = Renamed(t, from, to)
              /\ attrs' = [attrs EXCEPT ![t.by_path[from]] = Stale, ![t.by_path[to]] = Stale]
              /\ dirs' = [d \in Folder |-> IF d \in {from[1], to[1]} /\ IsFile(from)
                                           THEN "old" ELSE dirs[d]]
         ELSE tab' = t /\ UNCHANGED <<attrs, dirs>>

RenameFile(from, to) ==
    /\ from # to /\ Room({from, to})
    /\ Exists(from) /\ Exists(<<to[1]>>)
    /\ \E answer \in {"ok", "error", "lost"} :
          /\ HostRenameFile(from, to, answer # "error")
          /\ RenameGuest(from, to, answer)
          /\ moved' = \/ moved
                      \/ answer = "error" /\ disk[Fold(to)] = handle.obj
                      \/ answer = "lost" /\ handle.obj # 0
    /\ UNCHANGED handle
RenameFolder(d, e) ==
    /\ d # e /\ Exists(<<d>>) /\ ~Exists(<<e>>) /\ Room({<<d>>, <<e>>})
    /\ HostRenameFolder(d, e) /\ RenameGuest(<<d>>, <<e>>, "ok")
    /\ moved' = TRUE
    /\ UNCHANGED handle

-----------------------------------------------------------------------------
(* The cache ages; a program of Windows writes a file.                     *)
Expire ==
    /\ attrs' = [i \in Ino |-> Stale] /\ dirs' = [d \in Folder |-> "old"]
    /\ <<attrs, dirs>> # <<attrs', dirs'>>
    /\ UNCHANGED <<tab, host, handle, moved, trouble>>
WindowsWrites(p) ==
    /\ Exists(p) /\ HostWrite(p) /\ Troubled(TRUE)
    /\ UNCHANGED <<tables, handle, moved>>

Next ==
    \/ Write \/ Expire
    \/ \E d \in Folder : LookupFolder(d) \/ Mkdir(d) \/ Rmdir(d) \/ \E e \in Folder : RenameFolder(d, e)
    \/ \E i \in FileIno : Getattr(i) \/ Setattr(i) \/ Open(i)
    \/ \E d \in HeldFolder : Readdir(d)
    \/ \E p \in NamedFile : Lookup(p) \/ Create(p) \/ Unlink(p) \/ \E q \in NamedFile : RenameFile(p, q)
    \/ \E p \in DiskFile : WindowsWrites(p)

Spec == Init /\ [][Next]_vars

-----------------------------------------------------------------------------
(* by_path and inodes agree: the inode that a path leads to has that path, *)
(* so that no operation on a path is sent for another (ino_for, rename).   *)
TablesAgree ==
    \A p \in Path : tab.by_path[p] # 0 =>
        tab.by_path[p] < tab.next /\ tab.inodes[tab.by_path[p]] = p

(* "The inode follows the file" (solonfs.rs, rename): what is read and     *)
(* written through an open file is that file.                              *)
OpenFileFollowed == Reached \in {0, handle.obj}

(* It is unless a folder was renamed around it, or it was removed and its  *)
(* name given to another file.                                             *)
OpenFileFollowedElse == ~moved => OpenFileFollowed

(* A size that the cache answers is the size of the file: every operation  *)
(* of the container that changes a file forgets what it must.              *)
CachedSizeCurrent ==
    ~trouble /\ ~moved =>
        \A i \in FileIno : attrs[i] # Stale =>
            Exists(tab.inodes[i]) /\ attrs[i] = SizeAt(tab.inodes[i])

(* A fresh list that refuses a name is right to.                           *)
FreshListCurrent ==
    ~trouble /\ ~moved =>
        \A d \in Folder : dirs[d] # "old" => (dirs[d] = "full") = Exists(<<d, "x">>)

(* The file at p is nowhere any more.                                      *)
Gone(p) == disk[p] # 0 /\ \A q \in DiskFile : disk'[q] # disk[p]

(* A file of Windows disappears only when the container unlinks it, or     *)
(* asks for a rename onto its name: no other operation destroys one.  The  *)
(* rename may have failed by then, or be that of the file itself to the    *)
(* other case of its name (FsRenames).                                     *)
FilesSurvive ==
    [][\A p \in DiskFile : Gone(p) =>
          \E to \in NamedFile :
             /\ Fold(to) = p
             /\ Unlink(to) \/ \E from \in NamedFile : RenameFile(from, to)]_disk
=============================================================================
