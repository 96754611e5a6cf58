----------------------------- MODULE ShareFiles -----------------------------
(***************************************************************************)
(* What the requests to a shared folder do to its files                    *)
(* (blaktaild/src/share.rs: handle_client and the serve_* functions;       *)
(* drive.rs: the folder browser that forwards them).                       *)
(*                                                                         *)
(* Every connection is a task of its own and nothing locks the folder, so  *)
(* the calls of two requests to the file system interleave.  A file name   *)
(* leads to an inode; an upload fills the inode behind a temporary name    *)
(* and renames it, and a request that still holds the inode open writes to *)
(* it under whatever name it has by then.                                  *)
(***************************************************************************)
EXTENDS Naturals, FiniteSets

CONSTANTS
    Uploads,    \* the requests
    Items,      \* the paths below the share's root
    Parent,     \* [Items -> the item a path lies in, or Root]
    Part,       \* [Items -> the item with the extension blaktail-partial]
    Links,      \* items that are symbolic links to a folder elsewhere
    Root,       \* the share's own folder
    Gone,       \* no inode
    Old,        \* the inode of a file the folder held from the start
    Outside,    \* the inodes of the files the links lead to
    Hangups     \* whether a client may close before its body is complete

ASSUME ShareFilesAssumption ==
    /\ Hangups \subseteq BOOLEAN
    /\ Root \notin Items /\ Links \subseteq Items
    \* a temporary name lies beside its file, and no link has one
    /\ \A i \in Items : /\ Parent[i] \in Items \cup {Root}
                         /\ Part[i] \in Items \ Links
                         /\ Parent[Part[i]] = Parent[i]
    \* what a link leads to is files, nothing lies below them
    /\ \A i \in Items : Parent[i] \in Items => Parent[Parent[i]] \notin Links
    /\ \A special \in {Gone, Old, Outside, "dir"} : special \notin Uploads
    /\ Gone # Old /\ Gone # Outside /\ Gone # "dir"
    /\ Old # Outside /\ Old # "dir" /\ Outside # "dir"

VARIABLES
    tree,       \* [Items -> an inode, "dir" or Gone]
    bytes,      \* [inodes -> whose body is in it, and whether all of it]
    asked,      \* [Uploads -> the request and where its handler stands]
    shared      \* the inodes of a body cut short, or of uploads that met: one
                \* wrote the other's inode, or gave it the name of its own file

fileVars == <<tree, bytes, asked, shared>>

Folder == "dir"
Quiet == [at |-> "quiet", method |-> "GET", path |-> Root, to |-> Root, ro |-> TRUE,
          whole |-> TRUE, inode |-> Gone]

-----------------------------------------------------------------------------
(* Finding the target *)

Exists(i) == tree[i] # Gone

\* canonicalize(parent) stays below the root.
InsideParent(i) ==
    Parent[i] # Root => tree[Parent[i]] = Folder /\ Parent[i] \notin Links

\* child_paths() and resolve_put_path(): the parent exists below the root and
\* an existing target does not lead out of it.
child_paths(i) == InsideParent(i) /\ (Exists(i) => i \notin Links)

IsDir(i) == tree[i] = Folder
Children(i) == {c \in Items : Parent[c] = i /\ Exists(c)}

-----------------------------------------------------------------------------
\* Clients do not name the agent's temporary files themselves.
Temporaries == {Part[i] : i \in Items}

(* A request arrives, its view of the share already decided by the gate *)

Writing == {"PUT", "MKCOL", "DELETE", "MOVE"}
Methods == Writing \cup {"GET", "PROPFIND"}

Step(u, at) == asked' = [asked EXCEPT ![u].at = at]
Answer(u) == asked' = [asked EXCEPT ![u] = [Quiet EXCEPT !.at = "done", !.method = asked[u].method]]

\* What a client may ask, and the mode its gate gives it there.
Request == [at : {"check"}, method : Methods, path : Items \ Temporaries,
            to : Items \ Temporaries, ro : BOOLEAN, whole : {~cut : cut \in Hangups},
            inode : {Gone}]

Arrive(u) ==
    /\ asked[u] = Quiet
    /\ \E r \in Request :
          /\ r.method = "MOVE" \/ r.to = r.path
          /\ asked' = [asked EXCEPT ![u] = r]
    /\ UNCHANGED <<tree, bytes, shared>>

\* Through the folder browser: the catalogue's mode refuses a write first, a
\* peer that is away is answered 502, anything else goes on to the listener.
Forward(u) ==
    /\ asked[u] = Quiet
    /\ \E r \in Request, ro \in BOOLEAN, away \in BOOLEAN :
          /\ r.method = "MOVE" \/ r.to = r.path
          /\ asked' = [asked EXCEPT ![u] =
                IF away \/ (ro /\ r.method \in Writing)
                THEN [Quiet EXCEPT !.at = "done", !.method = r.method] ELSE r]
    /\ UNCHANGED <<tree, bytes, shared>>

\* The checks every writing method makes before it touches a file.
Forbidden(r) ==
    \/ r.ro
    \/ ~child_paths(r.path)
    \/ r.method = "PUT" /\ IsDir(r.path)
    \/ r.method = "MKCOL" /\ Exists(r.path)
    \/ r.method \in {"DELETE", "MOVE"} /\ ~Exists(r.path)
    \/ r.method = "DELETE" /\ IsDir(r.path) /\ Children(r.path) # {}
    \/ r.method = "MOVE" /\ (~child_paths(r.to) \/ IsDir(r.to))

Check(u) ==
    LET r == asked[u]
    IN  /\ r.at = "check"
        /\ r.method \in Writing
        /\ IF Forbidden(r) THEN Answer(u)
           ELSE Step(u, CASE r.method = "PUT" -> "create"
                          [] r.method = "MKCOL" -> "mkdir"
                          [] r.method = "DELETE" -> "remove"
                          [] r.method = "MOVE" -> IF Exists(r.to) THEN "unlink" ELSE "move")
        /\ UNCHANGED <<tree, bytes, shared>>

(* Mutant: the body is written to the file's own name.                     *)
CreateInPlace(u) ==
    LET r == asked[u]
        inode == IF Exists(r.path) THEN tree[r.path] ELSE u
    IN  /\ r.at = "create"
        /\ tree' = [tree EXCEPT ![r.path] = inode]
        /\ bytes' = [bytes EXCEPT ![inode] = [by |-> u, whole |-> FALSE]]
        /\ asked' = [asked EXCEPT ![u].at = "write", ![u].inode = inode]
        /\ UNCHANGED shared

\* resolve_request(): the file or the folder a GET or PROPFIND is answered
\* from, if its canonical path is below the root.
resolve_request(i) == IF InsideParent(i) /\ i \notin Links THEN tree[i] ELSE Gone

Read(u) ==
    LET r == asked[u]
    IN  /\ r.at = "check" /\ r.method \notin Writing
        /\ asked' = [asked EXCEPT ![u].at = "done", ![u].inode = resolve_request(r.path)]
        /\ UNCHANGED <<tree, bytes, shared>>

\* File::create() on the temporary name truncates a file that is there.
Create(u) ==
    LET r == asked[u]
        temporary == Part[r.path]
        taken == Exists(temporary)
        inode == IF taken THEN tree[temporary] ELSE u
    IN  /\ r.at = "create"
        /\ IF ~InsideParent(r.path) \/ tree[temporary] = Folder
           THEN Answer(u) /\ UNCHANGED <<tree, bytes, shared>>
           ELSE /\ tree' = [tree EXCEPT ![temporary] = inode]
                /\ bytes' = [bytes EXCEPT ![inode] = [by |-> u, whole |-> FALSE]]
                /\ asked' = [asked EXCEPT ![u].at = "write", ![u].inode = inode]
                /\ shared' = IF taken \/ ~r.whole THEN shared \cup {inode} ELSE shared

\* write_all() and sync_all(): over another upload's bytes the longer body
\* shows through the shorter one.
Write(u) ==
    LET r == asked[u]
        before == bytes[r.inode]
    IN  /\ r.at = "write"
        /\ \E whole \in IF before.by = u THEN {r.whole} ELSE {r.whole, FALSE} :
              bytes' = [bytes EXCEPT ![r.inode] = [by |-> u, whole |-> whole]]
        /\ Step(u, "rename")
        /\ UNCHANGED <<tree, shared>>

\* rename() takes whatever the temporary name leads to by now: another
\* upload's inode, when a third has renamed this one's.
Rename_(u) ==
    LET r == asked[u]
        temporary == Part[r.path]
    IN  /\ r.at = "rename"
        /\ Answer(u)
        /\ IF Exists(temporary) /\ InsideParent(r.path) /\ ~IsDir(r.path)
           THEN /\ tree' = [tree EXCEPT ![r.path] = tree[temporary], ![temporary] = Gone]
                /\ shared' = shared \cup ({tree[temporary]} \ {r.inode})
           ELSE UNCHANGED <<tree, shared>>
        /\ UNCHANGED bytes

-----------------------------------------------------------------------------
(* The other methods: the check, then each call to the file system *)

MakeFolder(u) ==
    LET r == asked[u]
    IN  /\ r.at = "mkdir"
        /\ tree' = IF Exists(r.path) \/ ~InsideParent(r.path) THEN tree
                   ELSE [tree EXCEPT ![r.path] = Folder]
        /\ Answer(u)
        /\ UNCHANGED <<bytes, shared>>

\* remove_dir() fails on a folder that is no longer empty.
RemovePath(u) ==
    LET r == asked[u]
    IN  /\ r.at = "remove"
        /\ tree' = IF IsDir(r.path) /\ Children(r.path) # {} THEN tree
                   ELSE [tree EXCEPT ![r.path] = Gone]
        /\ Answer(u)
        /\ UNCHANGED <<bytes, shared>>

\* serve_move() removes what it replaces before it renames.
Unlink(u) ==
    LET r == asked[u]
    IN  /\ r.at = "unlink"
        /\ IF ~Exists(r.to) \/ IsDir(r.to)
           THEN Answer(u) /\ UNCHANGED tree
           ELSE Step(u, "move") /\ tree' = [tree EXCEPT ![r.to] = Gone]
        /\ UNCHANGED <<bytes, shared>>

Below(i) == {c \in Items : Parent[c] = i}

\* rename(): a folder takes what is in it along.  The model's tree is too
\* shallow for a folder to move with its files, so it moves when it is empty.
Move(u) ==
    LET r == asked[u]
        fits == /\ Exists(r.path) /\ InsideParent(r.to) /\ r.path # r.to
                /\ IsDir(r.path) => Children(r.path) = {} /\ ~Exists(r.to)
                /\ ~IsDir(r.path) => ~IsDir(r.to)
                /\ r.to \notin Below(r.path)
    IN  /\ r.at = "move"
        /\ tree' = IF fits THEN [tree EXCEPT ![r.to] = tree[r.path], ![r.path] = Gone]
                   ELSE tree
        /\ Answer(u)
        /\ UNCHANGED <<bytes, shared>>

-----------------------------------------------------------------------------
FilesInit ==
    /\ \E made \in SUBSET {i \in Items : Below(i) # {}}, kept \in Items \ Temporaries :
          /\ Links \subseteq made
          /\ kept \notin made /\ Parent[kept] \in (made \ Links) \cup {Root}
          /\ tree = [i \in Items |-> IF i \in made THEN Folder
                                    ELSE IF i = kept THEN Old
                                    ELSE IF Parent[i] \in Links /\ i \notin Temporaries
                                         THEN Outside ELSE Gone]
    /\ bytes = [u \in Uploads \cup {Old, Outside} |-> [by |-> u, whole |-> u \notin Uploads]]
    /\ asked = [u \in Uploads |-> Quiet]
    /\ shared = {}

FilesNext == \E u \in Uploads :
    \/ Arrive(u) \/ Forward(u) \/ Check(u) \/ Read(u) \/ Create(u) \/ Write(u) \/ Rename_(u)
    \/ MakeFolder(u) \/ RemovePath(u) \/ Unlink(u) \/ Move(u)

FilesSpec == FilesInit /\ [][FilesNext]_fileVars

-----------------------------------------------------------------------------
(* Properties *)

\* No request creates, replaces, removes or reads anything in a folder a link
\* in the share leads to: the checks of child_paths() and resolve_put_path()
\* are made before the calls, and hold across the other requests' calls in
\* between.
NothingBeyondLinks ==
    /\ \A i \in Items : Parent[i] \in Links =>
          tree[i] = IF i \in Temporaries THEN Gone ELSE Outside
    /\ \A i \in Items : Parent[i] \notin Links => tree[i] # Outside
    /\ \A u \in Uploads : asked[u].inode # Outside

\* A file under a name of its own is a whole upload, whatever the other
\* requests do, except where two uploads met on one temporary name or a
\* client closed early (serve_put fills a temporary file and renames it).
TornOnlyWhenShared ==
    \A i \in Items \ Temporaries :
        tree[i] \notin {Gone, Folder} \cup shared => bytes[tree[i]].whole

(* Requests stay inside the share and leave whole files.                   *)
FilesInv == NothingBeyondLinks /\ TornOnlyWhenShared
=============================================================================
