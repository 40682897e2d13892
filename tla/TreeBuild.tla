----------------------------- MODULE TreeBuild -----------------------------
(***************************************************************************)
(* From the workers' results to the tree of a version and back: RunBackup  *)
(* gathers the results as they come, adds directories and then files to a  *)
(* tree in the order of its maps, which is any, and hashes it bottom-up    *)
(* (tsync/backup.go); walkTree (tsync/restore.go) resolves the tree, from  *)
(* which nodes may have been lost.  A path is a sequence of names; a node  *)
(* is its own hash.                                                        *)
(***************************************************************************)
EXTENDS Naturals, Sequences, FiniteSets

CONSTANTS Paths,         \* the paths a source may have
          FileKeys,      \* the keys of file contents
          MaxEntries,    \* bound: entries of a source
          MaxDepth       \* bound: names in a path

VARIABLES entries,       \* the source's entries
          pending,       \* entries whose result is not gathered
          newPathToFileKey, dirPaths,  \* what was gathered
          subdirs,       \* the directories of rootNode
          leaves,        \* its files
          todo,          \* paths not yet added to it
          trees,         \* the nodes in the store
          lost,          \* history: nodes the store lost
          stage,         \* how far it is
          walk           \* what walkTree returned

gathered == <<newPathToFileKey, dirPaths>>
node == <<subdirs, leaves, todo>>
vars == <<entries, pending, gathered, node, trees, lost, stage, walk>>

NoKey == 0
Empty == <<>>            \* the function on no paths

\* A walk that found nothing.
Nothing == [err |-> FALSE, files |-> Empty, dirs |-> {}]

Entry == [path : Paths, dir : {TRUE}, key : {NoKey}] \cup [path : Paths, dir : {FALSE}, key : FileKeys]

Init == /\ entries \in {E \in SUBSET Entry : Cardinality(E) <= MaxEntries}
        /\ pending = entries
        /\ newPathToFileKey = Empty
        /\ dirPaths = {}
        /\ subdirs = {}
        /\ leaves = Empty
        /\ todo = {}
        /\ trees = {}
        /\ lost = {}
        /\ stage = "gather"
        /\ walk = Nothing

\* f with f[x] = v.
With(f, x, v) == [y \in DOMAIN f \cup {x} |-> IF y = x THEN v ELSE f[y]]

\* The directories a path is in.
Parents(p) == {SubSeq(p, 1, n) : n \in 1..(Len(p) - 1)}

-----------------------------------------------------------------------------
(* RunBackup. *)

\* One result; a path that was there before gets the later one's key.
Gather(e) ==
    /\ stage = "gather"
    /\ e \in pending
    /\ pending' = pending \ {e}
    /\ IF e.dir THEN /\ dirPaths' = dirPaths \cup {e.path}
                     /\ UNCHANGED newPathToFileKey
                ELSE /\ newPathToFileKey' = With(newPathToFileKey, e.path, e.key)
                     /\ UNCHANGED dirPaths
    /\ UNCHANGED <<entries, node, trees, lost, stage, walk>>

StartTree ==
    /\ stage = "gather"
    /\ pending = {}
    /\ stage' = "tree"
    /\ subdirs' = dirPaths \cup UNION {Parents(d) : d \in dirPaths}
    /\ todo' = DOMAIN newPathToFileKey
    /\ UNCHANGED <<entries, pending, gathered, leaves, trees, lost, walk>>

DirsOnly(p) == p \in subdirs                \* mutant: a file above is not noticed

\* A directory is where the file is to go, or a file where a directory of its path is.
Collision(p) == p \in subdirs \/ Parents(p) \cap DOMAIN leaves # {}

AddFile(p) ==
    /\ stage = "tree"
    /\ p \in todo
    /\ ~ Collision(p)
    /\ subdirs' = subdirs \cup Parents(p)
    /\ leaves' = With(leaves, p, newPathToFileKey[p])
    /\ todo' = todo \ {p}
    /\ UNCHANGED <<entries, pending, gathered, trees, lost, stage, walk>>

\* ErrPathCollision
Collide(p) ==
    /\ stage = "tree"
    /\ p \in todo
    /\ Collision(p)
    /\ stage' = "collision"
    /\ UNCHANGED <<entries, pending, gathered, node, trees, lost, walk>>

Dirs == subdirs \cup {<<>>}

\* p is in the directory d.
In(p, d) == Len(p) = Len(d) + 1 /\ SubSeq(p, 1, Len(d)) = d

\* buildAndHash of each directory: names with the file's key or the node below.
BuildAndHash[d \in Dirs] ==
    {[name |-> p[Len(p)], key |-> leaves[p], sub |-> {}] : p \in {q \in DOMAIN leaves : In(q, d)}} \cup
    {[name |-> p[Len(p)], key |-> NoKey, sub |-> BuildAndHash[p]] : p \in {q \in subdirs : In(q, d)}}

HashTree ==
    /\ stage = "tree"
    /\ todo = {}
    /\ trees' = {BuildAndHash[d] : d \in Dirs}
    /\ stage' = "stored"
    /\ UNCHANGED <<entries, pending, gathered, node, lost, walk>>

-----------------------------------------------------------------------------
(* External: nodes get lost. *)

Lose(n) ==
    /\ stage = "stored"
    /\ n \in trees
    /\ lost = {}
    /\ lost' = {n}
    /\ trees' = trees \ {n}
    /\ UNCHANGED <<entries, pending, gathered, node, stage, walk>>

-----------------------------------------------------------------------------
(* walkTree. *)

\* The calls of walkTree on directories that many names deep: nodes and their paths.
Calls[depth \in 0..MaxDepth] ==
    IF depth = 0 THEN {<<BuildAndHash[<<>>], <<>>>>}
    ELSE UNION {{<<e.sub, Append(c[2], e.name)>> : e \in {f \in c[1] : f.key = NoKey}} :
                    c \in {b \in Calls[depth - 1] : b[1] \in trees}}

\* A missing node is an error, or passed over; an empty one is an empty directory; otherwise
\* its files are found, and what is below.
WalkTree(skipValidationErrors) ==
    LET calls == UNION {Calls[depth] : depth \in 0..MaxDepth}
        found == {c \in calls : c[1] \in trees}
        files == UNION {{<<Append(c[2], e.name), e.key>> : e \in {f \in c[1] : f.key # NoKey}} :
                            c \in found}
    IN  [err   |-> calls # found /\ ~ skipValidationErrors,
         files |-> [p \in {f[1] : f \in files} |-> (CHOOSE f \in files : f[1] = p)[2]],
         dirs  |-> {c[2] : c \in {b \in found : b[1] = {} /\ b[2] # <<>>}}]

\* ResolveVersionTree, for a version whose root is the tree's.
ResolveVersionTree(skipValidationErrors) ==
    /\ stage = "stored"
    /\ walk' = WalkTree(skipValidationErrors)
    /\ stage' = IF skipValidationErrors THEN "skimmed" ELSE "resolved"
    /\ UNCHANGED <<entries, pending, gathered, node, trees, lost>>

Ended == stage \in {"collision", "resolved", "skimmed"} /\ UNCHANGED vars

Next == \/ \E e \in entries : Gather(e)
        \/ StartTree
        \/ \E p \in Paths : AddFile(p) \/ Collide(p)
        \/ HashTree
        \/ \E n \in trees : Lose(n)
        \/ \E skip \in BOOLEAN : ResolveVersionTree(skip)
        \/ Ended

Spec == Init /\ [][Next]_vars

-----------------------------------------------------------------------------
(* Properties. *)

FileEntries == {e \in entries : ~ e.dir}

\* One name for a file and for something else.
Collides == \E e \in FileEntries, f \in entries :
                e.path \in Parents(f.path) \/ (f.dir /\ f.path = e.path)

\* Directories with nothing in them.
EmptyDirs == {e.path : e \in {d \in entries : d.dir /\ \A f \in entries : d.path \notin Parents(f.path)}}

\* Whether p's tree is there down to its directory.
Reached(p) == \A n \in 0..(Len(p) - 1) : BuildAndHash[SubSeq(p, 1, n)] \notin lost

\* Whatever the order of results and of maps, a source in which a file has the name of a
\* directory is refused, and any other is stored so that restoring finds exactly its files,
\* each with the key of one of its entries, and its empty directories; if a node is lost,
\* also one that several directories share, restoring fails, or with SkipValidationErrors
\* finds all that is not below it.
TreeExact ==
    /\ stage = "collision" => Collides
    /\ stage \in {"resolved", "skimmed"} => ~ Collides
    /\ stage = "resolved" => (walk.err <=> lost # {})
    /\ stage = "skimmed" \/ (stage = "resolved" /\ lost = {}) =>
          /\ ~ walk.err
          /\ DOMAIN walk.files = {p \in {e.path : e \in FileEntries} : Reached(p)}
          /\ \A p \in DOMAIN walk.files : \E e \in FileEntries : e.path = p /\ e.key = walk.files[p]
          /\ walk.dirs = {d \in EmptyDirs : Reached(d) /\ {} \notin lost}
=============================================================================
