------------------------------- MODULE DirTree -------------------------------
(***************************************************************************)
(* The directory tree of a LUKSbox vault: inodes, directory entries,       *)
(* hardlink counts and the canonical parent of each inode, changed by      *)
(* mkdir, create, symlink, link, unlink, rmdir, rename and chmod, saved    *)
(* whole by `Vfs::flush` after `validate_metadata_tree` has accepted it,   *)
(* and read back by `Vfs::open`, which validates it again.                 *)
(*                                                                         *)
(* The chunks of a file belong to its inode and are freed with it          *)
(* (ChunkStore!Unlink), so what matters here is which inode is dropped     *)
(* when.  Saves are atomic (VaultSpec), so a power loss or an unmount that *)
(* does not save is Reopen.  Sizes, times and symlink targets are left     *)
(* out; name validation is in the choice of Names.                         *)
(***************************************************************************)
EXTENDS Integers, FiniteSets

CONSTANTS
    MaxId,        \* bound: file ids explored
    Names,        \* names of directory entries
    MaxLinks,     \* u32::MAX, the largest link_count
    Modes,        \* permission bits ...
    DefaultMode,  \* ... and those a new inode has (default_mode_for_kind)
    CreateModes,  \* inputs of create_with_mode: permission bits
    ChmodIds,     \* inputs of chmod: file ids
    FreshFormat,  \* MetadataFormat::for_fresh_vault: "V2" or "V5"
    None

ROOT_ID == 1
Ids   == 1 .. MaxId
Kinds == {"Directory", "File", "Symlink"}

ASSUME TreeAssumption ==
    /\ MaxId \in Nat \ {0} /\ MaxLinks \in Nat \ {0}
    /\ IsFiniteSet(Names)
    /\ DefaultMode \in Modes /\ CreateModes \subseteq Modes /\ ChmodIds \subseteq Ids
    /\ FreshFormat \in {"V2", "V5"}
    /\ None \notin Ids

VARIABLES
    inodes,      \* tree.inodes; kind "none" where there is no inode
    nextFileId,  \* tree.next_file_id
    format,      \* the MetadataFormat the next save uses
    dirty,       \* the tree differs from the saved one
    saved,       \* what the last save wrote
    displaced    \* history: hardlinked files that lost, since the vault was
                 \* opened, their last name in their parent to a rename

vars == <<inodes, nextFileId, format, dirty, saved, displaced>>

-----------------------------------------------------------------------------
(* Trees *)

NoChildren == [n \in Names |-> None]
NoInode == [kind |-> "none", parent |-> ROOT_ID, links |-> 0,
            mode |-> DefaultMode, children |-> NoChildren]
NewInode(k, p, m) == [kind |-> k, parent |-> p, links |-> 1, mode |-> m,
                      children |-> NoChildren]

Live(t)   == {i \in Ids : t[i].kind # "none"}
IsDir(t, i) == i \in Ids /\ t[i].kind = "Directory"
\* The directory entries that name inode i.
Entries(t, i) == {e \in Ids \X Names : t[e[1]].children[e[2]] = i}
Holds(t, d, i) == \E n \in Names : t[d].children[n] = i

\* A set of inodes that contains all the children of its members.
Closed(t, D) == \A d \in D : \A n \in Names : t[d].children[n] \in D \cup {None}

\* Mutant: only a direct child counts.
IsDescendantOf_Shallow(t, r, c) == c = r \/ Holds(t, r, c)

\* is_descendant_of(root, candidate), or the root itself: c is in every
\* closed set that r is in.
IsDescendantOf(t, r, c) ==
    \A D \in SUBSET Ids : r \in D /\ Closed(t, D) => c \in D

\* directory_holding: the first one in the order of ids.
DirectoryHolding(t, i) ==
    CHOOSE d \in Ids : /\ IsDir(t, d) /\ Holds(t, d, i)
                       /\ \A e \in Ids : IsDir(t, e) /\ Holds(t, e, i) => d <= e

\* validate_metadata_tree, the part about inodes.
ValidInode(t, i) ==
    LET inode == t[i]
        count == Cardinality(Entries(t, i))
    IN /\ i # ROOT_ID => IsDir(t, inode.parent) /\ count # 0
       /\ \/ /\ inode.kind = "Directory"
             /\ inode.links = 1 /\ count <= 1
             /\ \A n \in Names : inode.children[n] \in (Live(t) \ {ROOT_ID}) \cup {None}
          \/ /\ inode.kind = "Symlink"
             /\ inode.children = NoChildren /\ inode.links = 1 /\ count = 1
          \/ /\ inode.kind = "File"
             /\ inode.children = NoChildren /\ inode.links # 0
             /\ count = inode.links
\* Its walk from the root reaches every inode.
Reachable(t) ==
    \A D \in SUBSET Live(t) : ROOT_ID \in D /\ Closed(t, D) => D = Live(t)
ValidTree(t, next) ==
    /\ IsDir(t, ROOT_ID) /\ t[ROOT_ID].parent = ROOT_ID
    /\ next > ROOT_ID
    /\ \A i \in Live(t) : i < next /\ ValidInode(t, i)
    /\ Reachable(t)

-----------------------------------------------------------------------------
(* Calls.  Each returns an error, and changes nothing, when not enabled. *)

\* alloc_file_id, insert the inode, insert the entry.
Add(p, n, inode) ==
    /\ IsDir(inodes, p)
    /\ inodes[p].children[n] = None
    /\ nextFileId \in Ids
    /\ nextFileId' = nextFileId + 1
    /\ inodes' = [inodes EXCEPT ![nextFileId] = inode,
                                ![p].children[n] = nextFileId]
    /\ dirty' = TRUE
    /\ UNCHANGED <<format, saved, displaced>>

Mkdir(p, n) == Add(p, n, NewInode("Directory", p, DefaultMode))
CreateWithMode(p, n, m) == Add(p, n, NewInode("File", p, m))
Symlink(p, n) == Add(p, n, NewInode("Symlink", p, DefaultMode))

\* Vfs::link: only files, and link_count must not overflow.
Link(i, p, n) ==
    /\ inodes[i].kind = "File" /\ inodes[i].links < MaxLinks
    /\ IsDir(inodes, p)
    /\ inodes[p].children[n] = None
    /\ inodes' = [inodes EXCEPT ![p].children[n] = i, ![i].links = @ + 1]
    /\ dirty' = TRUE
    /\ UNCHANGED <<nextFileId, format, saved, displaced>>

\* One name of inode i is gone: drop the inode with its last one.
DropName(t, i) ==
    IF t[i].links = 1 THEN [t EXCEPT ![i] = NoInode]
    ELSE [t EXCEPT ![i].links = @ - 1]

\* Mutant: the inode goes with its first name.
Unlink_DropsInode(p, n) ==
    LET i == inodes[p].children[n] IN
    /\ IsDir(inodes, p) /\ i # None /\ inodes[i].kind # "Directory"
    /\ inodes' = [inodes EXCEPT ![p].children[n] = None, ![i] = NoInode]
    /\ dirty' = TRUE
    /\ UNCHANGED <<nextFileId, format, saved, displaced>>

\* Vfs::unlink: a file that keeps other names adopts a directory that still
\* holds it, if it had the one it was unlinked from as parent.
Unlink(p, n) ==
    LET i == inodes[p].children[n]
        t == DropName([inodes EXCEPT ![p].children[n] = None], i)
    IN /\ IsDir(inodes, p) /\ i # None
       /\ inodes[i].kind # "Directory"
       /\ inodes' = IF t[i].kind # "none" /\ t[i].parent = p
                    THEN [t EXCEPT ![i].parent = DirectoryHolding(t, i)] ELSE t
       /\ dirty' = TRUE
       /\ UNCHANGED <<nextFileId, format, saved, displaced>>

Rmdir(p, n) ==
    LET i == inodes[p].children[n] IN
    /\ IsDir(inodes, p) /\ i # None
    /\ inodes[i].kind = "Directory" /\ inodes[i].children = NoChildren
    /\ inodes' = [inodes EXCEPT ![i] = NoInode, ![p].children[n] = None]
    /\ dirty' = TRUE
    /\ UNCHANGED <<nextFileId, format, saved, displaced>>

\* Vfs::rename, past its no-op cases (the same entry, or two names of one
\* inode).  A displaced target loses one name, as in unlink; a moved inode's
\* parent follows its entry.
Rename(p, n, q, m) ==
    LET src == inodes[p].children[n]
        dst == inodes[q].children[m]
        t   == IF dst = None THEN inodes ELSE DropName(inodes, dst)
        u   == [t EXCEPT ![p].children[n] = None]
        w   == [u EXCEPT ![q].children[m] = src]
    IN /\ IsDir(inodes, p) /\ IsDir(inodes, q)
       /\ src # None /\ src # dst
       /\ inodes[src].kind = "Directory" => ~IsDescendantOf(inodes, src, q)
       /\ dst # None =>
            IF inodes[src].kind = "Directory"
            THEN inodes[dst].kind = "Directory" /\ inodes[dst].children = NoChildren
            ELSE inodes[dst].kind # "Directory"
       /\ inodes' = IF p = q THEN w ELSE [w EXCEPT ![src].parent = q]
       /\ displaced' = IF /\ dst # None /\ t[dst].kind # "none"
                          /\ t[dst].parent = q /\ ~Holds(w, q, dst)
                       THEN displaced \cup {dst} ELSE displaced
       /\ dirty' = TRUE
       /\ UNCHANGED <<nextFileId, format, saved>>

Chmod(i, m) ==
    /\ inodes[i].kind # "none"
    /\ inodes' = [inodes EXCEPT ![i].mode = m]
    /\ dirty' = TRUE
    /\ UNCHANGED <<nextFileId, format, saved, displaced>>

-----------------------------------------------------------------------------
(* Save and open *)

\* Mutant: hardlinks do not count.
TreeNeedsV4Format_ModesOnly(t) ==
    \E i \in Live(t) : t[i].kind = "Symlink" \/ t[i].mode # DefaultMode

\* LBM2 has no field for link counts, permission bits and symlink targets.
TreeNeedsV4Format(t) ==
    \E i \in Live(t) : \/ t[i].links # 1 \/ t[i].kind = "Symlink"
                       \/ t[i].mode # DefaultMode

\* What reading back a tree saved in format f gives.  A symlink without its
\* target is refused ("broken" is no kind ValidInode knows).
Stored(t, f) ==
    IF f # "V2" THEN t
    ELSE [i \in Ids |->
            IF t[i].kind = "none" THEN t[i]
            ELSE [t[i] EXCEPT !.links = 1, !.mode = DefaultMode,
                              !.kind = IF @ = "Symlink" THEN "broken" ELSE @]]

\* Vfs::flush of a tree the validator accepts; the format is upgraded first
\* if the tree needs it.
Flush ==
    LET f == IF format = "V2" /\ TreeNeedsV4Format(inodes) THEN "V4" ELSE format
    IN /\ dirty
       /\ ValidTree(inodes, nextFileId)
       /\ format' = f
       /\ saved' = [inodes |-> Stored(inodes, f), next |-> nextFileId, format |-> f]
       /\ dirty' = FALSE
       /\ UNCHANGED <<inodes, nextFileId, displaced>>

\* repair_stale_parents
Repaired(t) ==
    [i \in Ids |->
        IF i \in Live(t) \ {ROOT_ID}
           /\ ~(IsDir(t, t[i].parent) /\ Holds(t, t[i].parent, i))
           /\ \E d \in Ids : IsDir(t, d) /\ Holds(t, d, i)
        THEN [t[i] EXCEPT !.parent = DirectoryHolding(t, i)] ELSE t[i]]

\* The session ends, saved or not, and Vfs::open reads the last save.
Reopen ==
    /\ ValidTree(saved.inodes, saved.next)
    /\ inodes' = Repaired(saved.inodes)
    /\ nextFileId' = saved.next
    /\ format' = saved.format
    /\ dirty' = FALSE
    /\ displaced' = {}
    /\ UNCHANGED saved

-----------------------------------------------------------------------------
\* DirectoryTree::new, saved once.
FreshTree == [i \in Ids |-> IF i = ROOT_ID
                            THEN NewInode("Directory", ROOT_ID, DefaultMode)
                            ELSE NoInode]
Init ==
    /\ inodes = FreshTree
    /\ nextFileId = ROOT_ID + 1
    /\ format = FreshFormat
    /\ dirty = FALSE
    /\ saved = [inodes |-> FreshTree, next |-> ROOT_ID + 1, format |-> FreshFormat]
    /\ displaced = {}

Next ==
    \/ \E p \in Ids, n \in Names :
          \/ Mkdir(p, n) \/ Symlink(p, n) \/ Unlink(p, n) \/ Rmdir(p, n)
          \/ \E m \in CreateModes : CreateWithMode(p, n, m)
          \/ \E i \in Ids : Link(i, p, n)
          \/ \E q \in Ids, k \in Names : Rename(p, n, q, k)
    \/ \E i \in ChmodIds, m \in Modes : Chmod(i, m)
    \/ Flush
    \/ Reopen

Spec == Init /\ [][Next]_vars

-----------------------------------------------------------------------------
(* Properties *)

Inodes == [kind : Kinds \cup {"none", "broken"}, parent : Ids, links : 0 .. MaxLinks,
           mode : Modes, children : [Names -> Ids \cup {None}]]
\* Types of the variables.
TypeOK ==
    /\ inodes \in [Ids -> Inodes]
    /\ nextFileId \in 2 .. (MaxId + 1)
    /\ format \in {"V2", "V4", "V5"}
    /\ dirty \in BOOLEAN
    /\ saved \in [inodes : [Ids -> Inodes], next : 2 .. (MaxId + 1),
                  format : {"V2", "V4", "V5"}]
    /\ displaced \subseteq Ids

\* Every inode but a displaced hardlink names as its parent a directory that
\* holds an entry for it (rename, unlink and link keep it).
ParentHolds ==
    \A i \in Live(inodes) \ ({ROOT_ID} \cup displaced) :
        IsDir(inodes, inodes[i].parent) /\ Holds(inodes, inodes[i].parent, i)

\* No sequence of calls makes a tree that flush refuses to save, but for the
\* parent of a displaced file: link counts match entries and never pass the
\* largest one (MaxLinks, a u32 in the code), no entry dangles, nothing is cut
\* off from the root (validate_metadata_tree at every flush).
SoundTree ==
    /\ ParentHolds
    /\ \A i \in Ids : inodes[i].links <= MaxLinks
    /\ ValidTree([i \in Ids |-> IF i \in displaced
                                THEN [inodes[i] EXCEPT !.parent = ROOT_ID]
                                ELSE inodes[i]], nextFileId)

\* The last save can always be opened (the V2 format cannot hold every tree).
SavedOpens == ValidTree(saved.inodes, saved.next)

\* The last save opens, and a clean tree is the saved one, link counts and
\* permission bits included; only stale parents are repaired.
SavedIsTree ==
    /\ SavedOpens
    /\ ~dirty => \A i \in Ids :
        [inodes[i] EXCEPT !.parent = None] = [saved.inodes[i] EXCEPT !.parent = None]

\* A call never drops an inode, and with it the chunks of a file, while the
\* inode still has a name other than the one the call removes.
LastNameFrees ==
    [][\A i \in Live(inodes) \ Live(inodes') :
          dirty' => Cardinality(Entries(inodes, i)) = 1]_vars

\* Trees that "current code" makes never need repair_stale_parents: no flush
\* is ever refused for the parent of an inode.
FlushNeverRefused == ValidTree(inodes, nextFileId)
=============================================================================
