------------------------------ MODULE MountNames ------------------------------
(***************************************************************************)
(* What the request handlers of a mount do to the names of one directory.  *)
(* The POSIX adapters (fuse.rs, fuse_t.rs) take names as they are; the     *)
(* WinFsp adapter shows the same vault as a case-insensitive volume, gets  *)
(* upper-case names from the kernel for the handles it has open, and looks *)
(* them up with Vfs::lookup_ci.  A vault written on one system is mounted  *)
(* on the other.                                                           *)
(*                                                                         *)
(* A name is a number, its place in byte order; ClassOf gives the names    *)
(* that differ only in case one class.  "." and ".." are 0 and 1.  Files   *)
(* and empty subdirectories; the tree below is in DirTree, durability in   *)
(* Mount.  A handler that returns an error changes nothing.                *)
(***************************************************************************)
EXTENDS Integers, FiniteSets, Sequences, SequencesExt

CONSTANTS
    Names,       \* set of integers other than 0 and 1
    ClassOf(_),  \* names_eq_ci: the class of a name
    Handles,     \* open handles (WinFsp file contexts)
    MaxId,       \* bound: files created
    Batch,       \* bound: entries one directory request returns
    None

Ids  == 1 .. MaxId
Dots == {0, 1}

ASSUME NamesAssumption ==
    /\ Names \subseteq Int \ Dots /\ IsFiniteSet(Names)
    /\ MaxId \in Nat /\ Batch \in Nat \ {0}
    /\ None \notin Int

VARIABLES
    os,       \* "posix" or "windows", where the vault is mounted
    dir,      \* name -> file id, or None
    kind,     \* file id -> "file", "dir" or "none"
    handles,  \* handle -> [id, class]: the file and the kernel's name for it
    twins,    \* history: a POSIX mount added names
    call,     \* history: the last call: the files it was asked to remove; of a
              \* rename, its handle's file, the file it moved and where to
    list      \* a directory listing: where the next request goes on, what it
              \* returned, which entries it must return
vars == <<os, dir, kind, handles, twins, call, list>>

-----------------------------------------------------------------------------
(* Directories *)

Present(d) == {n \in Names : d[n] # None}
Files(d)   == {d[n] : n \in Present(d)}

\* The kernel's name for a class: upper case, which sorts first.
Upper(c) == Min({n \in Names : ClassOf(n) = c})

\* Vfs::lookup_ci, as the stored name: an exact match, else the first in
\* byte order of those that differ only in case.
LookupCi(d, n) ==
    LET same == {k \in Present(d) : ClassOf(k) = ClassOf(n)} IN
    IF d[n] # None THEN n ELSE IF same = {} THEN None ELSE Min(same)

\* Vfs::rename within the directory; d itself for an error and for its no-ops.
VfsRename(d, a, b) ==
    IF a = b \/ d[a] = d[b] \/ (d[b] # None /\ kind[d[a]] # kind[d[b]])
    THEN d ELSE [d EXCEPT ![a] = None, ![b] = d[a]]
RenameRefused(d, a, b) == d[b] # None /\ kind[d[a]] # kind[d[b]]

NoCall == [removes |-> {}, id |-> None, moved |-> None, to |-> None]
Removes(s) == [NoCall EXCEPT !.removes = s]

\* The directory becomes d; a listing under way need not return what changed.
Change(d, c) ==
    /\ dir' = d
    /\ call' = c
    /\ list' = [list EXCEPT !.stay = {n \in @ : d[n] = dir[n]}, !.moved = @ \/ d # dir]
    /\ UNCHANGED os

Fresh == Min({i \in Ids : kind[i] = "none"} \cup {MaxId + 1})

\* alloc_file_id, in the order of creation.
Add(n, k) ==
    /\ Fresh \in Ids
    /\ kind' = [kind EXCEPT ![Fresh] = k]
    /\ Change([dir EXCEPT ![n] = Fresh], NoCall)

-----------------------------------------------------------------------------
(* The POSIX adapters *)

Posix == os = "posix" /\ UNCHANGED handles
PosixAdds == Posix /\ twins' = TRUE

Create(n) == PosixAdds /\ dir[n] = None /\ Add(n, "file")
Mkdir(n)  == PosixAdds /\ dir[n] = None /\ Add(n, "dir")
Link(n, m) ==
    /\ PosixAdds /\ dir[n] # None /\ dir[m] = None
    /\ kind[dir[n]] = "file"
    /\ Change([dir EXCEPT ![m] = dir[n]], NoCall) /\ UNCHANGED kind

Unlink(n) ==
    /\ Posix /\ dir[n] # None /\ kind[dir[n]] = "file"
    /\ Change([dir EXCEPT ![n] = None], Removes({dir[n]}))
    /\ UNCHANGED <<kind, twins>>
Rmdir(n) ==
    /\ Posix /\ dir[n] # None /\ kind[dir[n]] = "dir"
    /\ Change([dir EXCEPT ![n] = None], Removes({dir[n]}))
    /\ UNCHANGED <<kind, twins>>

\* rename, RENAME_NOREPLACE tested under the same lock.
Rename(n, m, noReplace) ==
    /\ PosixAdds /\ dir[n] # None
    /\ noReplace => dir[m] = None
    /\ ~RenameRefused(dir, n, m)
    /\ Change(VfsRename(dir, n, m),
              Removes(IF noReplace THEN {} ELSE {dir[m]} \ {None}))
    /\ UNCHANGED kind

-----------------------------------------------------------------------------
(* The WinFsp adapter *)

Windows == os = "windows" /\ UNCHANGED twins
Free(h) == handles[h].id = None

\* create: a collision if the name exists in any case.
WinCreate(h, n, k) ==
    /\ Windows /\ Free(h) /\ LookupCi(dir, n) = None
    /\ handles' = [handles EXCEPT ![h] = [id |-> Fresh, class |-> ClassOf(n)]]
    /\ Add(n, k)

\* open: by the caller's spelling.
WinOpen(h, n) ==
    /\ Windows /\ Free(h) /\ LookupCi(dir, n) # None
    /\ handles' = [handles EXCEPT ![h] = [id |-> dir[LookupCi(dir, n)], class |-> ClassOf(n)]]
    /\ Change(dir, NoCall) /\ UNCHANGED kind

Closed(h) == handles' = [handles EXCEPT ![h] = [id |-> None, class |-> None]]

\* The kernel deletes a file with its last handle ...
LastHandle(h) == \A g \in Handles \ {h} : handles[g].class # handles[h].class

\* Mutant: whatever the name leads to is deleted.
WinDelete_Any(h) ==
    LET n == LookupCi(dir, Upper(handles[h].class)) IN
    /\ Windows /\ ~Free(h) /\ LastHandle(h) /\ Closed(h) /\ n # None
    /\ Change([dir EXCEPT ![n] = None], Removes({handles[h].id}))
    /\ UNCHANGED kind

\* cleanup with DELETE: only if the kernel's name leads to this handle's file.
WinDelete(h) ==
    LET n == LookupCi(dir, Upper(handles[h].class)) IN
    /\ Windows /\ ~Free(h) /\ LastHandle(h) /\ Closed(h)
    /\ IF n # None /\ dir[n] = handles[h].id
       THEN Change([dir EXCEPT ![n] = None], Removes({handles[h].id}))
       ELSE Change(dir, NoCall)
    /\ UNCHANGED kind
WinClose(h) == /\ Windows /\ ~Free(h) /\ Closed(h)
               /\ Change(dir, NoCall) /\ UNCHANGED kind

\* Mutant: onto the caller's spelling at once.
RenameOnto_Caller(src, dst, n) == n

\* rename: the name the moved entry gets first.  The target may be the entry
\* itself (a change of case), another name of the same file, another file, or
\* nothing; a file in the way is displaced under its stored name.
RenameOnto(src, dst, n) ==
    IF dst = None \/ dst = src THEN n ELSE dst

\* The second rename of rename: from the displaced file's spelling to the
\* one asked for.
CaseFix(d, onto, n) == IF onto = n THEN d ELSE VfsRename(d, onto, n)

\* ... and keeps one that is open from being replaced.  rename ignores its
\* file context: it moves the entry that the kernel's name leads to.
WinRename(h, n, replace) ==
    LET src  == LookupCi(dir, Upper(handles[h].class))
        dst  == LookupCi(dir, n)
        onto == RenameOnto(src, dst, n)
        d    == VfsRename(dir, src, onto)
    IN /\ Windows /\ ~Free(h) /\ src # None
       /\ \A g \in Handles : handles[g].class = ClassOf(n) =>
                             handles[g].class = handles[h].class
       /\ dst # None /\ dir[dst] # dir[src] => replace
       /\ ~RenameRefused(dir, src, onto)
       /\ Change(CaseFix(d, onto, n),
                 [removes |-> IF replace /\ dst # None THEN {dir[dst]} ELSE {},
                  id |-> handles[h].id, moved |-> dir[src], to |-> n])
       /\ handles' = [g \in Handles |->
                        IF handles[g].class = handles[h].class
                        THEN [handles[g] EXCEPT !.class = ClassOf(n)] ELSE handles[g]]
       /\ UNCHANGED kind

-----------------------------------------------------------------------------
(* Listings *)

NoList == [on |-> FALSE, pos |-> None, stay |-> {}, moved |-> FALSE,
           got |-> [n \in Names \cup Dots |-> 0]]
Sorted(S) == SetToSortSeq(S, <)
Some(s, k) == SubSeq(s, 1, Min({k, Len(s)}))

StartList ==
    /\ ~list.on
    /\ list' = [NoList EXCEPT !.on = TRUE, !.stay = Present(dir)]
    /\ call' = NoCall /\ UNCHANGED <<os, dir, kind, handles, twins>>

\* Entries out are returned; the listing is over when that is all there was.
Returned(out, all, pos) ==
    /\ list' = [list EXCEPT !.on = Len(out) < Len(all), !.pos = pos,
                  !.got = [n \in DOMAIN @ |-> @[n] + Cardinality({i \in DOMAIN out : out[i] = n})]]
    /\ call' = NoCall /\ UNCHANGED <<os, dir, kind, handles, twins>>

\* fuse.rs readdir: the entries from offset on, as far as the buffer goes.
Readdir ==
    LET all  == <<0, 1>> \o Sorted(Present(dir))
        from == IF list.pos = None THEN 0 ELSE list.pos
        rest == SubSeq(all, from + 1, Len(all))
    IN /\ os = "posix" /\ list.on
       /\ \E k \in 1 .. Batch :
             Returned(Some(rest, k), rest, from + Len(Some(rest, k)))

\* winfsp.rs read_directory: after the marker, the last name returned before;
\* the dot entries first.
ReadDirectory ==
    LET after(S) == Sorted({n \in S : list.pos = None \/ n > list.pos})
        rest     == after(Dots) \o after(Present(dir))
    IN /\ os = "windows" /\ list.on
       /\ \E k \in 1 .. Batch :
             Returned(Some(rest, k), rest,
                      IF rest = <<>> THEN list.pos ELSE Last(Some(rest, k)))

-----------------------------------------------------------------------------
NoHandle == [id |-> None, class |-> None]
Init ==
    /\ os \in {"posix", "windows"}
    /\ dir = [n \in Names |-> None]
    /\ kind = [i \in Ids |-> "none"]
    /\ handles = [h \in Handles |-> NoHandle]
    /\ twins = FALSE
    /\ call = NoCall
    /\ list = NoList

\* The vault is unmounted and taken to the other system.
Remount ==
    /\ os' = IF os = "posix" THEN "windows" ELSE "posix"
    /\ handles' = [h \in Handles |-> NoHandle]
    /\ list' = NoList /\ call' = NoCall
    /\ UNCHANGED <<dir, kind, twins>>

Next ==
    \/ \E n \in Names :
          \/ Create(n) \/ Mkdir(n) \/ Unlink(n) \/ Rmdir(n)
          \/ \E m \in Names : Link(n, m)
          \/ \E m \in Names, noReplace \in BOOLEAN : Rename(n, m, noReplace)
    \/ \E h \in Handles :
          \/ WinDelete(h) \/ WinClose(h)
          \/ \E n \in Names : \/ WinOpen(h, n)
                              \/ \E k \in {"file", "dir"} : WinCreate(h, n, k)
                              \/ \E replace \in BOOLEAN : WinRename(h, n, replace)
    \/ StartList \/ Readdir \/ ReadDirectory \/ Remount

Spec == Init /\ [][Next]_vars

-----------------------------------------------------------------------------
(* Properties *)

\* Types of the variables.
TypeOK ==
    /\ os \in {"posix", "windows"} /\ twins \in BOOLEAN
    /\ dir \in [Names -> Ids \cup {None}]
    /\ kind \in [Ids -> {"none", "file", "dir"}]
    /\ \A h \in Handles : handles[h].id \in Ids \cup {None}
    /\ list.on \in BOOLEAN /\ list.stay \subseteq Names

\* A directory that only the WinFsp adapter wrote never holds two names that
\* differ only in case: create and both steps of rename look for the other
\* spelling, so that every file stays reachable on the volume.
CaseUnique ==
    ~twins => \A n, m \in Present(dir) : ClassOf(n) = ClassOf(m) => n = m

\* A call makes a file disappear only if it was asked to: the file of the
\* handle it deletes, or the one entry that the new name of a rename that
\* replaces leads to; never an innocent file whose name differs only in case,
\* in any vault.
RemovesOnlyNamed == [][Files(dir) \ Files(dir') \subseteq call'.removes]_vars

\* A rename on Windows that succeeds leaves the file it moved under the
\* spelling asked for, in any directory, and that file is the one of its handle
\* in a directory that no POSIX mount added names to.
RenameLands ==
    call.to # None => dir[call.to] = call.moved /\ (~twins => call.moved = call.id)

\* ... which is not so where a POSIX mount left a case pair: rename moves the
\* file that the upper-case name leads to, whichever of the two is open.
RenameMovesHandle == call.to # None => dir[call.to] = call.id

\* A listing, however many requests it takes, returns every entry that was
\* there all the time, and "." and "..", exactly once; on POSIX, where the
\* offset is a position, if the directory did not change meanwhile.
ListedOnce ==
    ~list.on /\ list.pos # None /\ (os = "posix" => ~list.moved) =>
        \A n \in list.stay \cup Dots : list.got[n] = 1
=============================================================================
