------------------------------- MODULE JitRepo -------------------------------
(***************************************************************************)
(* One jit repository and its working directory, as the commands init,     *)
(* add, commit, checkout, branch and merge of main.cpp change them.  Every *)
(* command is a process of its own that reads the files under .jit, does   *)
(* its work and writes them back; here a command is one step, and between  *)
(* commands the user edits and deletes files.                              *)
(*                                                                         *)
(* Data is kept to what the commands tell apart.  The hash of an object is *)
(* its content: a blob is known by its text and a commit by the position   *)
(* at which it was made, so two objects never share a hash.  A tree is the *)
(* map from paths to blob hashes that its nested entries spell out.  A     *)
(* command that throws or crashes before it writes leaves everything as it *)
(* was and is no step.                                                     *)
(***************************************************************************)
EXTENDS TreeShape, MergeWalk, Functions

CONSTANTS
  Path,       \* the files the user works with
  Parts,      \* the words of a key, which one space parts from the next
  Stray,      \* those of them that name nothing, nor does their first component
  Sorted,     \* the keys in the order of their lines in a sorted index file
  Content,    \* the texts files are written with
  EmptyText,  \* the text of an empty file
  Markers,    \* a text with conflict markers, whatever its two sides
  NoFile,     \* stands for the text of a file that does not exist
  Branch,     \* names of branches
  Main,       \* the branch init selects
  Edits,      \* the texts the user writes to each file
  HeadName,   \* "HEAD" given where a branch or a commit is expected
  Volatile,   \* files the user may delete, or name before they exist
  MaxCommits  \* bound on the number of commits

Text     == Content \cup {Markers}
Key      == Path \cup {Blank, Dot}
Ids      == 1 .. MaxCommits

\* Trees and index files.  A key is bound to the hash of a text, or to a word
\* that load took for a hash.
Tree == UNION {[K -> Text \cup Key \cup Stray] : K \in SUBSET Key}

ASSUME PathAssumption ==
  /\ IsFiniteSet(Path) /\ Path \subseteq Seq(STRING) \ {<<>>}
  /\ Blank \notin Path /\ Dot \notin Path
  /\ \A p, q \in Path : \A n \in 1 .. (Len(p) - 1) : q # SubSeq(p, 1, n)
  /\ ~Siblings(Path)
ASSUME WordAssumption ==
  /\ Parts \in [Key -> Seq(Path \cup {Dot} \cup Stray)]
  /\ Parts[Blank] = <<>> /\ Parts[Dot] = <<Dot>>
  /\ \A k \in Path : Parts[k] # <<>> /\ \A w \in Range(Parts[k]) \cap Key : Parts[w] = <<w>>
  /\ Stray \cap (Key \cup Text \cup {NoFile}) = {}
ASSUME SortedAssumption ==
  /\ Sorted \in Seq(Key) /\ Range(Sorted) = Key /\ Sorted[1] = Blank
  /\ \A i, j \in DOMAIN Sorted : Sorted[i] = Sorted[j] => i = j
ASSUME TextAssumption ==
  /\ EmptyText \in Content
  /\ Edits \in [Path -> SUBSET Content]
  /\ Markers \notin Content
  /\ NoFile \notin Text
  /\ Key \cap (Text \cup {NoFile}) = {}
ASSUME RefAssumption ==
  /\ Main \in Branch
  /\ HeadName \notin Branch
  /\ (Branch \cup {HeadName}) \cap Nat = {}
  /\ MaxCommits \in Nat
ASSUME VolatileAssumption ==
  /\ Volatile \subseteq Path
  /\ Volatile # {} => \A p \in Path : Len(p) = 1

VARIABLES
  wd,         \* text of each file in the working directory
  index,      \* .jit/index: the staged hash of each key
  blobs,      \* blobs in .jit/objects
  commits,    \* commits in .jit/objects, oldest first
  refs,       \* .jit/refs: the commit of each branch.  A merge with a detached
              \* HEAD also writes a file named after a commit there, which
              \* resolve never reads
  head,       \* .jit/HEAD: a branch, or a commit when it is detached
  mergeHead   \* .jit/MERGE_HEAD

vars == <<wd, index, blobs, commits, refs, head, mergeHead>>

-----------------------------------------------------------------------------
\* f with the entries of g written over it, as HashMap::set does.
Overlay(f, g) ==
  [k \in DOMAIN f \cup DOMAIN g |-> IF k \in DOMAIN g THEN g[k] ELSE f[k]]

(***************************************************************************)
(* The index file.                                                         *)
(***************************************************************************)

\* pathString, for a path relative to the repository root: a path whose first
\* component does not exist comes back empty.
PathString(t) ==
  IF t = Dot \/ (t \in Path /\ \E p \in Path : p[1] = t[1] /\ wd[p] # NoFile)
    THEN t
    ELSE Blank

\* k is written without a space.
OneWord(k) == Parts[k] = <<k>>

\* The words of the file IndexStore::save writes from f: a line "path hash" for
\* each key, sorted.  The line of the empty key has one word.
Saved(f) ==
  LET upto[n \in 0 .. Len(Sorted)] ==
        IF n = 0 THEN <<>>
        ELSE IF Sorted[n] \in DOMAIN f
               THEN upto[n - 1] \o Append(Parts[Sorted[n]], f[Sorted[n]])
        ELSE upto[n - 1]
  IN  upto[Len(Sorted)]

\* What comes of the words s when they are read by twos, a path and a hash, n
\* times.  Paths that pathString maps to the same string collapse into the last.
ReadBack(s, n) ==
  LET key(i) == PathString(s[2 * i - 1])
      last(x) == CHOOSE i \in 1 .. n : key(i) = x /\ \A j \in i + 1 .. n : key(j) # x
  IN  [x \in {key(i) : i \in 1 .. n} |-> s[2 * last(x)]]

\* Mutant: the last line is not read.
LoadShort(f) == ReadBack(Saved(f), Len(Saved(f)) \div 2 - 1)

\* What IndexStore::load makes of that file.  It does not look where lines end:
\* from an empty key on, or a path of two words, hashes are taken for paths and
\* paths for hashes, and a last word without a second one is dropped.
Load(f) == ReadBack(Saved(f), Len(Saved(f)) \div 2)

\* The tree IndexStore::writeTree makes of an index: the names of directories
\* do not begin alike here, so each file in it has its own path.
Snapshot(f) == Restrict(f, Written(DOMAIN f))

-----------------------------------------------------------------------------
(***************************************************************************)
(* Commits and references.                                                 *)
(***************************************************************************)
Stored == 1 .. Len(commits)

Parents(c) == Range(commits[c].parents)

\* retrieve fails on a commit whose tree is empty: an empty tree has no hash,
\* and the line "tree " that is left in the commit has no second word.
Readable(c) == DOMAIN commits[c].tree # {}

\* The entries of c's tree that retrieve keeps: those whose blob is stored.  It
\* splits an entry at its spaces and takes the third part for the hash, which
\* for a name of two words is the second of them.
Kept(c) ==
  {k \in DOMAIN commits[c].tree :
     commits[c].tree[k] \in blobs /\ (OneWord(k) \/ k = Blank)}

\* c and the commits below it in the graph of the commits cs; nothing is below
\* NoCommit.
AncestorsIn(cs, c) ==
  {a \in 1 .. Len(cs) :
     /\ c \in 1 .. Len(cs)
     /\ \A S \in SUBSET (1 .. Len(cs)) :
          (c \in S /\ \A d \in S : Range(cs[d].parents) \subseteq S) => a \in S}

Ancestors(c) == AncestorsIn(commits, c)

\* The commit a branch or a hash stands for, as resolve finds it.
Tip(t) == IF t \in Branch THEN refs[t] ELSE t

\* "ref HEAD" in HEAD sends resolve into endless recursion.
HeadResolves == head # HeadName
HeadCommit   == Tip(head)

\* How the walk of merge from the commit c ends (MergeWalk).
Walk(c) ==
  Walked([d \in Stored |-> commits[d].parents], {d \in Stored : Readable(d)}, HeadCommit, c)

\* Mutant: the walk is taken to meet ours whatever it finds.
MeetsAny(c) == TRUE

Meets(c) == Walk(c) = "fast-forward"

\* Mutants: the branch is a commit ahead; branches on the same commit move too.
AdvancedPast(c)  == [b \in Branch |-> IF b = head THEN c + 1 ELSE refs[b]]
AdvancedTwins(c) == [b \in Branch |-> IF refs[b] = HeadCommit THEN c ELSE refs[b]]

\* The branches after the one of HEAD, if HEAD is not detached, moves to c.
Advanced(c) == [b \in Branch |-> IF b = head THEN c ELSE refs[b]]

\* What resolve returns for an argument of checkout or merge.
Resolve(t) == IF t = HeadName THEN HeadCommit ELSE Tip(t)

-----------------------------------------------------------------------------
(***************************************************************************)
(* The user's own steps.                                                   *)
(***************************************************************************)
Edit(p, t) ==
  /\ wd[p] # t
  /\ wd' = [wd EXCEPT ![p] = t]
  /\ UNCHANGED <<index, blobs, commits, refs, head, mergeHead>>

Delete(p) ==
  /\ wd[p] # NoFile
  /\ wd' = [wd EXCEPT ![p] = NoFile]
  /\ UNCHANGED <<index, blobs, commits, refs, head, mergeHead>>

(***************************************************************************)
(* The commands.                                                           *)
(***************************************************************************)

\* The state init leaves, in an empty directory.
Init ==
  /\ wd = [p \in Path |-> NoFile]
  /\ index = <<>>
  /\ blobs = {}
  /\ commits = <<>>
  /\ refs = [b \in Branch |-> NoCommit]
  /\ head = Main
  /\ mergeHead = NoCommit

\* Files and directories that add may be given, the root "." among them.
Addable == UNION {{SubSeq(p, 1, n) : n \in 0 .. Len(p)} : p \in Path}

Below(t) == {p \in Path : wd[p] # NoFile /\ Len(t) <= Len(p) /\ SubSeq(p, 1, Len(t)) = t}

\* Mutant: the files are listed in the index but not stored.
AddUnstored(t) ==
  /\ t \in Path => wd[t] # NoFile
  /\ index' = Overlay(Load(index), [p \in Below(t) |-> wd[p]])
  /\ UNCHANGED <<wd, blobs, commits, refs, head, mergeHead>>

\* Mutant: the index is not loaded first.
AddUnloaded(t) ==
  /\ t \in Path => wd[t] # NoFile
  /\ blobs' = blobs \cup {wd[p] : p \in Below(t)}
  /\ index' = [p \in Below(t) |-> wd[p]]
  /\ UNCHANGED <<wd, commits, refs, head, mergeHead>>

\* add of a file, or of a directory, with the files it has.
Add(t) ==
  /\ t \in Path => wd[t] # NoFile
  /\ blobs' = blobs \cup {wd[p] : p \in Below(t)}
  /\ index' = Overlay(Load(index), [p \in Below(t) |-> wd[p]])
  /\ UNCHANGED <<wd, commits, refs, head, mergeHead>>

\* add of a name that is neither: it is read as an empty file.
AddMissing(p) ==
  /\ wd[p] = NoFile
  /\ blobs' = blobs \cup {EmptyText}
  /\ index' = Overlay(Load(index), [k \in {PathString(p)} |-> EmptyText])
  /\ UNCHANGED <<wd, commits, refs, head, mergeHead>>

\* Mutant: MERGE_HEAD is cleared before it is read.
NewCommitUnmerged ==
  [tree    |-> Snapshot(Load(index)),
   parents |-> IF HeadCommit # NoCommit THEN <<HeadCommit>> ELSE <<>>]

NewCommit ==
  [tree    |-> Snapshot(Load(index)),
   parents |-> (IF HeadCommit # NoCommit THEN <<HeadCommit>> ELSE <<>>)
               \o (IF mergeHead # NoCommit THEN <<mergeHead>> ELSE <<>>)]

Commit ==
  /\ HeadResolves
  /\ Len(commits) < MaxCommits
  /\ commits' = Append(commits, NewCommit)
  /\ refs' = Advanced(Len(commits) + 1)
  /\ mergeHead' = NoCommit
  /\ UNCHANGED <<wd, index, blobs, head>>

\* reconstruct: the files of c's tree are written over the working directory,
\* and no file is removed from it.
Restored(c) == [p \in Path |-> IF p \in Kept(c) THEN commits[c].tree[p] ELSE wd[p]]

\* readTree: the entries of c's tree under the keys pathString gives them.
\* The entry with the empty name becomes the root's own, unless there is one.
TreeEntries(c) ==
  LET names == (Kept(c) \cap Path) \cup (IF Kept(c) \subseteq Path THEN {} ELSE {Dot})
  IN  [k \in names |-> IF k \in Kept(c) THEN commits[c].tree[k] ELSE commits[c].tree[Blank]]

\* Mutant: the tree is read before the index is loaded.
CheckoutLoadedLast(t) ==
  /\ t = HeadName => HeadResolves
  /\ Resolve(t) \in Stored
  /\ Readable(Resolve(t))
  /\ wd' = Restored(Resolve(t))
  /\ index' = Overlay(TreeEntries(Resolve(t)), Load(index))
  /\ head' = t
  /\ UNCHANGED <<blobs, commits, refs, mergeHead>>

Checkout(t) ==
  /\ t = HeadName => HeadResolves
  /\ Resolve(t) \in Stored
  /\ Readable(Resolve(t))
  /\ wd' = Restored(Resolve(t))
  /\ index' = Overlay(Load(index), TreeEntries(Resolve(t)))
  /\ head' = t
  /\ UNCHANGED <<blobs, commits, refs, mergeHead>>

\* Mutant: HEAD is not resolved first.
MakeBranchUnresolved(b) ==
  /\ refs' = [refs EXCEPT ![b] = HeadCommit]
  /\ UNCHANGED <<wd, index, blobs, commits, head, mergeHead>>

MakeBranch(b) ==
  /\ HeadResolves
  /\ refs' = [refs EXCEPT ![b] = HeadCommit]
  /\ UNCHANGED <<wd, index, blobs, commits, head, mergeHead>>

\* merge needs a commit on both sides.
Mergeable(t) ==
  /\ HeadResolves
  /\ {HeadCommit, Resolve(t)} \subseteq Stored
  /\ Readable(HeadCommit) /\ Readable(Resolve(t))

\* The walk from the other commit meets ours.
MergeFastForward(t) ==
  /\ Mergeable(t)
  /\ Meets(Resolve(t))
  /\ refs' = Advanced(Resolve(t))
  /\ wd' = Restored(Resolve(t))
  /\ UNCHANGED <<index, blobs, commits, head, mergeHead>>

\* The two sides of a path as diff and the markers render them.
Merged(ours, theirs) == IF ours = theirs THEN ours ELSE Markers

\* The walk ends without meeting ours, and the files of the other commit are
\* merged one by one, in the order of a hash table.  diff throws on two empty
\* files, and what is left of the loop is then not done.  A file that ours
\* does not have is passed over.
MergeDivergent(t) ==
  LET ours   == commits[HeadCommit].tree
      theirs == commits[Resolve(t)].tree
      common == Kept(HeadCommit) \cap Kept(Resolve(t))
      throwing == {k \in common : ours[k] = EmptyText /\ theirs[k] = EmptyText}
  IN
  /\ Mergeable(t)
  /\ Walk(Resolve(t)) = "divergent"
  /\ \E done \in SUBSET (Kept(Resolve(t)) \ throwing) :
       /\ throwing = {} => done = Kept(Resolve(t))
       /\ wd' = [p \in Path |-> IF p \in done \cap common
                                  THEN Merged(ours[p], theirs[p])
                                  ELSE wd[p]]
       /\ mergeHead' = IF done = {} THEN mergeHead ELSE Resolve(t)
  /\ UNCHANGED <<index, blobs, commits, refs, head>>

-----------------------------------------------------------------------------
\* What status says of the path p: it compares the working directory with the
\* index it has loaded.
Status(staged, p) ==
  IF p \in DOMAIN staged
    THEN CASE wd[p] = NoFile        -> "deleted"
           [] wd[p] = staged[p]     -> "clean"
           [] OTHER                 -> "modified"
    ELSE IF wd[p] = NoFile THEN "unknown" ELSE "new file"

-----------------------------------------------------------------------------
Next ==
  \/ \E p \in Path : \E t \in Edits[p] : Edit(p, t)
  \/ \E p \in Volatile : Delete(p) \/ AddMissing(p)
  \/ \E t \in Addable : Add(t)
  \/ Commit
  \/ \E t \in Branch \cup Ids \cup {HeadName} : Checkout(t)
  \/ \E b \in Branch : MakeBranch(b)
  \/ \E t \in Branch \cup Ids \cup {HeadName} : MergeFastForward(t) \/ MergeDivergent(t)

Spec == Init /\ [][Next]_vars
-----------------------------------------------------------------------------
(***************************************************************************)
(* Properties.                                                             *)
(***************************************************************************)

\* The type of the repository's files.
TypeOK ==
  /\ wd \in [Path -> Text \cup {NoFile}]
  /\ index \in Tree
  /\ blobs \subseteq Text
  /\ commits \in Seq([tree : Tree, parents : Seq(Ids)])
  /\ Len(commits) <= MaxCommits
  /\ refs \in [Branch -> Ids \cup {NoCommit}]
  /\ head \in Branch \cup Ids \cup {HeadName}
  /\ mergeHead \in Ids \cup {NoCommit}

\* No reference dangles: branches, HEAD and MERGE_HEAD name commits that are
\* stored, and a commit's parents were stored before it, so the history that
\* log and merge walk has no cycle and no missing commit.
HistoryClosed ==
  /\ Range(refs) \subseteq Stored \cup {NoCommit}
  /\ HeadResolves => HeadCommit \in Stored \cup {NoCommit}
  /\ mergeHead \in Stored \cup {NoCommit}
  /\ \A c \in Stored : Parents(c) \subseteq 1 .. (c - 1)

\* Every hash in the index and in a committed tree is the hash of a stored
\* blob, so checkout, merge and diff find each file they ask for.  It needs
\* that files are never deleted behind add's back.
BlobsStored ==
  /\ Range(index) \subseteq blobs
  /\ \A c \in Stored : Range(commits[c].tree) \subseteq blobs

\* All branches share one index that only grows, so a commit holds every file
\* of every commit made before it, on whatever branch: no command sequence
\* makes a file drop out of the history, and log, which cannot read a commit
\* without files, fails at most on the commits made before the first file.
SnapshotsGrow ==
  /\ \A c \in Stored : DOMAIN commits[c].tree \subseteq Written(DOMAIN index)
  /\ \A c, d \in Stored : c < d => DOMAIN commits[c].tree \subseteq DOMAIN commits[d].tree

\* A branch moves only to a commit that descends from where it was, unless
\* the branch command puts it on the commit of HEAD: neither commit nor merge
\* takes a commit out of a branch's history.
TipsOnlyAdvance ==
  [][\A b \in Branch :
       \/ refs[b] = NoCommit
       \/ refs'[b] = HeadCommit
       \/ refs[b] \in AncestorsIn(commits', refs'[b])]_vars

\* A merge that was begun is ended only by a commit that has the merged
\* commit as its second parent, or by another merge.
MergeRecorded ==
  [][mergeHead # NoCommit /\ mergeHead' = NoCommit =>
       /\ Len(commits') = Len(commits) + 1
       /\ commits'[Len(commits')].parents = <<HeadCommit, mergeHead>>]_vars

\* The files of c are clean, and the next commit holds them again, perhaps with
\* others.
Repeats(c) ==
  \A staged \in {Load(index)} : \A next \in {Snapshot(staged)} :
    \A k \in DOMAIN commits[c].tree :
      /\ k \in DOMAIN next /\ next[k] = commits[c].tree[k]
      /\ Status(staged, k) = "clean"

\* After a checkout, status reports the files of the commit that was checked
\* out as clean, and committing right away holds them again, whatever was
\* staged and in the working directory before.
CheckoutRoundTrip == [][head' # head /\ HeadResolves' => Repeats(HeadCommit)']_vars

\* While the index lists files that exist, under names without spaces, no
\* command drops one of them or lists another hash for it than that of the file
\* as the command leaves it: reading the index file back loses nothing.
StagingKept ==
  [][(\A k \in DOMAIN index : k \in Path /\ OneWord(k) /\ wd[k] # NoFile) =>
       \A k \in DOMAIN index : k \in DOMAIN index' /\ index'[k] \in {index[k], wd'[k]}]_vars

-----------------------------------------------------------------------------
\* The history as History.tla describes it: whatever the files, the index and
\* the order of commands, it changes in the ways that module allows.
H == INSTANCE History WITH
       parents <- [c \in Stored |-> Parents(c)],
       merging <- mergeHead

HistoryImplemented == H!HSpec
=============================================================================
