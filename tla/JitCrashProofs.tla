--------------------------- MODULE JitCrashProofs ---------------------------
(***************************************************************************)
(* Proofs about JitCrash, for any files, branches, processes and number of *)
(* commits, whatever is killed and whatever runs at the same time.         *)
(***************************************************************************)
EXTENDS JitCrash, DataLemmas

-----------------------------------------------------------------------------
(***************************************************************************)
(* The inductive invariant.                                                *)
(***************************************************************************)
N == Len(commits)

\* What a process knows is true of the repository, now and whatever is done to
\* it: objects are never removed, and commits are only added.
True(m) ==
  /\ m.program = m.cmd \/ (m.cmd = "merge" /\ m.program \in {"forward", "diverge"})
  /\ m.at \in 1 .. Len(Program[m.program])
  /\ Sensible(m.cmd, m.arg)
  /\ Range(m.index) \subseteq blobs
  /\ m.name \in Branch \cup 0 .. N /\ m.ours \in 0 .. N /\ m.new \in 0 .. N
  /\ m.merge = <<>> \/ \E c \in 0 .. N : m.merge = <<c>> /\ (c = Nothing => Met({"commit", "merge"}))
  /\ m.program = "add" /\ m.at \in {3, 4, 5} => m.arg \in DOMAIN m.index
  /\ m.program = "commit" /\ m.at > 4 => m.index \in trees \cup {<<>>}
  /\ (m.program = "checkout" /\ m.at > 2) \/ m.program \in {"forward", "diverge"}
       => m.other \in 1 .. N /\ m.arg \in Branch \cup 1 .. N
  /\ m.program = "merge" /\ m.at = 4 => m.arg \in Branch \/ m.other = m.arg
  /\ m.program \in {"add", "checkout"} /\ m.at = Len(Program[m.program])
       => m.todo \subseteq DOMAIN m.index

\* A commit that has found a merge finds which, unless another commit or merge
\* has met it.
Pending(m) ==
  m.program = "commit" /\ m.at = 7 /\ mergeHead = Nothing => Met({"commit", "merge"})

Knowing == \A p \in Proc : run[p] # Idle => True(run[p]) /\ Pending(run[p])

\* Processes that run at the same time are known to have met.
Meeting ==
  \A p, q \in Proc : p # q /\ run[p] # Idle /\ run[q] # Idle => {run[p].cmd, run[q].cmd} \in together

\* References and parents.
Bounded ==
  /\ head \in Branch \cup 0 .. N /\ refs \in [Branch -> 0 .. N] /\ mergeHead \in 0 .. N
  /\ \A c \in 1 .. N :
       /\ Range(commits[c].parents) \subseteq 0 .. (c - 1)
       /\ Nothing \in Range(commits[c].parents) => Met({"commit", "merge"})

\* What is listed is stored.
Stored ==
  /\ Range(index) \subseteq blobs
  /\ \A c \in 1 .. N : Range(commits[c].tree) \subseteq blobs /\ commits[c].tree \in trees \cup {<<>>}

\* Every file that is empty is being written, or was when its writer was killed.
Tearing ==
  /\ \A b \in torn.blobs : \/ KilledAt({"write blob"})
                           \/ \E p \in Proc : At(p, "write blob") /\ run[p].index[run[p].arg] = b
  /\ \A t \in torn.trees : \/ KilledAt({"write tree"})
                           \/ \E p \in Proc : At(p, "write tree") /\ run[p].index = t

Inv == TypeOK /\ Knowing /\ Meeting /\ Bounded /\ Stored /\ Tearing

-----------------------------------------------------------------------------
(***************************************************************************)
(* The programs.                                                           *)
(***************************************************************************)
Programs == Commands \cup {"forward", "diverge"}

LEMMA Lengths ==
  /\ DOMAIN Program = Programs
  /\ Len(Program["init"]) = 3     /\ Len(Program["add"]) = 7
  /\ Len(Program["commit"]) = 13  /\ Len(Program["checkout"]) = 8
  /\ Len(Program["branch"]) = 4   /\ Len(Program["merge"]) = 4
  /\ Len(Program["forward"]) = 5  /\ Len(Program["diverge"]) = 4
BY DEF Program, Programs, Commands

\* The programs, step by step.
LEMMA Contents ==
  /\ Program["init"][1] = "make .jit" /\ Program["init"][2] = "open HEAD"
  /\ Program["init"][3] = "write HEAD"
  /\ Program["add"][1] = "load" /\ Program["add"][2] = "open blob"
  /\ Program["add"][3] = "write blob" /\ Program["add"][4] = "reopen blob"
  /\ Program["add"][5] = "write blob" /\ Program["add"][6] = "open index"
  /\ Program["add"][7] = "write index"
  /\ Program["commit"][1] = "load" /\ Program["commit"][2] = "read HEAD"
  /\ Program["commit"][3] = "read ref" /\ Program["commit"][4] = "open tree"
  /\ Program["commit"][5] = "write tree" /\ Program["commit"][6] = "read MERGE_HEAD"
  /\ Program["commit"][7] = "reread MERGE_HEAD" /\ Program["commit"][8] = "clear MERGE_HEAD"
  /\ Program["commit"][9] = "store commit" /\ Program["commit"][10] = "is branch"
  /\ Program["commit"][11] = "name branch" /\ Program["commit"][12] = "open ref"
  /\ Program["commit"][13] = "write ref"
  /\ Program["checkout"][1] = "load" /\ Program["checkout"][2] = "resolve"
  /\ Program["checkout"][3] = "reconstruct" /\ Program["checkout"][4] = "read tree"
  /\ Program["checkout"][5] = "open HEAD" /\ Program["checkout"][6] = "write HEAD"
  /\ Program["checkout"][7] = "open index" /\ Program["checkout"][8] = "write index"
  /\ Program["branch"][1] = "read HEAD" /\ Program["branch"][2] = "read ref"
  /\ Program["branch"][3] = "open ref" /\ Program["branch"][4] = "write ref"
  /\ Program["merge"][1] = "read HEAD" /\ Program["merge"][2] = "read ref"
  /\ Program["merge"][3] = "resolve" /\ Program["merge"][4] = "walk"
  /\ Program["forward"][1] = "name branch" /\ Program["forward"][2] = "resolve again"
  /\ Program["forward"][3] = "open ref" /\ Program["forward"][4] = "write ref"
  /\ Program["forward"][5] = "reconstruct"
  /\ Program["diverge"][1] = "merge file" /\ Program["diverge"][2] = "resolve again"
  /\ Program["diverge"][3] = "open MERGE_HEAD" /\ Program["diverge"][4] = "write MERGE_HEAD"
BY DEF Program

\* Which programs take a step, and when.
LEMMA Where ==
  ASSUME NEW g \in Programs, NEW n \in 1 .. Len(Program[g])
  PROVE  LET step == Program[g][n]
         IN
  /\ step = "make .jit" => g = "init" /\ n = 1
  /\ step = "open HEAD" =>
       (g = "init" /\ n = 2) \/ (g = "checkout" /\ n = 5)
  /\ step = "write HEAD" =>
       (g = "init" /\ n = 3) \/ (g = "checkout" /\ n = 6)
  /\ step = "load" =>
       (g = "add" /\ n = 1) \/ (g = "commit" /\ n = 1) \/ (g = "checkout" /\ n = 1)
  /\ step = "open blob" => g = "add" /\ n = 2
  /\ step = "reopen blob" => g = "add" /\ n = 4
  /\ step = "write blob" => g = "add" /\ n \in {3, 5}
  /\ step = "open index" =>
       (g = "add" /\ n = 6) \/ (g = "checkout" /\ n = 7)
  /\ step = "write index" =>
       (g = "add" /\ n = 7) \/ (g = "checkout" /\ n = 8)
  /\ step = "read HEAD" =>
       (g = "commit" /\ n = 2) \/ (g = "branch" /\ n = 1) \/ (g = "merge" /\ n = 1)
  /\ step = "read ref" =>
       (g = "commit" /\ n = 3) \/ (g = "branch" /\ n = 2) \/ (g = "merge" /\ n = 2)
  /\ step = "open tree" => g = "commit" /\ n = 4
  /\ step = "write tree" => g = "commit" /\ n = 5
  /\ step = "read MERGE_HEAD" => g = "commit" /\ n = 6
  /\ step = "reread MERGE_HEAD" => g = "commit" /\ n = 7
  /\ step = "clear MERGE_HEAD" => g = "commit" /\ n = 8
  /\ step = "store commit" => g = "commit" /\ n = 9
  /\ step = "is branch" => g = "commit" /\ n = 10
  /\ step = "name branch" =>
       (g = "commit" /\ n = 11) \/ (g = "forward" /\ n = 1)
  /\ step = "open ref" =>
       (g = "commit" /\ n = 12) \/ (g = "branch" /\ n = 3) \/ (g = "forward" /\ n = 3)
  /\ step = "write ref" =>
       (g = "commit" /\ n = 13) \/ (g = "branch" /\ n = 4) \/ (g = "forward" /\ n = 4)
  /\ step = "resolve" =>
       (g = "checkout" /\ n = 2) \/ (g = "merge" /\ n = 3)
  /\ step = "reconstruct" =>
       (g = "checkout" /\ n = 3) \/ (g = "forward" /\ n = 5)
  /\ step = "read tree" => g = "checkout" /\ n = 4
  /\ step = "walk" => g = "merge" /\ n = 4
  /\ step = "resolve again" =>
       (g = "forward" /\ n = 2) \/ (g = "diverge" /\ n = 2)
  /\ step = "merge file" => g = "diverge" /\ n = 1
  /\ step = "open MERGE_HEAD" => g = "diverge" /\ n = 3
  /\ step = "write MERGE_HEAD" => g = "diverge" /\ n = 4
<1>1. CASE g = "init"
  <2>1. n \in {1, 2, 3}
    BY <1>1, Lengths
  <2>2. /\ Program[g][1] = "make .jit" /\ Program[g][2] = "open HEAD"
        /\ Program[g][3] = "write HEAD"
    BY <1>1, Contents
  <2> QED
    BY <1>1, <2>1, <2>2
<1>2. CASE g = "add"
  <2>1. n \in {1, 2, 3, 4, 5, 6, 7}
    BY <1>2, Lengths
  <2>2. /\ Program[g][1] = "load" /\ Program[g][2] = "open blob" /\ Program[g][3] = "write blob"
        /\ Program[g][4] = "reopen blob" /\ Program[g][5] = "write blob"
        /\ Program[g][6] = "open index" /\ Program[g][7] = "write index"
    BY <1>2, Contents
  <2>3. PICK step : step = Program[g][n]
    OBVIOUS
  <2>4. \/ (n = 1 /\ step = "load") \/ (n = 2 /\ step = "open blob")
        \/ (n = 3 /\ step = "write blob") \/ (n = 4 /\ step = "reopen blob")
        \/ (n = 5 /\ step = "write blob") \/ (n = 6 /\ step = "open index")
        \/ (n = 7 /\ step = "write index")
    BY <2>1, <2>2, <2>3
  <2> QED
    BY <1>2, <2>3, <2>4
<1>3. CASE g = "commit"
  <2>1. n \in {1, 2, 3, 4, 5, 6, 7, 8, 9, 10, 11, 12, 13}
    BY <1>3, Lengths
  <2>2. /\ Program[g][1] = "load" /\ Program[g][2] = "read HEAD" /\ Program[g][3] = "read ref"
        /\ Program[g][4] = "open tree" /\ Program[g][5] = "write tree"
        /\ Program[g][6] = "read MERGE_HEAD" /\ Program[g][7] = "reread MERGE_HEAD"
        /\ Program[g][8] = "clear MERGE_HEAD" /\ Program[g][9] = "store commit"
        /\ Program[g][10] = "is branch" /\ Program[g][11] = "name branch"
        /\ Program[g][12] = "open ref" /\ Program[g][13] = "write ref"
    BY <1>3, Contents
  <2>3. PICK step : step = Program[g][n]
    OBVIOUS
  <2>4. \/ (n = 1 /\ step = "load") \/ (n = 2 /\ step = "read HEAD")
        \/ (n = 3 /\ step = "read ref") \/ (n = 4 /\ step = "open tree")
        \/ (n = 5 /\ step = "write tree") \/ (n = 6 /\ step = "read MERGE_HEAD")
        \/ (n = 7 /\ step = "reread MERGE_HEAD") \/ (n = 8 /\ step = "clear MERGE_HEAD")
        \/ (n = 9 /\ step = "store commit") \/ (n = 10 /\ step = "is branch")
        \/ (n = 11 /\ step = "name branch") \/ (n = 12 /\ step = "open ref")
        \/ (n = 13 /\ step = "write ref")
    <3>2. CASE n \in {1, 2, 3, 4, 5}
      BY <2>2, <2>3, <3>2
    <3>3. CASE n \in {6, 7, 8, 9}
      BY <2>2, <2>3, <3>3
    <3>4. CASE n \in {10, 11, 12, 13}
      BY <2>2, <2>3, <3>4
    <3> QED
      BY <2>1, <3>2, <3>3, <3>4
  <2> QED
    BY <1>3, <2>3, <2>4
<1>4. CASE g = "checkout"
  <2>1. n \in {1, 2, 3, 4, 5, 6, 7, 8}
    BY <1>4, Lengths
  <2>2. /\ Program[g][1] = "load" /\ Program[g][2] = "resolve" /\ Program[g][3] = "reconstruct"
        /\ Program[g][4] = "read tree" /\ Program[g][5] = "open HEAD"
        /\ Program[g][6] = "write HEAD" /\ Program[g][7] = "open index"
        /\ Program[g][8] = "write index"
    BY <1>4, Contents
  <2>3. PICK step : step = Program[g][n]
    OBVIOUS
  <2>4. \/ (n = 1 /\ step = "load") \/ (n = 2 /\ step = "resolve")
        \/ (n = 3 /\ step = "reconstruct") \/ (n = 4 /\ step = "read tree")
        \/ (n = 5 /\ step = "open HEAD") \/ (n = 6 /\ step = "write HEAD")
        \/ (n = 7 /\ step = "open index") \/ (n = 8 /\ step = "write index")
    BY <2>1, <2>2, <2>3
  <2> QED
    BY <1>4, <2>3, <2>4
<1>5. CASE g = "branch"
  <2>1. n \in {1, 2, 3, 4}
    BY <1>5, Lengths
  <2>2. /\ Program[g][1] = "read HEAD" /\ Program[g][2] = "read ref" /\ Program[g][3] = "open ref"
        /\ Program[g][4] = "write ref"
    BY <1>5, Contents
  <2> QED
    BY <1>5, <2>1, <2>2
<1>6. CASE g = "merge"
  <2>1. n \in {1, 2, 3, 4}
    BY <1>6, Lengths
  <2>2. /\ Program[g][1] = "read HEAD" /\ Program[g][2] = "read ref" /\ Program[g][3] = "resolve"
        /\ Program[g][4] = "walk"
    BY <1>6, Contents
  <2> QED
    BY <1>6, <2>1, <2>2
<1>7. CASE g = "forward"
  <2>1. n \in {1, 2, 3, 4, 5}
    BY <1>7, Lengths
  <2>2. /\ Program[g][1] = "name branch" /\ Program[g][2] = "resolve again"
        /\ Program[g][3] = "open ref" /\ Program[g][4] = "write ref"
        /\ Program[g][5] = "reconstruct"
    BY <1>7, Contents
  <2> QED
    BY <1>7, <2>1, <2>2
<1>8. CASE g = "diverge"
  <2>1. n \in {1, 2, 3, 4}
    BY <1>8, Lengths
  <2>2. /\ Program[g][1] = "merge file" /\ Program[g][2] = "resolve again"
        /\ Program[g][3] = "open MERGE_HEAD" /\ Program[g][4] = "write MERGE_HEAD"
    BY <1>8, Contents
  <2> QED
    BY <1>8, <2>1, <2>2
<1> QED
  BY <1>1, <1>2, <1>3, <1>4, <1>5, <1>6, <1>7, <1>8 DEF Programs, Commands

-----------------------------------------------------------------------------
(***************************************************************************)
(* Trees and indexes.                                                      *)
(***************************************************************************)
LEMMA SnapshotShape ==
  /\ \A f \in Snapshot : /\ DOMAIN f \subseteq Path
                         /\ f = [k \in DOMAIN f |-> f[k]]
                         /\ \A k \in DOMAIN f : f[k] \in Text
                         /\ Range(f) \subseteq Text
                         /\ DOMAIN f = {} => f = <<>>
  /\ \A D \in SUBSET Path : [D -> Text] \subseteq Snapshot
  /\ <<>> \in Snapshot /\ Range(<<>>) = {}
<1>1. \A f \in Snapshot : DOMAIN f = {} => f = <<>>
  BY DEF Snapshot
<1>2. <<>> \in [{} -> Text]
  OBVIOUS
<1> QED
  BY <1>1, <1>2 DEF Snapshot, Range

LEMMA OverlayShape ==
  ASSUME NEW f \in Snapshot, NEW g \in Snapshot
  PROVE  /\ Overlay(f, g) \in Snapshot
         /\ Range(Overlay(f, g)) \subseteq Range(f) \cup Range(g)
         /\ DOMAIN Overlay(f, g) = DOMAIN f \cup DOMAIN g
<1>1. DOMAIN f \subseteq Path /\ DOMAIN g \subseteq Path
  BY SnapshotShape
<1>2. \A k \in DOMAIN f \cup DOMAIN g : (IF k \in DOMAIN g THEN g[k] ELSE f[k]) \in Text
  BY SnapshotShape
<1>3. Overlay(f, g) \in [DOMAIN f \cup DOMAIN g -> Text]
  BY <1>2 DEF Overlay
<1>4. Overlay(f, g) \in Snapshot
  BY <1>1, <1>3, SnapshotShape
<1> QED
  BY <1>4 DEF Overlay, Range

\* What can be retrieved from a commit is a part of its tree.
LEMMA EntriesShape ==
  ASSUME TypeOK, NEW c \in 1 .. N
  PROVE  /\ Entries(c) \in Snapshot
         /\ DOMAIN Entries(c) \subseteq DOMAIN commits[c].tree
         /\ Range(Entries(c)) \subseteq Range(commits[c].tree)
<1> DEFINE t == commits[c].tree
           D == {k \in DOMAIN t : t[k] \in blobs \ torn.blobs}
<1>1. t \in Snapshot
  <2>1. commits[c] \in Commit
    BY DEF TypeOK, N
  <2> QED
    BY <2>1 DEF Commit
<1>2. DOMAIN t \subseteq Path /\ \A k \in DOMAIN t : t[k] \in Text
  BY <1>1, SnapshotShape
<1> HIDE DEF t
<1>3. CASE Entries(c) = <<>>
  BY <1>3, SnapshotShape
<1>4. CASE Entries(c) = Restrict(t, D)
  <2>1. Restrict(t, D) \in [D -> Text] /\ D \subseteq DOMAIN t
    BY <1>2 DEF Restrict
  <2>2. Restrict(t, D) \in Snapshot
    BY <1>2, <2>1, SnapshotShape
  <2>3. DOMAIN Restrict(t, D) \subseteq DOMAIN t /\ Range(Restrict(t, D)) \subseteq Range(t)
    BY <2>1 DEF Restrict, Range
  <2> HIDE DEF D
  <2> QED
    BY <1>4, <2>2, <2>3 DEF t
<1> QED
  BY <1>3, <1>4 DEF Entries, t

\* One more file in an index.
LEMMA OverlayOne ==
  ASSUME NEW f \in Snapshot, NEW k \in Path, NEW text \in Text,
         NEW h \in [{k} -> Text], h[k] = text
  PROVE  /\ Overlay(f, h) \in Snapshot /\ k \in DOMAIN Overlay(f, h) /\ Overlay(f, h)[k] = text
         /\ Range(Overlay(f, h)) \subseteq Range(f) \cup {text}
<1>1. h \in Snapshot /\ Range(h) = {text}
  BY SnapshotShape DEF Range
<1>2. Overlay(f, h)[k] = text
  BY DEF Overlay
<1>3. /\ Overlay(f, h) \in Snapshot /\ Range(Overlay(f, h)) \subseteq Range(f) \cup Range(h)
      /\ DOMAIN Overlay(f, h) = DOMAIN f \cup DOMAIN h
  BY <1>1, OverlayShape
<1> QED
  BY <1>1, <1>2, <1>3

-----------------------------------------------------------------------------
(***************************************************************************)
(* What processes know stays true.                                         *)
(***************************************************************************)
Grows ==
  /\ N \in Nat /\ N' \in Nat /\ N <= N'
  /\ blobs \subseteq blobs' /\ trees \subseteq trees' /\ together \subseteq together'

LEMMA TrueStays ==
  ASSUME Grows, NEW m, True(m)
  PROVE  True(m)'
<1>1. Met({"commit", "merge"}) => Met({"commit", "merge"})'
  BY DEF Grows, Met
<1>2. 0 .. N \subseteq 0 .. N' /\ 1 .. N \subseteq 1 .. N'
  BY DEF Grows
<1> QED
  BY <1>1, <1>2 DEF True, Grows

\* What has to hold of m for its next step, beside True(m).
Ready(m) ==
  /\ m.program = "add" /\ m.at = 2 => m.arg \in DOMAIN m.index
  /\ m.program = "commit" /\ m.at = 4 => m.index \in trees \cup {<<>>}
  /\ m.program = "commit" /\ m.at = 6 => mergeHead # Nothing
  /\ m.program = "checkout" /\ m.at = 2 => m.other \in 1 .. N /\ m.arg \in Branch \cup 1 .. N
  /\ m.program = "merge" /\ m.at = 3 => m.arg \in Branch \/ m.other = m.arg
  /\ (m.program = "add" /\ m.at = 6) \/ (m.program = "checkout" /\ m.at = 7)
       => m.todo \subseteq DOMAIN m.index

\* The process goes on as x, which is nothing or knows the truth.
Becomes(p, x) ==
  /\ run' = [run EXCEPT ![p] = x]
  /\ x # Idle => x \in Memory /\ True(x)' /\ Pending(x)' /\ x.cmd = run[p].cmd

\* What a process that goes on knows.
LEMMA NextStep ==
  ASSUME NEW m \in Memory
  PROVE  LET x == [m EXCEPT !.at = @ + 1]
         IN
         /\ x \in Memory /\ x.at = m.at + 1 /\ x.cmd = m.cmd /\ x.program = m.program /\ x.arg = m.arg
         /\ x.index = m.index /\ x.name = m.name /\ x.ours = m.ours /\ x.other = m.other
         /\ x.merge = m.merge /\ x.new = m.new /\ x.todo = m.todo
<1>1. \A n \in Nat : [m EXCEPT !.at = n] \in Memory
  BY DEF Memory
<1>2. m.at + 1 \in Nat
  BY DEF Memory
<1>3. [m EXCEPT !.at = @ + 1] \in Memory
  BY <1>1, <1>2
<1> QED
  BY <1>3 DEF Memory

LEMMA Going ==
  ASSUME NEW p \in Proc, TypeOK, run[p] # Idle, True(run[p]),
         NEW m \in Memory, True(m)', Ready(m)', Go(p, m), m.cmd = run[p].cmd,
         m.program = run[p].program, m.at = run[p].at
  PROVE  \E x : Becomes(p, x)
<1>1. CASE Last(p)
  <2>1. Becomes(p, Idle)
    BY <1>1 DEF Go, Finish, Becomes
  <2> QED
    BY <2>1
<1>2. CASE ~Last(p)
  <2> DEFINE x == [m EXCEPT !.at = @ + 1]
  <2>1. run' = [run EXCEPT ![p] = x]
    BY <1>2 DEF Go, Stay
  <2>2. x \in Memory /\ x.at = m.at + 1 /\ x.cmd = m.cmd /\ x.program = m.program /\ x.arg = m.arg
        /\ x.index = m.index /\ x.name = m.name /\ x.ours = m.ours /\ x.other = m.other
        /\ x.merge = m.merge /\ x.new = m.new /\ x.todo = m.todo
    BY NextStep
  <2> HIDE DEF x
  <2>3. m.program \in Programs /\ m.at \in Nat /\ m.at # Len(Program[m.program])
    BY <1>2, Lengths DEF Last, Memory
  <2>4. Len(Program[m.program]) \in Nat
    BY <2>3, Lengths DEF Programs, Commands
  <2>5. x.at \in 1 .. Len(Program[x.program])
    <3>1. m.at \in 1 .. Len(Program[m.program])
      BY DEF True
    <3> QED
      BY <2>2, <2>3, <2>4, <3>1
  <2>6. m.at \in Nat /\ x.at = m.at + 1 /\ x.at \in Nat
    BY <2>2, <2>3
  <2>9. x.program = "add" /\ x.at \in {3, 4, 5} => x.arg \in DOMAIN x.index
    <3>1. x.program = "add" /\ x.at \in {3, 4, 5} => m.program = "add" /\ m.at \in {2, 3, 4}
      BY <2>2, <2>6
    <3>2. m.program = "add" /\ m.at = 2 => m.arg \in DOMAIN m.index
      BY DEF Ready
    <3>3. m.program = "add" /\ m.at \in {3, 4, 5} => m.arg \in DOMAIN m.index
      BY DEF True
    <3> QED
      BY <2>2, <3>1, <3>2, <3>3
  <2>10. x.program = "commit" /\ x.at > 4 => x.index \in trees' \cup {<<>>}
    BY <2>2, <2>6 DEF Ready, True
  <2>11. x.program = "checkout" /\ x.at > 2 => x.other \in 1 .. N' /\ x.arg \in Branch \cup 1 .. N'
    BY <2>2, <2>6 DEF Ready, True
  <2>12. x.program \in {"add", "checkout"} /\ x.at = Len(Program[x.program])
             => x.todo \subseteq DOMAIN x.index
    <3>1. x.program \in {"add", "checkout"} /\ x.at = Len(Program[x.program]) =>
            (m.program = "add" /\ m.at = 6) \/ (m.program = "checkout" /\ m.at = 7)
      <4>0. Len(Program["add"]) = 7 /\ Len(Program["checkout"]) = 8
        BY Lengths
      <4>1. ASSUME x.program = "add", x.at = Len(Program[x.program])
            PROVE  m.at = 6
        <5>1. x.at = 7
          BY <4>0, <4>1
        <5> QED
          BY <2>6, <5>1
      <4>2. ASSUME x.program = "checkout", x.at = Len(Program[x.program])
            PROVE  m.at = 7
        <5>1. x.at = 8
          BY <4>0, <4>2
        <5> QED
          BY <2>6, <5>1
      <4> QED
        BY <2>2, <4>1, <4>2
    <3> QED
      BY <2>2, <3>1 DEF Ready
  <2>13. x.program = "commit" /\ x.at = 7 => mergeHead' # Nothing
    BY <2>2, <2>6 DEF Ready
  <2>14. x.program = "merge" /\ x.at = 4 => x.arg \in Branch \/ x.other = x.arg
    BY <2>2, <2>6 DEF Ready
  <2>7. True(x)'
    BY <2>2, <2>5, <2>9, <2>10, <2>11, <2>12, <2>14 DEF True
  <2>8. Pending(x)'
    BY <2>13 DEF Pending
  <2> QED
    BY <2>1, <2>2, <2>7, <2>8 DEF Becomes
<1> QED
  BY <1>1, <1>2

-----------------------------------------------------------------------------
(***************************************************************************)
(* A process that learns one thing knows the rest as before.               *)
(***************************************************************************)
Fields == {"cmd", "program", "arg", "at", "index", "name", "ours", "other", "merge", "new", "todo"}

Learns(m, o, field) == m \in Memory /\ \A f \in Fields \ {field} : m[f] = o[f]

LEMMA LearnedInMemory ==
  ASSUME NEW o \in Memory
  PROVE  /\ \A v \in Snapshot : [o EXCEPT !.index = v] \in Memory
         /\ \A v \in Branch \cup Nat : [o EXCEPT !.name = v] \in Memory
         /\ \A v \in Nat : [o EXCEPT !.ours = v] \in Memory
         /\ \A v \in Nat : [o EXCEPT !.other = v] \in Memory
         /\ \A v \in Nat : [o EXCEPT !.new = v] \in Memory
         /\ \A v \in Seq(Nat) : [o EXCEPT !.merge = v] \in Memory
         /\ \A v \in SUBSET Path : [o EXCEPT !.todo = v] \in Memory
BY DEF Memory

LEMMA Learned ==
  ASSUME NEW o \in Memory
  PROVE  /\ \A v \in Snapshot : Learns([o EXCEPT !.index = v], o, "index")
         /\ \A v \in Branch \cup Nat : Learns([o EXCEPT !.name = v], o, "name")
         /\ \A v \in Nat : Learns([o EXCEPT !.ours = v], o, "ours")
         /\ \A v \in Nat : Learns([o EXCEPT !.other = v], o, "other")
         /\ \A v \in Nat : Learns([o EXCEPT !.new = v], o, "new")
         /\ \A v \in Seq(Nat) : Learns([o EXCEPT !.merge = v], o, "merge")
         /\ \A v \in SUBSET Path : Learns([o EXCEPT !.todo = v], o, "todo")
         /\ \A v : /\ [o EXCEPT !.index = v].index = v /\ [o EXCEPT !.name = v].name = v
                   /\ [o EXCEPT !.ours = v].ours = v /\ [o EXCEPT !.other = v].other = v
                   /\ [o EXCEPT !.new = v].new = v /\ [o EXCEPT !.merge = v].merge = v
                   /\ [o EXCEPT !.todo = v].todo = v
<1>1. \A v : /\ [o EXCEPT !.index = v].index = v /\ [o EXCEPT !.name = v].name = v
             /\ [o EXCEPT !.ours = v].ours = v /\ [o EXCEPT !.other = v].other = v
             /\ [o EXCEPT !.new = v].new = v /\ [o EXCEPT !.merge = v].merge = v
             /\ [o EXCEPT !.todo = v].todo = v
  BY DEF Memory
<1>2. \A v : /\ \A f \in Fields \ {"index"} : [o EXCEPT !.index = v][f] = o[f]
             /\ \A f \in Fields \ {"name"} : [o EXCEPT !.name = v][f] = o[f]
             /\ \A f \in Fields \ {"ours"} : [o EXCEPT !.ours = v][f] = o[f]
             /\ \A f \in Fields \ {"other"} : [o EXCEPT !.other = v][f] = o[f]
             /\ \A f \in Fields \ {"new"} : [o EXCEPT !.new = v][f] = o[f]
             /\ \A f \in Fields \ {"merge"} : [o EXCEPT !.merge = v][f] = o[f]
             /\ \A f \in Fields \ {"todo"} : [o EXCEPT !.todo = v][f] = o[f]
  BY DEF Memory, Fields
<1> QED
  BY <1>1, <1>2, LearnedInMemory DEF Learns

\* What makes m true where o was: whatever is learned, m is where o is.
LEMMA TrueOfLearned ==
  ASSUME NEW o, NEW m, NEW f \in Fields \ {"cmd", "program", "arg", "at"}, Learns(m, o, f), True(o),
         f = "index" => /\ Range(m.index) \subseteq blobs
                        /\ m.program = "add" => m.at \notin {3, 4, 5, 7}
                        /\ m.program = "commit" => m.at <= 4
                        /\ m.program = "checkout" => m.at # 8,
         f = "name" => m.name \in Branch \cup 0 .. N,
         f = "ours" => m.ours \in 0 .. N,
         f = "new" => m.new \in 0 .. N,
         f = "other" => /\ m.program \notin {"forward", "diverge"}
                        /\ (m.program = "checkout" => m.at <= 2) /\ (m.program = "merge" => m.at <= 3),
         f = "merge" => \E c \in 0 .. N : m.merge = <<c>> /\ (c = Nothing => Met({"commit", "merge"})),
         f = "todo" => (m.program \in {"add", "checkout"} => m.at # Len(Program[m.program]))
  PROVE  /\ m.cmd = o.cmd /\ m.program = o.program /\ m.arg = o.arg /\ m.at = o.at
         /\ True(m)
<1>1. /\ m.cmd = o.cmd /\ m.program = o.program /\ m.arg = o.arg /\ m.at = o.at
      /\ f # "index" => m.index = o.index
      /\ f # "name" => m.name = o.name
      /\ f # "ours" => m.ours = o.ours
      /\ f # "other" => m.other = o.other
      /\ f # "merge" => m.merge = o.merge
      /\ f # "new" => m.new = o.new
      /\ f # "todo" => m.todo = o.todo
  BY DEF Learns, Fields
<1>2. m.at \in Nat
  BY DEF Learns, Memory
<1>3. /\ m.program = m.cmd \/ (m.cmd = "merge" /\ m.program \in {"forward", "diverge"})
      /\ m.at \in 1 .. Len(Program[m.program])
      /\ Sensible(m.cmd, m.arg)
  BY <1>1 DEF True
<1>4. /\ Range(m.index) \subseteq blobs
      /\ m.program = "add" /\ m.at \in {3, 4, 5} => m.arg \in DOMAIN m.index
      /\ m.program = "commit" /\ m.at > 4 => m.index \in trees \cup {<<>>}
  BY <1>1, <1>2 DEF True
<1>5. /\ m.name \in Branch \cup 0 .. N /\ m.ours \in 0 .. N /\ m.new \in 0 .. N
      /\ m.merge = <<>> \/ \E c \in 0 .. N : m.merge = <<c>> /\ (c = Nothing => Met({"commit", "merge"}))
  BY <1>1 DEF True
<1>6. (m.program = "checkout" /\ m.at > 2) \/ m.program \in {"forward", "diverge"}
        => m.other \in 1 .. N /\ m.arg \in Branch \cup 1 .. N
  BY <1>1, <1>2 DEF True
<1>8. m.program = "merge" /\ m.at = 4 => m.arg \in Branch \/ m.other = m.arg
  BY <1>1, <1>2 DEF True
<1>7. m.program \in {"add", "checkout"} /\ m.at = Len(Program[m.program])
        => m.todo \subseteq DOMAIN m.index
  BY <1>1, Lengths DEF True
<1> QED
  BY <1>1, <1>3, <1>4, <1>5, <1>6, <1>7, <1>8 DEF True

-----------------------------------------------------------------------------
(***************************************************************************)
(* Each step of a process, and what it knows afterwards.                   *)
(***************************************************************************)

\* What is so of a process before a step.
LEMMA BeforeStep ==
  ASSUME Inv, NEW p \in Proc, run[p] # Idle
  PROVE  /\ TypeOK /\ run[p] \in Memory /\ True(run[p]) /\ Pending(run[p])
         /\ run[p].program \in Programs /\ run[p].at \in 1 .. Len(Program[run[p].program])
         /\ run[p].at \in Nat /\ N \in Nat
<1>1. TypeOK /\ run[p] \in Memory /\ True(run[p]) /\ Pending(run[p])
  BY DEF Inv, TypeOK, Knowing
<1>2. run[p].program \in Programs /\ run[p].at \in Nat
  BY <1>1, Lengths DEF Memory
<1>3. N \in Nat
  BY <1>1 DEF TypeOK, N
<1> QED
  BY <1>1, <1>2, <1>3 DEF True

\* m is ready for the next step if nothing is asked of it there.
LEMMA ReadyElsewhere ==
  ASSUME NEW m, ~(m.program = "add" /\ m.at \in {2, 6}),
         ~(m.program = "commit" /\ m.at \in {4, 6}),
         ~(m.program = "checkout" /\ m.at \in {2, 7}),
         ~(m.program = "merge" /\ m.at = 3)
  PROVE  Ready(m)'
BY DEF Ready

\* What a name stands for.
LEMMA TipBound ==
  ASSUME Inv, NEW name \in Branch \cup 0 .. N
  PROVE  Tip(name) \in 0 .. N
BY DEF Inv, Bounded, Tip

\* A reading step that learns m.
LEMMA Learning ==
  ASSUME Inv, NEW p \in Proc, run[p] # Idle, Reads,
         NEW m \in Memory, True(m), Ready(m)', Go(p, m), m.cmd = run[p].cmd,
         m.program = run[p].program, m.at = run[p].at
  PROVE  \E x : Becomes(p, x)
<1>1. Grows
  <2>1. N \in Nat
    BY BeforeStep
  <2> QED
    BY <2>1 DEF Reads, Others, Grows, N, objects
<1>2. True(m)'
  BY <1>1, TrueStays
<1> QED
  BY <1>2, BeforeStep, Going

LEMMA ReadingSteps ==
  ASSUME Inv, NEW p \in Proc,
         LoadIndex(p) \/ ReadHead(p) \/ ReadRef(p) \/ ResolveAgain(p) \/ RereadMergeHead(p)
         \/ ReadTree(p)
  PROVE  \E x : Becomes(p, x)
<1>0. run[p] # Idle /\ Reads
  BY DEF At, LoadIndex, ReadHead, ReadRef, ResolveAgain, RereadMergeHead, ReadTree
<1>a. /\ TypeOK /\ run[p] \in Memory /\ True(run[p]) /\ Pending(run[p])
      /\ run[p].program \in Programs /\ run[p].at \in 1 .. Len(Program[run[p].program])
      /\ run[p].at \in Nat /\ N \in Nat
  BY <1>0, BeforeStep
<1>b. PICK o : o = run[p]
  OBVIOUS
<1>1. CASE LoadIndex(p)
  <2>1. PICK m : m = [o EXCEPT !.index = index]
    OBVIOUS
  <2>2. Go(p, m) /\ o.at = 1
    BY <1>1, <1>a, <1>b, <2>1, Where DEF LoadIndex, At
  <2>3. Learns(m, o, "index") /\ m.index = index
    BY <1>a, <1>b, <2>1, Learned DEF TypeOK
  <2>4. Range(m.index) \subseteq blobs /\ m.at = o.at
    BY <2>3 DEF Inv, Stored, Learns, Fields
  <2>5. True(m) /\ m.cmd = o.cmd /\ m.program = o.program /\ m.at = o.at
    BY <1>a, <1>b, <2>2, <2>3, <2>4, TrueOfLearned DEF Fields
  <2>6. Ready(m)'
    BY <2>2, <2>5, ReadyElsewhere
  <2> QED
    BY <1>0, <1>b, <2>2, <2>3, <2>5, <2>6, Learning DEF Learns
<1>2. CASE ReadHead(p)
  <2>1. PICK m : m = [o EXCEPT !.name = head]
    OBVIOUS
  <2>2. /\ Go(p, m)
        /\ \/ o.program = "commit" /\ o.at \in {2, 11}
           \/ o.program = "merge" /\ o.at = 1
           \/ o.program \in {"branch", "forward"}
    BY <1>2, <1>a, <1>b, <2>1, Where DEF ReadHead, At
  <2>a. head \in Branch \cup 0 .. N /\ 0 .. N \subseteq Nat
    BY <1>a DEF Inv, Bounded
  <2>3. Learns(m, o, "name") /\ m.name = head
    BY <1>a, <1>b, <2>1, <2>a, Learned
  <2>4. m.program = o.program /\ m.at = o.at
    BY <2>3 DEF Learns, Fields
  <2>5. True(m) /\ m.cmd = o.cmd
    BY <1>a, <1>b, <2>2, <2>3, <2>4, <2>a, TrueOfLearned DEF Fields
  <2>6. Ready(m)'
    BY <2>2, <2>4, ReadyElsewhere
  <2> QED
    BY <1>0, <1>b, <2>2, <2>3, <2>4, <2>5, <2>6, Learning DEF Learns
<1>3. CASE ReadRef(p)
  <2>1. PICK m : m = [o EXCEPT !.ours = Tip(o.name)]
    OBVIOUS
  <2>2. /\ Go(p, m)
        /\ \/ o.program = "commit" /\ o.at = 3
           \/ o.program = "merge" /\ o.at = 2
           \/ o.program = "branch"
    BY <1>3, <1>a, <1>b, <2>1, Where DEF ReadRef, At
  <2>a. Tip(o.name) \in 0 .. N /\ 0 .. N \subseteq Nat
    BY <1>a, <1>b, TipBound DEF True
  <2>3. Learns(m, o, "ours") /\ m.ours = Tip(o.name)
    BY <1>a, <1>b, <2>1, <2>a, Learned
  <2>4. m.program = o.program /\ m.at = o.at
    BY <2>3 DEF Learns, Fields
  <2>5. True(m) /\ m.cmd = o.cmd
    BY <1>a, <1>b, <2>2, <2>3, <2>4, <2>a, TrueOfLearned DEF Fields
  <2>6. Ready(m)'
    BY <2>2, <2>4, ReadyElsewhere
  <2> QED
    BY <1>0, <1>b, <2>2, <2>3, <2>4, <2>5, <2>6, Learning DEF Learns
<1>4. CASE ResolveAgain(p)
  <2>1. PICK m : m = [o EXCEPT !.new = Tip(o.arg)]
    OBVIOUS
  <2>2. /\ Go(p, m)
        /\ o.program \in {"forward", "diverge"}
    BY <1>4, <1>a, <1>b, <2>1, Where DEF ResolveAgain, At
  <2>a. Tip(o.arg) \in 0 .. N /\ 0 .. N \subseteq Nat
    <3>1. o.arg \in Branch \cup 0 .. N
      BY <1>a, <1>b, <2>2 DEF True
    <3> QED
      BY <1>a, <3>1, TipBound
  <2>3. Learns(m, o, "new") /\ m.new = Tip(o.arg)
    BY <1>a, <1>b, <2>1, <2>a, Learned
  <2>4. m.program = o.program /\ m.at = o.at
    BY <2>3 DEF Learns, Fields
  <2>5. True(m) /\ m.cmd = o.cmd
    BY <1>a, <1>b, <2>2, <2>3, <2>4, <2>a, TrueOfLearned DEF Fields
  <2>6. Ready(m)'
    BY <2>2, <2>4, ReadyElsewhere
  <2> QED
    BY <1>0, <1>b, <2>2, <2>3, <2>4, <2>5, <2>6, Learning DEF Learns
<1>5. CASE RereadMergeHead(p)
  <2>1. PICK m : m = [o EXCEPT !.merge = <<mergeHead>>]
    OBVIOUS
  <2>2. /\ Go(p, m)
        /\ o.program = "commit" /\ o.at = 7
    BY <1>5, <1>a, <1>b, <2>1, Where DEF RereadMergeHead, At
  <2>a. /\ mergeHead \in 0 .. N /\ <<mergeHead>> \in Seq(Nat)
        /\ mergeHead = Nothing => Met({"commit", "merge"})
    <3>1. mergeHead \in 0 .. N /\ (mergeHead = Nothing => Met({"commit", "merge"}))
      BY <1>a, <1>b, <2>2 DEF Inv, Bounded, Pending
    <3>2. mergeHead \in Nat
      BY <1>a, <3>1
    <3> QED
      BY <3>1, <3>2
  <2>3. Learns(m, o, "merge") /\ m.merge = <<mergeHead>>
    <3>1. PICK v : v = <<mergeHead>>
      OBVIOUS
    <3>2. v \in Seq(Nat) /\ m = [o EXCEPT !.merge = v]
      BY <2>1, <2>a, <3>1
    <3>3. o \in Memory
      BY <1>a, <1>b
    <3>4. Learns(m, o, "merge")
      BY <3>2, <3>3, Learned
    <3>5. m.merge = v
      BY <3>2, <3>3, Learned
    <3> QED
      BY <3>1, <3>4, <3>5
  <2>4. m.program = o.program /\ m.at = o.at
    BY <2>3 DEF Learns, Fields
  <2>5. True(m) /\ m.cmd = o.cmd
    BY <1>a, <1>b, <2>2, <2>3, <2>4, <2>a, TrueOfLearned DEF Fields
  <2>6. Ready(m)'
    BY <2>2, <2>4, ReadyElsewhere
  <2> QED
    BY <1>0, <1>b, <2>2, <2>3, <2>4, <2>5, <2>6, Learning DEF Learns
<1>6. CASE ReadTree(p)
  <2>1. PICK m : m = [o EXCEPT !.index = Overlay(o.index, Entries(o.other))]
    OBVIOUS
  <2>2. /\ Go(p, m)
        /\ o.program = "checkout" /\ o.at = 4
    BY <1>6, <1>a, <1>b, <2>1, Where DEF ReadTree, At
  <2>a. /\ Overlay(o.index, Entries(o.other)) \in Snapshot
        /\ Range(Overlay(o.index, Entries(o.other))) \subseteq blobs
    <3>1. o.other \in 1 .. N /\ o.index \in Snapshot /\ Range(o.index) \subseteq blobs
      BY <1>a, <1>b, <2>2 DEF True, Memory
    <3>2. Entries(o.other) \in Snapshot /\ Range(Entries(o.other)) \subseteq blobs
      BY <1>a, <3>1, EntriesShape DEF Inv, Stored
    <3> QED
      BY <3>1, <3>2, OverlayShape
  <2>3. Learns(m, o, "index") /\ m.index = Overlay(o.index, Entries(o.other))
    BY <1>a, <1>b, <2>1, <2>a, Learned
  <2>4. m.program = o.program /\ m.at = o.at
    BY <2>3 DEF Learns, Fields
  <2>5. True(m) /\ m.cmd = o.cmd
    BY <1>a, <1>b, <2>2, <2>3, <2>4, <2>a, TrueOfLearned DEF Fields
  <2>6. Ready(m)'
    BY <2>2, <2>4, ReadyElsewhere
  <2> QED
    BY <1>0, <1>b, <2>2, <2>3, <2>4, <2>5, <2>6, Learning DEF Learns
<1> QED
  BY <1>1, <1>2, <1>3, <1>4, <1>5, <1>6

\* The steps that look for a way to go on.
LEMMA DecidingSteps ==
  ASSUME Inv, NEW p \in Proc, ResolveOther(p) \/ ReadMergeHead(p) \/ IsHeadBranch(p) \/ Walk(p)
  PROVE  \E x : Becomes(p, x)
<1>0. run[p] # Idle /\ Reads
  BY DEF At, ResolveOther, ReadMergeHead, IsHeadBranch, Walk
<1>a. /\ TypeOK /\ run[p] \in Memory /\ True(run[p]) /\ Pending(run[p])
      /\ run[p].program \in Programs /\ run[p].at \in 1 .. Len(Program[run[p].program])
      /\ run[p].at \in Nat /\ N \in Nat
  BY <1>0, BeforeStep
<1>b. PICK o : o = run[p]
  OBVIOUS
<1>c. Grows
  BY <1>0, <1>a DEF Reads, Others, Grows, N, objects
\* It may end.
<1>d. ASSUME run' = [run EXCEPT ![p] = Idle] PROVE \E x : Becomes(p, x)
  <2>1. Becomes(p, Idle)
    BY <1>d DEF Becomes
  <2> QED
    BY <2>1
\* It may go somewhere else.
<1>e. ASSUME NEW x \in Memory, run' = [run EXCEPT ![p] = x], True(x), x.cmd = o.cmd,
             x.program # "commit" \/ x.at # 7
      PROVE  \E y : Becomes(p, y)
  <2>1. True(x)'
    BY <1>c, <1>e, TrueStays
  <2>2. Pending(x)'
    BY <1>e DEF Pending
  <2>3. Becomes(p, x)
    BY <1>b, <1>e, <2>1, <2>2 DEF Becomes
  <2> QED
    BY <2>3
<1>1. CASE ResolveOther(p)
  <2>1. PICK m : m = [o EXCEPT !.other = Tip(o.arg)]
    OBVIOUS
  <2>2. /\ \/ run' = [run EXCEPT ![p] = Idle]
           \/ Go(p, m) /\ (o.cmd = "checkout" => Readable(Tip(o.arg)))
        /\ \/ o.program = "checkout" /\ o.at = 2
           \/ o.program = "merge" /\ o.at = 3
    BY <1>1, <1>a, <1>b, <2>1, Where DEF ResolveOther, At, Stop
  <2>3. Tip(o.arg) \in Nat /\ (o.arg \in Branch \/ Tip(o.arg) = o.arg)
        /\ o.cmd \in {"checkout", "merge"}
    <3>1. o.cmd \in {"checkout", "merge"} /\ o.arg \in Branch \cup Ids
      BY <1>a, <1>b, <2>2 DEF True, Sensible
    <3> QED
      BY <1>a, <3>1 DEF Tip, TypeOK, Ids, Nothing, Inv, Bounded
  <2>4. CASE Go(p, m) /\ (o.cmd = "checkout" => Readable(Tip(o.arg)))
    <3>1. Learns(m, o, "other") /\ m.other = Tip(o.arg)
      BY <1>a, <1>b, <2>1, <2>3, Learned
    <3>2. m.program = o.program /\ m.at = o.at /\ m.cmd = o.cmd /\ m.arg = o.arg
      BY <3>1 DEF Learns, Fields
    <3>3. True(m)
      BY <1>a, <1>b, <2>2, <3>1, <3>2, TrueOfLearned DEF Fields
    <3>4. m.program = "checkout" => m.other \in 1 .. N /\ m.arg \in Branch \cup 1 .. N
      <4>1. m.program = "checkout" => o.cmd = "checkout"
        BY <1>a, <1>b, <3>2 DEF True
      <4> QED
        BY <2>3, <2>4, <3>1, <3>2, <4>1 DEF Readable, N
    <3>5. Ready(m)'
      <4>1. N' = N
        BY <1>0 DEF Reads, N, objects
      <4> QED
        BY <2>2, <2>3, <3>1, <3>2, <3>4, <4>1 DEF Ready
    <3> QED
      BY <1>0, <1>b, <2>4, <3>1, <3>2, <3>3, <3>5, Learning DEF Learns
  <2> QED
    BY <1>d, <2>2, <2>4
<1>2. CASE ReadMergeHead(p)
  <2>1. o.program = "commit" /\ o.at = 6
    BY <1>2, <1>a, <1>b, Where DEF ReadMergeHead, At
  <2>2. CASE mergeHead = Nothing
    <3>1. PICK x : x = [o EXCEPT !.at = @ + 3]
      OBVIOUS
    <3>2. run' = [run EXCEPT ![p] = x]
      BY <1>2, <1>b, <2>2, <3>1 DEF ReadMergeHead, Stay
    <3>3. x \in Memory
      <4>1. o \in Memory
        BY <1>a, <1>b
      <4> QED
        BY <3>1, <4>1 DEF Memory
    <3>4. /\ x.at = o.at + 3
          /\ x.cmd = o.cmd /\ x.program = o.program /\ x.arg = o.arg /\ x.index = o.index
          /\ x.name = o.name /\ x.ours = o.ours /\ x.other = o.other /\ x.merge = o.merge
          /\ x.new = o.new /\ x.todo = o.todo
      BY <1>a, <1>b, <3>1 DEF Memory
    <3>9. x.at = 9 /\ x.at # 7
      BY <2>1, <3>4
    <3>5. x.at \in 1 .. Len(Program[x.program])
      BY <2>1, <3>9, <3>4, Lengths
    <3>6. True(x)
      BY <1>a, <1>b, <2>1, <3>9, <3>4, <3>5 DEF True
    <3> QED
      BY <1>e, <3>2, <3>3, <3>4, <3>6, <3>9
  <2>3. CASE mergeHead # Nothing
    <3>1. Go(p, o)
      BY <1>2, <1>b, <2>3 DEF ReadMergeHead
    <3>2. Ready(o)'
      BY <1>0, <2>1, <2>3 DEF Ready, Reads, pointers
    <3> QED
      BY <1>0, <1>a, <1>b, <3>1, <3>2, Learning
  <2> QED
    BY <2>2, <2>3
<1>3. CASE IsHeadBranch(p)
  <2>1. o.program = "commit" /\ o.at = 10
    BY <1>3, <1>a, <1>b, Where DEF IsHeadBranch, At
  <2>2. CASE Go(p, o)
    <3>1. Ready(o)'
      BY <2>1, ReadyElsewhere
    <3> QED
      BY <1>0, <1>a, <1>b, <2>2, <3>1, Learning
  <2>3. CASE Finish(p)
    BY <1>d, <2>3 DEF Finish
  <2> QED
    BY <1>3, <1>b, <2>2, <2>3 DEF IsHeadBranch
<1>4. CASE Walk(p)
  <2>1. o.program = "merge" /\ o.at = 4 /\ o.cmd = "merge"
    BY <1>4, <1>a, <1>b, Where DEF Walk, At, True
  <2>2. CASE run' = [run EXCEPT ![p] = Idle]
    BY <1>d, <2>2
  <2>3. CASE /\ Readable(o.other)
             /\ \/ run' = [run EXCEPT ![p] = [o EXCEPT !.program = "forward", !.at = 1]]
                \/ run' = [run EXCEPT ![p] = [o EXCEPT !.program = "diverge", !.at = 1,
                                                      !.todo = DOMAIN Entries(o.other)]]
    <3>1. o.other \in 1 .. N
      BY <2>3 DEF Readable, N
    <3>2. o.arg \in Branch \cup 1 .. N
      BY <1>a, <1>b, <2>1, <3>1 DEF True
    <3>3. DOMAIN Entries(o.other) \subseteq Path
      BY <1>a, <3>1, EntriesShape, SnapshotShape
    <3>4. PICK x : /\ run' = [run EXCEPT ![p] = x]
                   /\ \/ x = [o EXCEPT !.program = "forward", !.at = 1]
                      \/ x = [o EXCEPT !.program = "diverge", !.at = 1,
                                      !.todo = DOMAIN Entries(o.other)]
      BY <2>3
    <3>9. o \in Memory /\ {"forward", "diverge"} \subseteq DOMAIN Program
      BY <1>a, <1>b, Lengths DEF Programs
    <3>5. x \in Memory /\ x.program \in {"forward", "diverge"} /\ x.at = 1
      <4>1. CASE x = [o EXCEPT !.program = "forward", !.at = 1]
        BY <3>9, <4>1 DEF Memory
      <4>2. CASE x = [o EXCEPT !.program = "diverge", !.at = 1, !.todo = DOMAIN Entries(o.other)]
        <5>1. PICK d : d = DOMAIN Entries(o.other)
          OBVIOUS
        <5>2. d \in SUBSET Path /\ x = [o EXCEPT !.program = "diverge", !.at = 1, !.todo = d]
          BY <3>3, <4>2, <5>1
        <5> QED
          BY <3>9, <5>2 DEF Memory
      <4> QED
        BY <3>4, <4>1, <4>2
    <3>6. /\ x.cmd = o.cmd /\ x.arg = o.arg /\ x.index = o.index /\ x.name = o.name
          /\ x.ours = o.ours /\ x.other = o.other /\ x.merge = o.merge /\ x.new = o.new
      BY <1>a, <1>b, <3>4 DEF Memory
    <3>7. x.at \in 1 .. Len(Program[x.program])
      <4>1. 1 \in 1 .. Len(Program["forward"]) /\ 1 \in 1 .. Len(Program["diverge"])
        BY Lengths
      <4> QED
        BY <3>5, <4>1
    <3>8. True(x)
      BY <1>a, <1>b, <2>1, <3>1, <3>2, <3>5, <3>6, <3>7 DEF True
    <3> QED
      BY <1>e, <3>4, <3>5, <3>6, <3>8
  <2> QED
    <3>1. PICK y, z : /\ y = [o EXCEPT !.program = "forward", !.at = 1]
                      /\ z = [o EXCEPT !.program = "diverge", !.at = 1,
                                      !.todo = DOMAIN Entries(o.other)]
      OBVIOUS
    <3>2. Stop(p) \/ (Readable(o.other) /\ (Stay(p, y) \/ Stay(p, z)))
      BY <1>4, <1>b, <3>1 DEF Walk
    <3> QED
      BY <2>2, <2>3, <3>1, <3>2 DEF Stay, Stop
<1> QED
  BY <1>1, <1>2, <1>3, <1>4


\* The steps that write, and know nothing new afterwards.
LEMMA PlainSteps ==
  ASSUME Inv, NEW p \in Proc,
         \/ MakeJit(p) \/ ReopenBlob(p) \/ WriteBlob(p) \/ WriteTree(p) \/ ClearMergeHead(p) \/ OpenRef(p)
         \/ WriteRef(p) \/ OpenHead(p) \/ WriteHead(p) \/ Reconstruct(p) \/ OpenMergeHead(p)
  PROVE  Grows /\ \E x : Becomes(p, x)
<1>0. run[p] # Idle
  BY DEF At, MakeJit, ReopenBlob, WriteBlob, WriteTree, ClearMergeHead, OpenRef, WriteRef, OpenHead, WriteHead,
         Reconstruct, OpenMergeHead
<1>a. /\ TypeOK /\ run[p] \in Memory /\ True(run[p]) /\ Pending(run[p])
      /\ run[p].program \in Programs /\ run[p].at \in 1 .. Len(Program[run[p].program])
      /\ run[p].at \in Nat /\ N \in Nat
  BY <1>0, BeforeStep
<1>b. PICK o : o = run[p]
  OBVIOUS
<1>1. /\ ~(o.program = "add" /\ o.at \in {2, 6})
      /\ ~(o.program = "commit" /\ o.at \in {4, 6})
      /\ ~(o.program = "checkout" /\ o.at \in {2, 7})
      /\ ~(o.program = "merge" /\ o.at = 3)
  <2>1. Program[o.program][o.at] \in
          {"make .jit", "reopen blob", "write blob", "write tree", "clear MERGE_HEAD", "open ref", "write ref",
           "open HEAD", "write HEAD", "reconstruct", "open MERGE_HEAD"}
    BY <1>b DEF At, MakeJit, ReopenBlob, WriteBlob, WriteTree, ClearMergeHead, OpenRef, WriteRef,
       OpenHead, WriteHead, Reconstruct, OpenMergeHead
  <2>2. \/ o.program \in {"init", "branch", "forward", "diverge"}
        \/ o.program = "add" /\ o.at \in {3, 4, 5}
        \/ o.program = "commit" /\ o.at \in {5, 8, 12, 13}
        \/ o.program = "checkout" /\ o.at \in {3, 5, 6}
    <3>1. PICK g, n : g = o.program /\ n = o.at
      OBVIOUS
    <3>2. g \in Programs /\ n \in 1 .. Len(Program[g])
      BY <1>a, <1>b, <3>1
    <3>3. Program[g][n] \in
            {"make .jit", "reopen blob", "write blob", "write tree", "clear MERGE_HEAD", "open ref", "write ref",
             "open HEAD", "write HEAD", "reconstruct", "open MERGE_HEAD"}
      BY <2>1, <3>1
    <3>4. \/ g \in {"init", "branch", "forward", "diverge"}
          \/ g = "add" /\ n \in {3, 4, 5}
          \/ g = "commit" /\ n \in {5, 8, 12, 13}
          \/ g = "checkout" /\ n \in {3, 5, 6}
      <4>1. CASE Program[g][n] = "make .jit"
        BY <3>2, <4>1, Where
      <4>2. CASE Program[g][n] = "write blob"
        BY <3>2, <4>2, Where
      <4>3. CASE Program[g][n] = "write tree"
        BY <3>2, <4>3, Where
      <4>4. CASE Program[g][n] = "clear MERGE_HEAD"
        BY <3>2, <4>4, Where
      <4>5. CASE Program[g][n] = "open ref"
        BY <3>2, <4>5, Where
      <4>6. CASE Program[g][n] = "write ref"
        BY <3>2, <4>6, Where
      <4>7. CASE Program[g][n] = "open HEAD"
        BY <3>2, <4>7, Where
      <4>8. CASE Program[g][n] = "write HEAD"
        BY <3>2, <4>8, Where
      <4>9. CASE Program[g][n] = "reconstruct"
        BY <3>2, <4>9, Where
      <4>11. CASE Program[g][n] = "reopen blob"
        BY <3>2, <4>11, Where
      <4>10. CASE Program[g][n] = "open MERGE_HEAD"
        BY <3>2, <4>10, Where
      <4> QED
        BY <3>3, <4>1, <4>2, <4>3, <4>4, <4>5, <4>6, <4>7, <4>8, <4>9, <4>10, <4>11
    <3> QED
      BY <3>1, <3>4
  <2> QED
    BY <2>2
<1>2. Grows
  <2>1. UNCHANGED <<blobs, trees, commits, together>>
    BY DEF MakeJit, ReopenBlob, WriteBlob, WriteTree, ClearMergeHead, OpenRef, WriteRef, OpenHead, WriteHead,
           Reconstruct, OpenMergeHead, Others, objects
  <2> QED
    BY <1>a, <2>1 DEF Grows, N
<1>3. Go(p, o) \/ run' = [run EXCEPT ![p] = Idle]
  BY <1>b DEF MakeJit, ReopenBlob, WriteBlob, WriteTree, ClearMergeHead, OpenRef, WriteRef, OpenHead, WriteHead,
         Reconstruct, OpenMergeHead, Stop
<1>4. CASE Go(p, o)
  <2>1. Ready(o)' /\ True(o)' /\ o \in Memory
    BY <1>a, <1>b, <1>1, <1>2, ReadyElsewhere, TrueStays
  <2> QED
    BY <1>0, <1>a, <1>b, <1>2, <1>4, <2>1, Going
<1>5. CASE run' = [run EXCEPT ![p] = Idle]
  <2>1. Becomes(p, Idle)
    BY <1>5 DEF Becomes
  <2> QED
    BY <1>2, <2>1
<1> QED
  BY <1>3, <1>4, <1>5

\* The other steps that write.
LEMMA OpenBlobStep ==
  ASSUME Inv, NEW p \in Proc, OpenBlob(p)
  PROVE  Grows /\ \E x : Becomes(p, x)
<1>0. run[p] # Idle
  BY DEF At, OpenBlob
<1>a. /\ TypeOK /\ run[p] \in Memory /\ True(run[p]) /\ Pending(run[p])
      /\ run[p].program \in Programs /\ run[p].at \in 1 .. Len(Program[run[p].program])
      /\ run[p].at \in Nat /\ N \in Nat
  BY <1>0, BeforeStep
<1>b. PICK o, text : o = run[p] /\ text = wd[o.arg]
  OBVIOUS
<1>1. o.program = "add" /\ o.at = 2
  BY <1>a, <1>b, Where DEF OpenBlob, At
<1>2. o.arg \in Path /\ text \in Text /\ o \in Memory /\ o.index \in Snapshot
      /\ o.index \in Snapshot /\ Range(o.index) \subseteq blobs
  <2>1. o.cmd = "add" /\ Sensible(o.cmd, o.arg)
    BY <1>a, <1>b, <1>1 DEF True
  <2> QED
    BY <1>a, <1>b, <2>1 DEF Sensible, TypeOK, True, Memory
<1>3. PICK g : g = Overlay(o.index, [f \in {o.arg} |-> text])
  OBVIOUS
<1>4. g \in Snapshot /\ o.arg \in DOMAIN g /\ g[o.arg] = text
      /\ Range(g) \subseteq Range(o.index) \cup {text}
  <2>1. PICK k, h : k = o.arg /\ h = [f \in {o.arg} |-> text]
    OBVIOUS
  <2>2. h \in [{k} -> Text] /\ h[k] = text /\ DOMAIN h = {k}
    BY <1>2, <2>1
  <2>3. g = Overlay(o.index, h) /\ k \in Path
    BY <1>2, <1>3, <2>1
  <2> QED
    BY <1>2, <2>1, <2>2, <2>3, OverlayOne
<1>5. PICK m : m = [o EXCEPT !.index = g]
  OBVIOUS
<1>6. Go(p, m) /\ blobs' = blobs \cup {text}
  BY <1>b, <1>3, <1>5 DEF OpenBlob
<1>7. Grows
  <2>1. UNCHANGED <<trees, commits, together>>
    BY DEF OpenBlob, Others
  <2> QED
    BY <1>a, <1>6, <2>1 DEF Grows, N
<1>8. Learns(m, o, "index") /\ m.index = g
  BY <1>2, <1>4, <1>5, Learned
<1>9. /\ m.cmd = o.cmd /\ m.program = o.program /\ m.arg = o.arg /\ m.at = o.at
      /\ m.name = o.name /\ m.ours = o.ours /\ m.other = o.other
      /\ m.merge = o.merge /\ m.new = o.new /\ m.todo = o.todo
  BY <1>8 DEF Learns, Fields
<1>10. True(o)'
  BY <1>a, <1>b, <1>7, TrueStays
<1>11. True(m)'
  <2>1. Range(m.index) \subseteq blobs'
    BY <1>2, <1>4, <1>6, <1>8
  <2>2. m.at # Len(Program[m.program])
    BY <1>1, <1>9, Lengths
  <2> QED
    BY <1>1, <1>9, <1>10, <2>1, <2>2 DEF True
<1>12. Ready(m)'
  BY <1>1, <1>4, <1>8, <1>9 DEF Ready
<1> QED
  BY <1>0, <1>a, <1>b, <1>6, <1>7, <1>8, <1>9, <1>11, <1>12, Going DEF Learns

LEMMA OpenTreeStep ==
  ASSUME Inv, NEW p \in Proc, OpenTree(p)
  PROVE  Grows /\ \E x : Becomes(p, x)
<1>0. run[p] # Idle
  BY DEF At, OpenTree
<1>a. /\ TypeOK /\ run[p] \in Memory /\ True(run[p]) /\ Pending(run[p])
      /\ run[p].program \in Programs /\ run[p].at \in 1 .. Len(Program[run[p].program])
      /\ run[p].at \in Nat /\ N \in Nat
  BY <1>0, BeforeStep
<1>b. PICK o : o = run[p]
  OBVIOUS
<1>1. o.program = "commit" /\ o.at = 4
  BY <1>a, <1>b, Where DEF OpenTree, At
<1>2. o \in Memory /\ o.index \in Snapshot
  BY <1>a, <1>b DEF Memory
<1>3. trees \subseteq trees' /\ o.index \in trees' \cup {<<>>}
  BY <1>b, <1>2, SnapshotShape DEF OpenTree
<1>4. Grows
  <2>1. UNCHANGED <<blobs, commits, together>>
    BY DEF OpenTree, Others
  <2> QED
    BY <1>a, <1>3, <2>1 DEF Grows, N
<1>5. Go(p, o) /\ True(o)'
  BY <1>a, <1>b, <1>4, TrueStays DEF OpenTree
<1>6. Ready(o)'
  BY <1>1, <1>3 DEF Ready
<1> QED
  BY <1>0, <1>a, <1>b, <1>2, <1>4, <1>5, <1>6, Going

LEMMA StoreCommitStep ==
  ASSUME Inv, NEW p \in Proc, StoreCommit(p)
  PROVE  /\ Grows /\ \E x : Becomes(p, x)
         /\ \E c \in Commit : /\ commits' = Append(commits, c) /\ N < MaxCommits
                              /\ c.tree = run[p].index /\ Range(c.parents) \subseteq 0 .. N
                              /\ Nothing \in Range(c.parents) => Met({"commit", "merge"})
                              /\ Range(c.tree) \subseteq blobs /\ c.tree \in trees \cup {<<>>}
<1>0. run[p] # Idle
  BY DEF At, StoreCommit, Store
<1>a. /\ TypeOK /\ run[p] \in Memory /\ True(run[p]) /\ Pending(run[p])
      /\ run[p].program \in Programs /\ run[p].at \in 1 .. Len(Program[run[p].program])
      /\ run[p].at \in Nat /\ N \in Nat
  BY <1>0, BeforeStep
<1>b. PICK o : o = run[p]
  OBVIOUS
<1>1. o.program = "commit" /\ o.at = 9
  BY <1>a, <1>b, Where DEF StoreCommit, Store, At
<1>2. PICK m : m = [o EXCEPT !.new = N + 1]
  OBVIOUS
<1>3. PICK c : c = [tree |-> o.index, parents |-> Ours(p) \o o.merge]
  OBVIOUS
<1>4. Go(p, m) /\ commits' = Append(commits, c) /\ N < MaxCommits
  BY <1>b, <1>2, <1>3 DEF StoreCommit, Store, N
<1>5. commits \in Seq(Commit)
  BY <1>a DEF TypeOK
<1>6. /\ Ours(p) \in Seq(0 .. N) /\ (\A i \in 1 .. Len(Ours(p)) : Ours(p)[i] \in 1 .. N)
      /\ o.merge \in Seq(0 .. N)
      /\ \A i \in 1 .. Len(o.merge) : o.merge[i] = Nothing => Met({"commit", "merge"})
  <2>1. o.ours \in 0 .. N
    BY <1>a, <1>b DEF True
  <2>2. CASE o.ours # Nothing
    <3>1. Ours(p) = <<o.ours>> /\ o.ours \in 1 .. N
      BY <1>a, <1>b, <2>1, <2>2 DEF Ours, Nothing
    <3>2. Ours(p) \in Seq(0 .. N) /\ (\A i \in 1 .. Len(Ours(p)) : Ours(p)[i] \in 1 .. N)
      BY <2>1, <3>1
    <3>3. /\ o.merge \in Seq(0 .. N)
          /\ \A i \in 1 .. Len(o.merge) : o.merge[i] = Nothing => Met({"commit", "merge"})
      <4>1. CASE o.merge = <<>>
        BY <4>1
      <4>2. CASE \E d \in 0 .. N : o.merge = <<d>> /\ (d = Nothing => Met({"commit", "merge"}))
        BY <4>2
      <4> QED
        BY <1>a, <1>b, <4>1, <4>2 DEF True
    <3> QED
      BY <3>2, <3>3
  <2>3. CASE o.ours = Nothing
    <3>1. Ours(p) = <<>>
      BY <1>b, <2>3 DEF Ours
    <3>2. Ours(p) \in Seq(0 .. N) /\ (\A i \in 1 .. Len(Ours(p)) : Ours(p)[i] \in 1 .. N)
      BY <3>1
    <3>3. /\ o.merge \in Seq(0 .. N)
          /\ \A i \in 1 .. Len(o.merge) : o.merge[i] = Nothing => Met({"commit", "merge"})
      <4>1. CASE o.merge = <<>>
        BY <4>1
      <4>2. CASE \E d \in 0 .. N : o.merge = <<d>> /\ (d = Nothing => Met({"commit", "merge"}))
        BY <4>2
      <4> QED
        BY <1>a, <1>b, <4>1, <4>2 DEF True
    <3> QED
      BY <3>2, <3>3
  <2> QED
    BY <2>2, <2>3
<1>7. /\ c.parents \in Seq(0 .. N) /\ Range(c.parents) \subseteq 0 .. N
      /\ Nothing \in Range(c.parents) => Met({"commit", "merge"})
  <2>1. c.parents = Ours(p) \o o.merge
    BY <1>3
  <2>2. PICK s, t : s = Ours(p) /\ t = o.merge
    OBVIOUS
  <2>3. /\ s \in Seq(0 .. N) /\ t \in Seq(0 .. N) /\ c.parents = s \o t
        /\ \A i \in 1 .. Len(s) : s[i] # Nothing
        /\ \A i \in 1 .. Len(t) : t[i] = Nothing => Met({"commit", "merge"})
    BY <1>a, <1>6, <2>1, <2>2 DEF Nothing
  <2>4. \A i \in 1 .. Len(c.parents) :
          c.parents[i] \in 0 .. N /\ (c.parents[i] = Nothing => Met({"commit", "merge"}))
    <3>1. /\ Len(c.parents) = Len(s) + Len(t) /\ Len(s) \in Nat /\ Len(t) \in Nat
          /\ \A i \in 1 .. Len(s) + Len(t) : c.parents[i] = IF i <= Len(s) THEN s[i] ELSE t[i - Len(s)]
      BY <2>3, ConcatProperties
    <3>2. ASSUME NEW i \in 1 .. Len(s) + Len(t)
          PROVE  c.parents[i] \in 0 .. N /\ (c.parents[i] = Nothing => Met({"commit", "merge"}))
      <4>1. CASE i <= Len(s)
        <5>1. i \in 1 .. Len(s) /\ c.parents[i] = s[i]
          BY <3>1, <4>1
        <5>2. s[i] \in 0 .. N /\ s[i] # Nothing
          BY <2>3, <5>1, ElementOfSeq
        <5> QED
          BY <5>1, <5>2
      <4>2. CASE ~(i <= Len(s))
        <5>1. i - Len(s) \in 1 .. Len(t) /\ c.parents[i] = t[i - Len(s)]
          BY <3>1, <4>2
        <5>2. PICK j : j = i - Len(s)
          OBVIOUS
        <5>3. j \in 1 .. Len(t) /\ c.parents[i] = t[j]
          BY <5>1, <5>2
        <5>4. t[j] \in 0 .. N /\ (t[j] = Nothing => Met({"commit", "merge"}))
          BY <2>3, <5>3, ElementOfSeq
        <5> QED
          BY <5>3, <5>4
      <4> QED
        BY <4>1, <4>2
    <3> QED
      BY <3>1, <3>2
  <2> QED
    BY <2>3, <2>4 DEF Range
<1>8. o \in Memory /\ o.index \in Snapshot /\ Range(o.index) \subseteq blobs
      /\ o.index \in trees \cup {<<>>}
  BY <1>a, <1>b, <1>1 DEF Memory, True
<1>9. c \in Commit /\ c.tree = o.index
  <2>1. c.parents \in Seq(Nat)
    BY <1>a, <1>7
  <2>2. c = [tree |-> o.index, parents |-> c.parents]
    BY <1>3
  <2> QED
    BY <1>8, <2>1, <2>2 DEF Commit
<1>10. N' = N + 1
  BY <1>4, <1>5, <1>9 DEF N
<1>11. Grows
  <2>1. UNCHANGED <<blobs, trees, together>>
    BY DEF StoreCommit, Store, Others
  <2> QED
    BY <1>a, <1>10, <2>1 DEF Grows
<1>12. Learns(m, o, "new") /\ m.new = N + 1
  <2>1. PICK n : n = N + 1
    OBVIOUS
  <2>2. n \in Nat /\ m = [o EXCEPT !.new = n]
    BY <1>a, <1>2, <2>1
  <2> QED
    BY <1>8, <2>1, <2>2, Learned
<1>13. /\ m.cmd = o.cmd /\ m.program = o.program /\ m.arg = o.arg /\ m.at = o.at
       /\ m.name = o.name /\ m.ours = o.ours /\ m.other = o.other
       /\ m.merge = o.merge /\ m.index = o.index /\ m.todo = o.todo
  BY <1>12 DEF Learns, Fields
<1>14. True(o)'
  BY <1>a, <1>b, <1>11, TrueStays
<1>15. True(m)'
  <2>1. m.new \in 0 .. N'
    BY <1>a, <1>10, <1>12
  <2> QED
    BY <1>13, <1>14, <2>1 DEF True
<1>16. Ready(m)'
  BY <1>1, <1>13, ReadyElsewhere
<1>17. \E x : Becomes(p, x)
  BY <1>0, <1>a, <1>b, <1>4, <1>12, <1>13, <1>15, <1>16, Going DEF Learns
<1> QED
  BY <1>b, <1>4, <1>7, <1>8, <1>9, <1>11, <1>17

LEMMA MergingSteps ==
  ASSUME Inv, NEW p \in Proc, MergeFile(p) \/ WriteMergeHead(p)
  PROVE  Grows /\ \E x : Becomes(p, x)
<1>0. run[p] # Idle
  BY DEF At, MergeFile, WriteMergeHead
<1>a. /\ TypeOK /\ run[p] \in Memory /\ True(run[p]) /\ Pending(run[p])
      /\ run[p].program \in Programs /\ run[p].at \in 1 .. Len(Program[run[p].program])
      /\ run[p].at \in Nat /\ N \in Nat
  BY <1>0, BeforeStep
<1>b. PICK o : o = run[p]
  OBVIOUS
<1>c. o \in Memory /\ o.todo \in SUBSET Path /\ o.program = "diverge"
  <2>1. PICK g, n : g = o.program /\ n = o.at
    OBVIOUS
  <2>2. /\ Program[g][n] \in {"merge file", "write MERGE_HEAD"}
        /\ g \in Programs /\ n \in 1 .. Len(Program[g])
    BY <1>a, <1>b, <2>1 DEF MergeFile, WriteMergeHead, At
  <2>3. g = "diverge"
    BY <2>2, Where
  <2>4. o \in Memory
    BY <1>a, <1>b
  <2> QED
    BY <2>1, <2>3, <2>4 DEF Memory
<1>d. Grows
  <2>1. UNCHANGED <<blobs, trees, commits, together>>
    BY DEF MergeFile, WriteMergeHead, Others, objects
  <2> QED
    BY <1>a, <2>1 DEF Grows, N
<1>e. True(o)'
  BY <1>a, <1>b, <1>d, TrueStays
<1>1. CASE MergeFile(p)
  <2>1. PICK f, m : m = [o EXCEPT !.todo = o.todo \ {f}] /\ Go(p, m)
    <3>1. PICK f : Go(p, [o EXCEPT !.todo = @ \ {f}])
      BY <1>1, <1>b DEF MergeFile
    <3>2. PICK m : m = [o EXCEPT !.todo = o.todo \ {f}]
      OBVIOUS
    <3> QED
      BY <3>1, <3>2
  <2>2. Learns(m, o, "todo")
    <3>1. PICK d : d = o.todo \ {f}
      OBVIOUS
    <3>2. d \in SUBSET Path /\ m = [o EXCEPT !.todo = d] /\ o \in Memory
      BY <1>c, <2>1, <3>1
    <3> QED
      BY <3>2, Learned
  <2>5. m.program = "diverge" /\ "todo" \in Fields \ {"cmd", "program", "arg", "at"}
    BY <1>c, <2>2 DEF Fields, Learns
  <2>3. True(m) /\ m.cmd = o.cmd /\ m.program = o.program /\ m.at = o.at
    BY <1>a, <1>b, <2>2, <2>5, TrueOfLearned
  <2>4. Ready(m)' /\ True(m)'
    BY <1>c, <1>d, <2>3, ReadyElsewhere, TrueStays
  <2> QED
    BY <1>0, <1>a, <1>b, <1>d, <2>1, <2>2, <2>3, <2>4, Going DEF Learns
<1>2. CASE WriteMergeHead(p)
  <2>1. PICK x : x = [o EXCEPT !.at = 1]
    OBVIOUS
  <2>2. run' = [run EXCEPT ![p] = Idle] \/ run' = [run EXCEPT ![p] = x]
    BY <1>2, <1>b, <2>1 DEF WriteMergeHead, Finish, Stay
  <2>3. CASE run' = [run EXCEPT ![p] = Idle]
    <3>1. Becomes(p, Idle)
      BY <2>3 DEF Becomes
    <3> QED
      BY <1>d, <3>1
  <2>4. CASE run' = [run EXCEPT ![p] = x]
    <3>1. x \in Memory
      BY <1>c, <2>1 DEF Memory
    <3>2. /\ x.at = 1 /\ x.cmd = o.cmd /\ x.program = o.program /\ x.arg = o.arg /\ x.index = o.index
          /\ x.name = o.name /\ x.ours = o.ours /\ x.other = o.other /\ x.merge = o.merge
          /\ x.new = o.new /\ x.todo = o.todo
      BY <1>c, <2>1 DEF Memory
    <3>3. 1 \in 1 .. Len(Program["diverge"])
      BY Lengths
    <3>4. True(x)'
      BY <1>c, <1>e, <3>2, <3>3 DEF True
    <3>5. Becomes(p, x)
      BY <1>b, <1>c, <2>4, <3>1, <3>2, <3>4 DEF Becomes, Pending
    <3> QED
      BY <1>d, <3>5
  <2> QED
    BY <2>2, <2>3, <2>4
<1> QED
  BY <1>1, <1>2

LEMMA IndexSteps ==
  ASSUME Inv, NEW p \in Proc, OpenIndex(p) \/ WriteIndex(p)
  PROVE  /\ Grows /\ \E x : Becomes(p, x)
         /\ index' \in Snapshot /\ Range(index') \subseteq blobs
<1>0. run[p] # Idle
  BY DEF At, OpenIndex, WriteIndex
<1>a. /\ TypeOK /\ run[p] \in Memory /\ True(run[p]) /\ Pending(run[p])
      /\ run[p].program \in Programs /\ run[p].at \in 1 .. Len(Program[run[p].program])
      /\ run[p].at \in Nat /\ N \in Nat
  BY <1>0, BeforeStep
<1>b. PICK o : o = run[p]
  OBVIOUS
<1>c. /\ o \in Memory /\ o.todo \in SUBSET Path /\ o.index \in Snapshot
      /\ Range(o.index) \subseteq blobs /\ DOMAIN o.index \in SUBSET Path
  <2>1. o \in Memory /\ Range(o.index) \subseteq blobs
    BY <1>a, <1>b DEF True
  <2>2. o.todo \in SUBSET Path /\ o.index \in Snapshot
    BY <2>1 DEF Memory
  <2> QED
    BY <2>1, <2>2, SnapshotShape
<1>d. Grows
  <2>1. UNCHANGED <<blobs, trees, commits, together>>
    BY DEF OpenIndex, WriteIndex, Others, objects
  <2> QED
    BY <1>a, <2>1 DEF Grows, N
<1>e. True(o)'
  BY <1>a, <1>b, <1>d, TrueStays
<1>1. CASE OpenIndex(p)
  <2>1. PICK m : m = [o EXCEPT !.todo = DOMAIN o.index]
    OBVIOUS
  <2>2. /\ Go(p, m) /\ index' = <<>>
        /\ (o.program = "add" /\ o.at = 6) \/ (o.program = "checkout" /\ o.at = 7)
    BY <1>1, <1>a, <1>b, <2>1, Where DEF OpenIndex, At
  <2>3. Learns(m, o, "todo") /\ m.todo = DOMAIN o.index
    BY <1>c, <2>1, Learned
  <2>4. /\ m.cmd = o.cmd /\ m.program = o.program /\ m.arg = o.arg /\ m.at = o.at /\ m.index = o.index
        /\ m.name = o.name /\ m.ours = o.ours /\ m.other = o.other /\ m.merge = o.merge
        /\ m.new = o.new
    BY <2>3 DEF Learns, Fields
  <2>5. True(m)' /\ Ready(m)'
    BY <1>e, <2>2, <2>3, <2>4 DEF True, Ready
  <2>6. \E x : Becomes(p, x)
    BY <1>0, <1>a, <1>b, <2>2, <2>3, <2>4, <2>5, Going DEF Learns
  <2> QED
    BY <1>d, <2>2, <2>6, SnapshotShape
<1>2. CASE WriteIndex(p)
  <2>1. PICK f : f = CHOOSE g \in o.todo : \A h \in o.todo : g <= h
    OBVIOUS
  <2>2. /\ (o.program = "add" /\ o.at = 7) \/ (o.program = "checkout" /\ o.at = 8)
        /\ o.todo \subseteq DOMAIN o.index
    <3>1. (o.program = "add" /\ o.at = 7) \/ (o.program = "checkout" /\ o.at = 8)
      <4>1. At(p, "write index")
        BY <1>2 DEF WriteIndex
      <4> QED
        <5>1. PICK g, n : g = o.program /\ n = o.at
          OBVIOUS
        <5>2. g \in Programs /\ n \in 1 .. Len(Program[g]) /\ Program[g][n] = "write index"
          BY <1>a, <1>b, <4>1, <5>1 DEF At
        <5>3. (g = "add" /\ n = 7) \/ (g = "checkout" /\ n = 8)
          BY <5>2, Where
        <5> QED
          BY <5>1, <5>3
    <3>2. Len(Program["add"]) = 7 /\ Len(Program["checkout"]) = 8
      BY Lengths
    <3>3. o.at = Len(Program[o.program]) /\ o.program \in {"add", "checkout"}
      BY <3>1, <3>2
    <3> QED
      BY <1>a, <1>b, <3>1, <3>3 DEF True
  <2>3. CASE o.todo = {}
    <3>1. Becomes(p, Idle) /\ index' = index
      BY <1>2, <1>b, <2>3 DEF WriteIndex, Finish, Becomes
    <3> QED
      BY <1>a, <1>d, <3>1 DEF TypeOK, Inv, Stored
  <2>4. CASE o.todo # {}
    <3>1. f \in o.todo
      <4>1. o.todo \subseteq Nat
        BY <1>c, CrashAssumption
      <4> QED
        BY <2>1, <2>4, <4>1, LeastNumber
    <3>2. PICK old, g, x : /\ old = IF o.todo = DOMAIN o.index THEN <<>> ELSE index
                           /\ g = Restrict(o.index, {f}) /\ x = [o EXCEPT !.todo = o.todo \ {f}]
      OBVIOUS
    <3>3. /\ index' = Overlay(old, g)
          /\ run' = [run EXCEPT ![p] = Idle] \/ run' = [run EXCEPT ![p] = x]
      BY <1>2, <1>b, <2>1, <2>4, <3>2 DEF WriteIndex, Finish, Stay
    <3>4. old \in Snapshot /\ Range(old) \subseteq blobs
      BY <1>a, <3>2, SnapshotShape DEF TypeOK, Inv, Stored
    <3>5. g \in Snapshot /\ Range(g) \subseteq blobs
      <4>1. f \in DOMAIN o.index /\ f \in Path /\ o.index[f] \in Text /\ o.index[f] \in Range(o.index)
        BY <1>c, <2>2, <3>1, SnapshotShape DEF Range
      <4>2. g \in [{f} -> Text] /\ g[f] = o.index[f] /\ DOMAIN g = {f}
        BY <3>2, <4>1 DEF Restrict
      <4>3. Range(g) = {o.index[f]}
        BY <4>2 DEF Range
      <4>4. g \in Snapshot
        BY <4>1, <4>2, SnapshotShape
      <4> QED
        BY <1>c, <4>1, <4>3, <4>4
    <3>6. index' \in Snapshot /\ Range(index') \subseteq blobs
      BY <3>3, <3>4, <3>5, OverlayShape
    <3>7. CASE run' = [run EXCEPT ![p] = Idle]
      <4>1. Becomes(p, Idle)
        BY <3>7 DEF Becomes
      <4> QED
        BY <1>d, <3>6, <4>1
    <3>8. CASE run' = [run EXCEPT ![p] = x]
      <4>1. Learns(x, o, "todo") /\ x.todo = o.todo \ {f}
        BY <1>c, <3>2, Learned
      <4>2. /\ x.cmd = o.cmd /\ x.program = o.program /\ x.arg = o.arg /\ x.at = o.at
            /\ x.index = o.index /\ x.name = o.name /\ x.ours = o.ours /\ x.other = o.other
            /\ x.merge = o.merge /\ x.new = o.new
        BY <4>1 DEF Learns, Fields
      <4>3. True(x)'
        BY <1>e, <2>2, <4>1, <4>2 DEF True
      <4>4. Becomes(p, x)
        BY <1>b, <2>2, <3>8, <4>1, <4>2, <4>3 DEF Becomes, Pending, Learns
      <4> QED
        BY <1>d, <3>6, <4>4
    <3> QED
      BY <3>3, <3>7, <3>8
  <2> QED
    BY <2>3, <2>4
<1> QED
  BY <1>1, <1>2

-----------------------------------------------------------------------------
(***************************************************************************)
(* Objects that are being written.                                         *)
(***************************************************************************)

\* Each step has an action of its own.
LEMMA OnlyWriters ==
  ASSUME NEW p \in Proc, Step(p)
  PROVE  (At(p, "write blob") => WriteBlob(p)) /\ (At(p, "write tree") => WriteTree(p))
<1>1. \/ \E step \in {"load", "read HEAD", "name branch", "read ref", "resolve", "resolve again",
                      "read MERGE_HEAD", "reread MERGE_HEAD", "is branch", "walk", "read tree",
                      "make .jit", "open blob", "reopen blob", "open tree", "clear MERGE_HEAD",
                      "store commit", "open ref", "write ref", "open HEAD", "write HEAD", "reconstruct",
                      "merge file", "open MERGE_HEAD", "write MERGE_HEAD", "open index",
                      "write index"} : At(p, step)
      \/ WriteBlob(p) \/ WriteTree(p)
  BY DEF Step, LoadIndex, ReadHead, ReadRef, ResolveOther, ResolveAgain, ReadMergeHead,
     RereadMergeHead, IsHeadBranch, Walk, ReadTree, MakeJit, OpenBlob, ReopenBlob, OpenTree,
     ClearMergeHead, StoreCommit, Store, OpenRef, WriteRef, OpenHead, WriteHead, Reconstruct, MergeFile,
     OpenMergeHead, WriteMergeHead, OpenIndex, WriteIndex
<1>2. At(p, "write blob") => ~At(p, "write tree")
  BY DEF At
<1>3. CASE WriteBlob(p)
  BY <1>2, <1>3 DEF WriteBlob
<1>4. CASE WriteTree(p)
  BY <1>2, <1>4 DEF WriteTree
<1>5. ASSUME NEW other, At(p, other), other \notin {"write blob", "write tree"}
      PROVE  ~At(p, "write blob") /\ ~At(p, "write tree")
  BY <1>5 DEF At
<1> QED
  BY <1>1, <1>3, <1>4, <1>5

\* After a blob's or tree's file is opened, it is to be written.
LEMMA OpenBlobText ==
  ASSUME Inv, NEW p \in Proc, OpenBlob(p)
  PROVE  /\ wd[run[p].arg] \in Text
         /\ At(p, "write blob")' /\ (run[p].index[run[p].arg])' = wd[run[p].arg]
<1>0. run[p] # Idle
  BY DEF At, OpenBlob
<1>a. /\ TypeOK /\ run[p] \in Memory /\ True(run[p]) /\ Pending(run[p])
      /\ run[p].program \in Programs /\ run[p].at \in 1 .. Len(Program[run[p].program])
      /\ run[p].at \in Nat /\ N \in Nat
  BY <1>0, BeforeStep
<1>b. PICK o, text : o = run[p] /\ text = wd[o.arg]
  OBVIOUS
<1>1. o.program = "add" /\ o.at = 2
  <2>1. PICK g, n : g = o.program /\ n = o.at
    OBVIOUS
  <2>2. g \in Programs /\ n \in 1 .. Len(Program[g]) /\ Program[g][n] = "open blob"
    BY <1>a, <1>b, <2>1 DEF OpenBlob, At
  <2>3. g = "add" /\ n = 2
    BY <2>2, Where
  <2> QED
    BY <2>1, <2>3
<1>2. o.arg \in Path /\ text \in Text /\ o \in Memory /\ o.index \in Snapshot
  <2>1. o.cmd = "add" /\ Sensible(o.cmd, o.arg)
    BY <1>a, <1>b, <1>1 DEF True
  <2> QED
    BY <1>a, <1>b, <2>1 DEF Sensible, TypeOK, True, Memory
<1>3. PICK g : g = Overlay(o.index, [f \in {o.arg} |-> text])
  OBVIOUS
<1>4. g \in Snapshot /\ g[o.arg] = text
  <2>1. PICK k, h : k = o.arg /\ h = [f \in {o.arg} |-> text]
    OBVIOUS
  <2>2. h \in [{k} -> Text] /\ h[k] = text /\ DOMAIN h = {k}
    BY <1>2, <2>1
  <2>3. g = Overlay(o.index, h) /\ k \in Path
    BY <1>2, <1>3, <2>1
  <2> QED
    BY <1>2, <2>1, <2>2, <2>3, OverlayOne
<1>5. PICK m : m = [o EXCEPT !.index = g]
  OBVIOUS
<1>6. m \in Memory /\ m.index = g /\ m.arg = o.arg /\ m.program = o.program /\ m.at = o.at
  BY <1>2, <1>4, <1>5, Learned DEF Learns, Fields
<1>7. PICK x : x = [m EXCEPT !.at = @ + 1]
  OBVIOUS
<1>8. x.index = g /\ x.arg = o.arg /\ x.program = o.program /\ x.at = o.at + 1 /\ x \in Memory
  <2>1. m \in Memory
    BY <1>6
  <2> QED
    BY <1>6, <1>7, <2>1, NextStep
<1>9. run' = [run EXCEPT ![p] = x]
  <2>1. ~Last(p)
    BY <1>b, <1>1, Lengths DEF Last
  <2>2. Go(p, m)
    BY <1>b, <1>3, <1>5 DEF OpenBlob
  <2> QED
    BY <1>7, <2>1, <2>2 DEF Go, Stay
<1>10. run'[p] = x /\ x # Idle
  BY <1>a, <1>8, <1>9, IdleAssumption DEF TypeOK
<1>11. Program[x.program][x.at] = "write blob"
  <2>1. x.program = "add" /\ x.at = 3
    BY <1>1, <1>8
  <2> QED
    BY <2>1, Contents
<1> QED
  BY <1>b, <1>2, <1>4, <1>8, <1>10, <1>11 DEF At

\* The blob that is opened again is the one that is listed.
LEMMA ReopenBlobNext ==
  ASSUME Inv, NEW p \in Proc, ReopenBlob(p)
  PROVE  /\ run[p].index[run[p].arg] \in blobs
         /\ At(p, "write blob")'
         /\ (run[p].index[run[p].arg])' = run[p].index[run[p].arg]
<1>0. run[p] # Idle
  BY DEF At, ReopenBlob
<1>a. /\ TypeOK /\ run[p] \in Memory /\ True(run[p]) /\ Pending(run[p])
      /\ run[p].program \in Programs /\ run[p].at \in 1 .. Len(Program[run[p].program])
      /\ run[p].at \in Nat /\ N \in Nat
  BY <1>0, BeforeStep
<1>b. PICK o : o = run[p]
  OBVIOUS
<1>1. o.program = "add" /\ o.at = 4
  BY <1>a, <1>b, Where DEF ReopenBlob, At
<1>2. o \in Memory
  BY <1>a, <1>b
<1>3. PICK x : x = [o EXCEPT !.at = @ + 1]
  OBVIOUS
<1>4. /\ x.index = o.index /\ x.arg = o.arg /\ x.program = o.program /\ x.at = o.at + 1
      /\ x \in Memory
  BY <1>2, <1>3, NextStep
<1>5. run' = [run EXCEPT ![p] = x]
  <2>1. ~Last(p)
    BY <1>b, <1>1, Lengths DEF Last
  <2> QED
    BY <1>b, <1>3, <2>1 DEF ReopenBlob, Go, Stay
<1>6. run'[p] = x /\ x # Idle
  BY <1>a, <1>4, <1>5, IdleAssumption DEF TypeOK
<1>7. Program[x.program][x.at] = "write blob"
  <2>1. x.program = "add" /\ x.at = 5
    BY <1>1, <1>4
  <2> QED
    BY <2>1, Contents
<1>8. o.index[o.arg] \in blobs
  <2>1. o.arg \in DOMAIN o.index /\ Range(o.index) \subseteq blobs
    BY <1>a, <1>b, <1>1 DEF True
  <2> QED
    BY <2>1 DEF Range
<1> QED
  BY <1>b, <1>4, <1>6, <1>7, <1>8 DEF At

LEMMA OpenTreeNext ==
  ASSUME Inv, NEW p \in Proc, OpenTree(p)
  PROVE  At(p, "write tree")' /\ (run[p].index)' = run[p].index
<1>0. run[p] # Idle
  BY DEF At, OpenTree
<1>a. /\ TypeOK /\ run[p] \in Memory /\ True(run[p]) /\ Pending(run[p])
      /\ run[p].program \in Programs /\ run[p].at \in 1 .. Len(Program[run[p].program])
      /\ run[p].at \in Nat /\ N \in Nat
  BY <1>0, BeforeStep
<1>b. PICK o : o = run[p]
  OBVIOUS
<1>1. o.program = "commit" /\ o.at = 4
  BY <1>a, <1>b, Where DEF OpenTree, At
<1>2. o \in Memory
  BY <1>a, <1>b
<1>3. PICK x : x = [o EXCEPT !.at = @ + 1]
  OBVIOUS
<1>4. x.index = o.index /\ x.program = o.program /\ x.at = o.at + 1 /\ x \in Memory
  BY <1>2, <1>3, NextStep
<1>5. run' = [run EXCEPT ![p] = x]
  <2>1. ~Last(p)
    BY <1>b, <1>1, Lengths DEF Last
  <2> QED
    BY <1>b, <1>3, <2>1 DEF OpenTree, Go, Stay
<1>6. run'[p] = x /\ x # Idle
  BY <1>a, <1>4, <1>5, IdleAssumption DEF TypeOK
<1>7. Program[x.program][x.at] = "write tree"
  <2>1. x.program = "commit" /\ x.at = 5
    BY <1>1, <1>4
  <2> QED
    BY <2>1, Contents
<1> QED
  BY <1>b, <1>4, <1>6, <1>7 DEF At

-----------------------------------------------------------------------------
(***************************************************************************)
(* What a step leaves alone.                                               *)
(***************************************************************************)
LEMMA Frames ==
  ASSUME NEW p \in Proc, Step(p)
  PROVE  /\ run[p] # Idle /\ UNCHANGED <<budget, killed, together>>
         /\ UNCHANGED jit \/ jit' = TRUE
         /\ UNCHANGED head \/ OpenHead(p) \/ WriteHead(p)
         /\ UNCHANGED refs \/ OpenRef(p) \/ WriteRef(p)
         /\ UNCHANGED mergeHead \/ ClearMergeHead(p) \/ OpenMergeHead(p) \/ WriteMergeHead(p)
         /\ UNCHANGED index \/ OpenIndex(p) \/ WriteIndex(p)
         /\ UNCHANGED blobs \/ OpenBlob(p)
         /\ UNCHANGED trees \/ OpenTree(p)
         /\ UNCHANGED torn \/ OpenBlob(p) \/ ReopenBlob(p) \/ WriteBlob(p) \/ OpenTree(p) \/ WriteTree(p)
         /\ UNCHANGED commits \/ StoreCommit(p)
         /\ UNCHANGED wd \/ Reconstruct(p) \/ MergeFile(p)
<1>1. ASSUME Reads, run[p] # Idle
      PROVE  /\ run[p] # Idle /\ UNCHANGED <<budget, killed, together>>
             /\ UNCHANGED <<jit, head, refs, mergeHead, index, blobs, trees, torn, commits, wd>>
  BY <1>1 DEF Reads, Others, pointers, objects
<1>2. CASE LoadIndex(p) \/ ReadHead(p) \/ ReadRef(p) \/ ResolveOther(p) \/ ResolveAgain(p)
           \/ ReadMergeHead(p) \/ RereadMergeHead(p) \/ IsHeadBranch(p) \/ Walk(p) \/ ReadTree(p)
  <2>1. Reads /\ run[p] # Idle
    BY <1>2 DEF At, LoadIndex, ReadHead, ReadRef, ResolveOther, ResolveAgain, ReadMergeHead,
       RereadMergeHead, IsHeadBranch, Walk, ReadTree
  <2> QED
    BY <1>1, <2>1
<1>3. CASE MakeJit(p) \/ OpenBlob(p) \/ ReopenBlob(p) \/ WriteBlob(p) \/ OpenTree(p)
           \/ WriteTree(p)
  BY <1>3 DEF MakeJit, OpenBlob, ReopenBlob, WriteBlob, OpenTree, WriteTree, At, Others, pointers, objects
<1>4. CASE ClearMergeHead(p) \/ StoreCommit(p) \/ OpenRef(p) \/ WriteRef(p) \/ OpenHead(p)
           \/ WriteHead(p)
  BY <1>4 DEF ClearMergeHead, StoreCommit, Store, OpenRef, WriteRef, OpenHead, WriteHead, At, Others,
     pointers, objects
<1>5. CASE Reconstruct(p) \/ MergeFile(p) \/ OpenMergeHead(p) \/ WriteMergeHead(p)
           \/ OpenIndex(p) \/ WriteIndex(p)
  BY <1>5 DEF Reconstruct, MergeFile, OpenMergeHead, WriteMergeHead, OpenIndex, WriteIndex, At, Others,
     pointers, objects
<1> QED
  BY <1>2, <1>3, <1>4, <1>5 DEF Step

\* Whatever step a process takes, it goes on or ends, and nothing gets lost.
LEMMA Steps ==
  ASSUME Inv, NEW p \in Proc, Step(p)
  PROVE  Grows /\ \E x : Becomes(p, x)
<1>1. CASE LoadIndex(p) \/ ReadHead(p) \/ ReadRef(p) \/ ResolveOther(p) \/ ResolveAgain(p)
           \/ ReadMergeHead(p) \/ RereadMergeHead(p) \/ IsHeadBranch(p) \/ Walk(p) \/ ReadTree(p)
  <2>1. Reads
    BY <1>1 DEF LoadIndex, ReadHead, ReadRef, ResolveOther, ResolveAgain, ReadMergeHead,
       RereadMergeHead, IsHeadBranch, Walk, ReadTree
  <2>2. N \in Nat
    BY Frames, BeforeStep
  <2>3. Grows
    BY <2>1, <2>2 DEF Reads, Others, Grows, N, objects
  <2> QED
    BY <1>1, <2>3, ReadingSteps, DecidingSteps
<1>2. CASE \/ MakeJit(p) \/ ReopenBlob(p) \/ WriteBlob(p) \/ WriteTree(p) \/ ClearMergeHead(p) \/ OpenRef(p)
           \/ WriteRef(p) \/ OpenHead(p) \/ WriteHead(p) \/ Reconstruct(p) \/ OpenMergeHead(p)
  BY <1>2, PlainSteps
<1>3. CASE OpenBlob(p)
  BY <1>3, OpenBlobStep
<1>4. CASE OpenTree(p)
  BY <1>4, OpenTreeStep
<1>5. CASE StoreCommit(p)
  BY <1>5, StoreCommitStep
<1>6. CASE MergeFile(p) \/ WriteMergeHead(p)
  BY <1>6, MergingSteps
<1>7. CASE OpenIndex(p) \/ WriteIndex(p)
  BY <1>7, IndexSteps
<1> QED
  BY <1>1, <1>2, <1>3, <1>4, <1>5, <1>6, <1>7 DEF Step

\* Only commit and merge clear MERGE_HEAD.
LEMMA Cleared ==
  ASSUME Inv, NEW p \in Proc, Step(p), mergeHead' = Nothing
  PROVE  mergeHead = Nothing \/ run[p].cmd \in {"commit", "merge"}
<1>1. CASE UNCHANGED mergeHead
  BY <1>1
<1>2. CASE ClearMergeHead(p) \/ OpenMergeHead(p)
  <2>1. PICK o, g, n : o = run[p] /\ g = o.program /\ n = o.at
    OBVIOUS
  <2>2. /\ Program[g][n] \in {"clear MERGE_HEAD", "open MERGE_HEAD"}
        /\ g \in Programs /\ n \in 1 .. Len(Program[g]) /\ True(o)
    BY <1>2, <2>1, Frames, BeforeStep DEF ClearMergeHead, OpenMergeHead, At
  <2>3. g \in {"commit", "diverge"}
    BY <2>2, Where
  <2>4. (o.program = o.cmd \/ o.cmd = "merge") /\ o.cmd \in Commands
    BY <2>2 DEF True, Sensible
  <2> QED
    BY <2>1, <2>3, <2>4 DEF Commands
<1>3. CASE WriteMergeHead(p)
  BY <1>3 DEF WriteMergeHead, Wrote
<1> QED
  BY <1>1, <1>2, <1>3, Frames

-----------------------------------------------------------------------------
(***************************************************************************)
(* A step of a command keeps the invariant.                                *)
(***************************************************************************)
LEMMA StepKnowing ==
  ASSUME Inv, NEW p \in Proc, Step(p)
  PROVE  Knowing' /\ Meeting'
<1>1. PICK x : Becomes(p, x)
  BY Steps
<1>2. Grows
  BY Steps
<1>3. /\ run' = [run EXCEPT ![p] = x] /\ DOMAIN run = Proc /\ run[p] # Idle
      /\ x # Idle => x \in Memory /\ True(x)' /\ Pending(x)' /\ x.cmd = run[p].cmd
  BY <1>1, Frames DEF Becomes, Inv, TypeOK
<1>4. run'[p] = x /\ \A q \in Proc : q # p => run'[q] = run[q]
  BY <1>3
<1>5. ASSUME NEW q \in Proc, run'[q] # Idle
      PROVE  True(run[q])' /\ Pending(run[q])'
  <2>1. CASE q = p
    BY <1>3, <1>4, <1>5, <2>1 DEF True, Pending
  <2>2. CASE q # p
    <3>1. PICK y : y = run[q]
      OBVIOUS
    <3>2. run'[q] = y /\ y # Idle /\ True(y) /\ Pending(y)
      BY <1>4, <1>5, <2>2, <3>1 DEF Inv, Knowing
    <3>3. True(y)'
      BY <1>2, <3>2, TrueStays
    <3>4. Pending(y)'
      <4>1. SUFFICES ASSUME y.program = "commit", y.at = 7, mergeHead' = Nothing
                     PROVE  Met({"commit", "merge"})'
        BY DEF Pending
      <4>2. UNCHANGED together
        BY Frames
      <4>3. CASE mergeHead = Nothing
        BY <3>2, <4>1, <4>2, <4>3 DEF Pending, Met
      <4>4. CASE run[p].cmd \in {"commit", "merge"}
        <5>1. y.cmd = "commit"
          BY <3>2, <4>1 DEF True
        <5>2. {run[p].cmd, y.cmd} \in together
          BY <1>3, <2>2, <3>1, <3>2 DEF Inv, Meeting
        <5> QED
          BY <4>2, <4>4, <5>1, <5>2 DEF Met
      <4> QED
        BY <4>1, <4>3, <4>4, Cleared
    <3> QED
      BY <3>2, <3>3, <3>4 DEF True, Pending
  <2> QED
    BY <2>1, <2>2
<1>6. Knowing'
  BY <1>5 DEF Knowing
<1>7. Meeting'
  <2>1. \A q \in Proc : run'[q] # Idle => run[q] # Idle /\ run'[q].cmd = run[q].cmd
    BY <1>3, <1>4
  <2>2. UNCHANGED together
    BY Frames
  <2> QED
    BY <2>1, <2>2 DEF Inv, Meeting
<1> QED
  BY <1>6, <1>7

LEMMA StepBounded ==
  ASSUME Inv, NEW p \in Proc, Step(p)
  PROVE  Bounded'
<1>a. /\ TypeOK /\ run[p] \in Memory /\ True(run[p]) /\ Pending(run[p])
      /\ run[p].program \in Programs /\ run[p].at \in 1 .. Len(Program[run[p].program])
      /\ run[p].at \in Nat /\ N \in Nat
  BY Frames, BeforeStep
<1>b. PICK o : o = run[p]
  OBVIOUS
<1>c. /\ N' \in Nat /\ N <= N' /\ 0 .. N \subseteq 0 .. N' /\ 0 \in 0 .. N'
      /\ UNCHANGED together
  <2>1. N' \in Nat /\ N <= N'
    BY Steps DEF Grows
  <2>2. UNCHANGED together
    BY Frames
  <2> QED
    BY <1>a, <2>1, <2>2
<1>d. Bounded
  BY DEF Inv
<1>e. \A c : c \in 0 .. N => c \in 0 .. N'
  BY <1>c
<1>1. head' \in Branch \cup 0 .. N'
  <2>1. CASE UNCHANGED head
    BY <1>c, <1>d, <2>1 DEF Bounded
  <2>2. CASE OpenHead(p)
    BY <1>c, <2>2 DEF OpenHead, Nothing
  <2>3. CASE WriteHead(p)
    <3>1. PICK g, n : g = o.program /\ n = o.at
      OBVIOUS
    <3>2. g \in Programs /\ n \in 1 .. Len(Program[g]) /\ Program[g][n] = "write HEAD"
      BY <1>a, <1>b, <2>3, <3>1 DEF WriteHead, At
    <3>3. (g = "init" /\ n = 3) \/ (g = "checkout" /\ n = 6)
      BY <3>2, Where
    <3>4. head' = IF o.cmd = "init" THEN Main ELSE o.arg
      BY <1>b, <2>3 DEF WriteHead
    <3>5. o.cmd # "init" => o.arg \in Branch \cup 1 .. N
      BY <1>a, <1>b, <3>1, <3>3 DEF True
    <3> QED
      BY <1>a, <1>c, <3>4, <3>5, CrashAssumption
  <2> QED
    BY <2>1, <2>2, <2>3, Frames
<1>2. refs' \in [Branch -> 0 .. N']
  <2>0. refs \in [Branch -> 0 .. N'] /\ 0 \in 0 .. N'
    BY <1>c, <1>d DEF Bounded
  <2>1. CASE UNCHANGED refs
    BY <2>0, <2>1
  <2>2. CASE OpenRef(p)
    BY <2>0, <2>2 DEF OpenRef, Nothing
  <2>3. CASE WriteRef(p)
    <3>1. PICK t : t = Target(o)
      OBVIOUS
    <3>2. t \in 0 .. N'
      BY <1>a, <1>b, <1>e, <3>1 DEF Target, True
    <3>3. \A b \in Branch : Wrote(refs[b], t) \in 0 .. N'
      BY <2>0, <3>2 DEF Wrote
    <3> QED
      BY <1>b, <2>0, <2>3, <3>1, <3>3 DEF WriteRef
  <2> QED
    BY <2>1, <2>2, <2>3, Frames
<1>3. mergeHead' \in 0 .. N'
  <2>1. CASE UNCHANGED mergeHead
    BY <1>c, <1>d, <2>1 DEF Bounded
  <2>2. CASE ClearMergeHead(p) \/ OpenMergeHead(p)
    BY <1>c, <2>2 DEF ClearMergeHead, OpenMergeHead, Nothing
  <2>3. CASE WriteMergeHead(p)
    <3>1. run[p].new \in 0 .. N
      BY <1>a DEF True
    <3> QED
      BY <1>c, <1>d, <2>3, <3>1 DEF WriteMergeHead, Wrote, Bounded
  <2> QED
    BY <2>1, <2>2, <2>3, Frames
<1>4. \A c \in 1 .. N' : /\ Range(commits[c].parents)' \subseteq 0 .. (c - 1)
                         /\ Nothing \in Range(commits[c].parents)' => Met({"commit", "merge"})'
  <2>0. Met({"commit", "merge"}) => Met({"commit", "merge"})'
    BY <1>c DEF Met
  <2>1. CASE UNCHANGED commits
    BY <1>d, <2>0, <2>1 DEF Bounded, N
  <2>2. CASE StoreCommit(p)
    <3>1. PICK c \in Commit : /\ commits' = Append(commits, c)
                              /\ Range(c.parents) \subseteq 0 .. N
                              /\ Nothing \in Range(c.parents) => Met({"commit", "merge"})
      BY <2>2, StoreCommitStep
    <3>2. commits \in Seq(Commit)
      BY <1>a DEF TypeOK
    <3>3. N' = N + 1 /\ commits'[N + 1] = c /\ \A i \in 1 .. N : commits'[i] = commits[i]
      BY <3>1, <3>2 DEF N
    <3>4. ASSUME NEW i \in 1 .. N'
          PROVE  /\ Range(commits[i].parents)' \subseteq 0 .. (i - 1)
                 /\ Nothing \in Range(commits[i].parents)' => Met({"commit", "merge"})'
      <4>1. CASE i \in 1 .. N
        BY <1>d, <2>0, <3>3, <4>1 DEF Bounded, Range
      <4>2. CASE i = N + 1
        <5>1. commits'[i] = c /\ i - 1 = N
          BY <1>a, <3>3, <4>2
        <5> QED
          BY <2>0, <3>1, <5>1 DEF Range
      <4> QED
        BY <1>a, <3>3, <4>1, <4>2
    <3> QED
      BY <3>4
  <2> QED
    BY <2>1, <2>2, Frames
<1> QED
  BY <1>1, <1>2, <1>3, <1>4 DEF Bounded

LEMMA StepTyped ==
  ASSUME Inv, NEW p \in Proc, Step(p)
  PROVE  TypeOK'
<1>a. /\ TypeOK /\ run[p] \in Memory /\ True(run[p]) /\ Pending(run[p])
      /\ run[p].program \in Programs /\ run[p].at \in 1 .. Len(Program[run[p].program])
      /\ run[p].at \in Nat /\ N \in Nat
  BY Frames, BeforeStep
<1>b. PICK o : o = run[p]
  OBVIOUS
<1>c. N' <= MaxCommits /\ commits' \in Seq(Commit)
  <2>1. CASE UNCHANGED commits
    BY <1>a, <2>1 DEF TypeOK, N
  <2>2. CASE StoreCommit(p)
    <3>1. PICK c \in Commit : commits' = Append(commits, c) /\ N < MaxCommits
      BY <2>2, StoreCommitStep
    <3>2. commits \in Seq(Commit)
      BY <1>a DEF TypeOK
    <3> QED
      BY <1>a, <3>1, <3>2, CrashAssumption DEF N
  <2> QED
    BY <2>1, <2>2, Frames
<1>1. jit' \in BOOLEAN /\ budget' \in Limits
  BY <1>a, Frames DEF TypeOK
<1>2. /\ head' \in Branch \cup Ids \cup {Nothing} /\ refs' \in [Branch -> Ids \cup {Nothing}]
      /\ mergeHead' \in Ids \cup {Nothing}
  <2>1. N' \in Nat
    BY Steps DEF Grows
  <2>2. 0 .. N' \subseteq Ids \cup {Nothing}
    BY <1>c, <2>1, CrashAssumption DEF Ids, Nothing
  <2> QED
    BY <2>2, StepBounded DEF Bounded
<1>3. index' \in Snapshot
  BY <1>a, Frames, IndexSteps DEF TypeOK
<1>4. torn' \in [blobs : SUBSET blobs', trees : SUBSET trees'] /\ blobs' \subseteq Text
  <2>0. torn \in [blobs : SUBSET blobs, trees : SUBSET trees] /\ blobs \subseteq Text
    BY <1>a DEF TypeOK
  <2>1. CASE UNCHANGED torn
    <3>1. blobs \subseteq blobs' /\ trees \subseteq trees'
      BY Steps DEF Grows
    <3>2. blobs' \subseteq Text
      <4>1. CASE OpenBlob(p)
        BY <2>0, <4>1, OpenBlobText DEF OpenBlob
      <4>2. CASE UNCHANGED blobs
        BY <2>0, <4>2
      <4> QED
        BY <4>1, <4>2, Frames
    <3> QED
      BY <2>0, <2>1, <3>1, <3>2
  <2>2. CASE OpenBlob(p)
    BY <2>0, <2>2, OpenBlobText DEF OpenBlob
  <2>3. CASE WriteBlob(p)
    BY <2>0, <2>3 DEF WriteBlob
  <2>6. CASE ReopenBlob(p)
    BY <2>0, <2>6, ReopenBlobNext DEF ReopenBlob
  <2>4. CASE OpenTree(p)
    BY <2>0, <2>4 DEF OpenTree
  <2>5. CASE WriteTree(p)
    BY <2>0, <2>5 DEF WriteTree
  <2> QED
    BY <2>1, <2>2, <2>3, <2>4, <2>5, <2>6, Frames
<1>5. run' \in [Proc -> Memory \cup {Idle}]
  <2>1. PICK x : Becomes(p, x)
    BY Steps
  <2> QED
    BY <1>a, <2>1 DEF Becomes, TypeOK
<1>6. wd' \in [Path -> Text]
  <2>0. wd \in [Path -> Text] /\ Markers \in Text
    BY <1>a, CrashAssumption DEF TypeOK
  <2>1. CASE UNCHANGED wd
    BY <2>0, <2>1
  <2>2. CASE Reconstruct(p)
    <3>1. PICK g, n : g = o.program /\ n = o.at
      OBVIOUS
    <3>2. g \in Programs /\ n \in 1 .. Len(Program[g]) /\ Program[g][n] = "reconstruct"
      BY <1>a, <1>b, <2>2, <3>1 DEF Reconstruct, At
    <3>3. (g = "checkout" /\ n = 3) \/ (g = "forward" /\ n = 5)
      BY <3>2, Where
    <3>4. o.other \in 1 .. N
      BY <1>a, <1>b, <3>1, <3>3 DEF True
    <3>5. PICK e : e = Entries(o.other)
      OBVIOUS
    <3>6. e \in Snapshot /\ wd' = Overlay(wd, e)
      BY <1>a, <1>b, <2>2, <3>4, <3>5, EntriesShape DEF Reconstruct
    <3>7. DOMAIN e \subseteq Path /\ \A k \in DOMAIN e : e[k] \in Text
      BY <3>6, SnapshotShape
    <3> QED
      BY <2>0, <3>6, <3>7 DEF Overlay
  <2>3. CASE MergeFile(p)
    <3>1. wd' = wd \/ \E f : wd' = [wd EXCEPT ![f] = Markers]
      BY <2>3 DEF MergeFile
    <3> QED
      BY <2>0, <3>1
  <2> QED
    BY <2>1, <2>2, <2>3, Frames
<1> QED
  BY <1>1, <1>2, <1>3, <1>4, <1>5, <1>6, <1>c DEF TypeOK, N

LEMMA StepStored ==
  ASSUME Inv, NEW p \in Proc, Step(p)
  PROVE  Stored'
<1>1. blobs \subseteq blobs' /\ trees \subseteq trees' /\ Stored /\ TypeOK
  BY Steps DEF Grows, Inv
<1>2. Range(index)' \subseteq blobs'
  <2>1. CASE UNCHANGED index
    BY <1>1, <2>1 DEF Stored, Range
  <2>2. CASE OpenIndex(p) \/ WriteIndex(p)
    <3>1. Range(index') \subseteq blobs
      BY <2>2, IndexSteps
    <3> QED
      BY <1>1, <3>1 DEF Range
  <2> QED
    BY <2>1, <2>2, Frames
<1>3. CASE UNCHANGED commits
  BY <1>1, <1>2, <1>3 DEF Stored, N, Range
<1>4. CASE StoreCommit(p)
  <2>1. PICK c \in Commit : /\ commits' = Append(commits, c)
                            /\ Range(c.tree) \subseteq blobs /\ c.tree \in trees \cup {<<>>}
    BY <1>4, StoreCommitStep
  <2>2. commits \in Seq(Commit) /\ N \in Nat
    BY <1>1 DEF TypeOK, N
  <2>3. N' = N + 1 /\ commits'[N + 1] = c /\ \A i \in 1 .. N : commits'[i] = commits[i]
    BY <2>1, <2>2 DEF N
  <2>4. ASSUME NEW i \in 1 .. N'
        PROVE  Range(commits'[i].tree) \subseteq blobs' /\ commits'[i].tree \in trees' \cup {<<>>}
    <3>1. CASE i \in 1 .. N
      BY <1>1, <2>3, <3>1 DEF Stored
    <3>2. CASE i = N + 1
      BY <1>1, <2>1, <2>3, <3>2
    <3> QED
      BY <2>2, <2>3, <3>1, <3>2
  <2> QED
    BY <1>2, <2>4 DEF Stored, Range
<1> QED
  BY <1>3, <1>4, Frames

\* A file is empty until its writer goes on.
LEMMA StepTearing ==
  ASSUME Inv, NEW p \in Proc, Step(p)
  PROVE  Tearing'
<1>a. /\ TypeOK /\ run[p] \in Memory /\ True(run[p]) /\ Pending(run[p])
      /\ run[p].program \in Programs /\ run[p].at \in 1 .. Len(Program[run[p].program])
      /\ run[p].at \in Nat /\ N \in Nat
  BY Frames, BeforeStep
<1>b. PICK o : o = run[p]
  OBVIOUS
<1>c. Tearing /\ torn \in [blobs : SUBSET blobs, trees : SUBSET trees]
      /\ run \in [Proc -> Memory \cup {Idle}]
  BY <1>a DEF Inv, TypeOK
<1>d. PICK x : run' = [run EXCEPT ![p] = x]
  BY Steps DEF Becomes
<1>e. run'[p] = x /\ \A q \in Proc : q # p => run'[q] = run[q]
  BY <1>c, <1>d
<1>f. UNCHANGED killed
  BY Frames
\* What others write stays so.
<1>1. ASSUME NEW b \in torn.blobs, ~At(p, "write blob") \/ run[p].index[run[p].arg] # b
      PROVE  \/ KilledAt({"write blob"})'
             \/ \E q \in Proc : At(q, "write blob")' /\ (run[q].index[run[q].arg])' = b
  <2>1. CASE KilledAt({"write blob"})
    BY <1>f, <2>1 DEF KilledAt
  <2>2. CASE \E q \in Proc : At(q, "write blob") /\ run[q].index[run[q].arg] = b
    <3>1. PICK q \in Proc : At(q, "write blob") /\ run[q].index[run[q].arg] = b
      BY <2>2
    <3>2. q # p
      BY <1>1, <3>1
    <3>3. run'[q] = run[q]
      BY <1>e, <3>2
    <3> QED
      BY <3>1, <3>3 DEF At
  <2> QED
    BY <1>c, <1>1, <2>1, <2>2 DEF Tearing
<1>2. ASSUME NEW t \in torn.trees, ~At(p, "write tree") \/ run[p].index # t
      PROVE  \/ KilledAt({"write tree"})'
             \/ \E q \in Proc : At(q, "write tree")' /\ (run[q].index)' = t
  <2>1. CASE KilledAt({"write tree"})
    BY <1>f, <2>1 DEF KilledAt
  <2>2. CASE \E q \in Proc : At(q, "write tree") /\ run[q].index = t
    <3>1. PICK q \in Proc : At(q, "write tree") /\ run[q].index = t
      BY <2>2
    <3>2. q # p
      BY <1>2, <3>1
    <3>3. run'[q] = run[q]
      BY <1>e, <3>2
    <3> QED
      BY <3>1, <3>3 DEF At
  <2> QED
    BY <1>c, <1>2, <2>1, <2>2 DEF Tearing
<1>3. \A b \in torn'.blobs :
        \/ KilledAt({"write blob"})'
        \/ \E q \in Proc : At(q, "write blob")' /\ (run[q].index[run[q].arg])' = b
  <2>1. CASE OpenBlob(p)
    <3>1. PICK text : text = wd[o.arg]
      OBVIOUS
    <3>2. torn'.blobs = torn.blobs \cup {text} /\ At(p, "open blob")
      BY <1>b, <1>c, <2>1, <3>1 DEF OpenBlob
    <3>3. At(p, "write blob")' /\ (run[p].index[run[p].arg])' = text
      BY <1>b, <2>1, <3>1, OpenBlobText
    <3>4. ~At(p, "write blob")
      BY <3>2 DEF At
    <3> QED
      BY <1>1, <3>2, <3>3, <3>4
  <2>2. CASE WriteBlob(p)
    <3>1. torn'.blobs = torn.blobs \ {run[p].index[run[p].arg]}
      BY <1>c, <2>2 DEF WriteBlob
    <3> QED
      BY <1>1, <3>1
  <2>4. CASE ReopenBlob(p)
    <3>1. /\ torn'.blobs = torn.blobs \cup {run[p].index[run[p].arg]}
          /\ At(p, "reopen blob")
      BY <1>c, <2>4 DEF ReopenBlob
    <3>2. /\ At(p, "write blob")'
          /\ (run[p].index[run[p].arg])' = run[p].index[run[p].arg]
      BY <2>4, ReopenBlobNext
    <3>3. ~At(p, "write blob")
      BY <3>1 DEF At
    <3> QED
      BY <1>1, <3>1, <3>2, <3>3
  <2>3. CASE ~OpenBlob(p) /\ ~ReopenBlob(p) /\ ~WriteBlob(p)
    <3>1. torn'.blobs = torn.blobs
      BY <1>c, <2>3, Frames DEF OpenTree, WriteTree
    <3>2. ~At(p, "write blob")
      BY <2>3, OnlyWriters
    <3> QED
      BY <1>1, <3>1, <3>2
  <2> QED
    BY <2>1, <2>2, <2>3, <2>4
<1>4. \A t \in torn'.trees :
        \/ KilledAt({"write tree"})'
        \/ \E q \in Proc : At(q, "write tree")' /\ (run[q].index)' = t
  <2>1. CASE OpenTree(p)
    <3>1. /\ torn'.trees = torn.trees \/ torn'.trees = torn.trees \cup {run[p].index}
          /\ At(p, "open tree")
      BY <1>c, <2>1 DEF OpenTree
    <3>2. At(p, "write tree")' /\ (run[p].index)' = run[p].index
      BY <2>1, OpenTreeNext
    <3>3. ~At(p, "write tree")
      BY <3>1 DEF At
    <3> QED
      BY <1>2, <3>1, <3>2, <3>3
  <2>2. CASE WriteTree(p)
    <3>1. torn'.trees = torn.trees \ {run[p].index}
      BY <1>c, <2>2 DEF WriteTree
    <3> QED
      BY <1>2, <3>1
  <2>3. CASE ~OpenTree(p) /\ ~WriteTree(p)
    <3>1. torn'.trees = torn.trees
      BY <1>c, <2>3, Frames DEF OpenBlob, ReopenBlob, WriteBlob
    <3>2. ~At(p, "write tree")
      BY <2>3, OnlyWriters
    <3> QED
      BY <1>2, <3>1, <3>2
  <2> QED
    BY <2>1, <2>2, <2>3
<1> QED
  BY <1>3, <1>4 DEF Tearing

LEMMA StepKeeps ==
  ASSUME Inv, NEW p \in Proc, Step(p)
  PROVE  Inv'
BY StepTyped, StepKnowing, StepBounded, StepStored, StepTearing DEF Inv

-----------------------------------------------------------------------------
(***************************************************************************)
(* Commands that start or are killed, and the user.                        *)
(***************************************************************************)

\* Where objects, references and the index stay, what is known of them does.
LEMMA SameFiles ==
  ASSUME Bounded, Stored, together \subseteq together',
         UNCHANGED <<pointers, index, objects>>
  PROVE  Bounded' /\ Stored'
<1>1. Met({"commit", "merge"}) => Met({"commit", "merge"})'
  BY DEF Met
<1> QED
  BY <1>1 DEF pointers, objects, Bounded, Stored, N

\* And so does what the processes know.
LEMMA SameKnowledge ==
  ASSUME Knowing, TypeOK, UNCHANGED <<blobs, trees, commits, mergeHead, run, together>>
  PROVE  Knowing'
<1>1. Grows
  <2>1. N \in Nat /\ N' = N
    BY DEF TypeOK, N
  <2> QED
    BY <2>1 DEF Grows
<1>2. ASSUME NEW q \in Proc, run'[q] # Idle
      PROVE  True(run[q])' /\ Pending(run[q])'
  <2>1. PICK y : y = run[q]
    OBVIOUS
  <2>2. run'[q] = y /\ y # Idle /\ True(y) /\ Pending(y)
    BY <1>2, <2>1 DEF Knowing
  <2>3. True(y)'
    BY <1>1, <2>2, TrueStays
  <2>4. Pending(y)'
    BY <2>2 DEF Pending, Met
  <2> QED
    BY <2>2, <2>3, <2>4 DEF True, Pending
<1> QED
  BY <1>2 DEF Knowing

\* Who is writing a file still is.
LEMMA SameWriters ==
  ASSUME Tearing, UNCHANGED <<torn, killed>>, \A q \in Proc : \A step : At(q, step) => run'[q] = run[q]
  PROVE  Tearing'
<1>1. \A q \in Proc : \A step : At(q, step) => At(q, step)'
  BY DEF At
<1>2. \A steps : KilledAt(steps) => KilledAt(steps)'
  BY DEF KilledAt
<1>3. \A b \in torn'.blobs : \/ KilledAt({"write blob"})'
        \/ \E q \in Proc : At(q, "write blob")' /\ (run[q].index[run[q].arg])' = b
  BY <1>1, <1>2 DEF Tearing
<1>4. \A t \in torn'.trees : \/ KilledAt({"write tree"})'
        \/ \E q \in Proc : At(q, "write tree")' /\ (run[q].index)' = t
  BY <1>1, <1>2 DEF Tearing
<1> QED
  BY <1>3, <1>4 DEF Tearing

LEMMA StartKeeps ==
  ASSUME Inv, NEW p \in Proc, NEW c \in budget.asked, Start(p, c)
  PROVE  Inv'
<1>a. TypeOK /\ Knowing /\ Meeting /\ Bounded /\ Stored /\ Tearing
  BY DEF Inv
<1>b. UNCHANGED <<jit, head, refs, mergeHead, index, blobs, trees, torn, commits, wd, killed>>
  BY DEF Start, pointers, objects
<1>c. together \subseteq together'
  BY DEF Start
<1>d. N \in Nat /\ N' = N
  BY <1>a, <1>b DEF TypeOK, N
<1>e. Grows
  BY <1>b, <1>c, <1>d DEF Grows
<1>1. c.cmd \in Commands /\ c.arg \in Branch \cup Nat /\ Sensible(c.cmd, c.arg)
  BY <1>a DEF TypeOK, Limits
<1>2. PICK x : x = [cmd |-> c.cmd, program |-> c.cmd, arg |-> c.arg, at |-> 1, index |-> <<>>,
                    name |-> Nothing, ours |-> Nothing, other |-> Nothing, merge |-> <<>>,
                    new |-> Nothing, todo |-> {}]
  OBVIOUS
<1>3. x \in Memory /\ x # Idle
  <2>1. c.cmd \in DOMAIN Program
    BY <1>1, Lengths DEF Programs
  <2>2. <<>> \in Snapshot /\ <<>> \in Seq(Nat) /\ {} \in SUBSET Path /\ Nothing \in Nat /\ 1 \in Nat
    BY SnapshotShape DEF Nothing
  <2>3. x \in Memory
    BY <1>1, <1>2, <2>1, <2>2 DEF Memory
  <2> QED
    BY <2>3, IdleAssumption
<1>4. True(x) /\ Pending(x)'
  <2>1. 1 \in 1 .. Len(Program[c.cmd]) /\ Len(Program[c.cmd]) # 1
    <3>1. \A g \in Commands : 1 \in 1 .. Len(Program[g]) /\ Len(Program[g]) # 1
      <4>1. ASSUME NEW n \in {3, 4, 7, 8, 13}
            PROVE  1 \in 1 .. n /\ n # 1
        OBVIOUS
      <4>2. \A g \in Commands : Len(Program[g]) \in {3, 4, 7, 8, 13}
        BY Lengths DEF Commands
      <4> QED
        BY <4>1, <4>2
    <3> QED
      BY <1>1, <3>1
  <2>2. Nothing \in 0 .. N /\ Range(<<>>) = {}
    BY <1>d, SnapshotShape DEF Nothing
  <2>3. /\ x.cmd = c.cmd /\ x.program = c.cmd /\ x.arg = c.arg /\ x.at = 1 /\ x.index = <<>>
        /\ x.name = Nothing /\ x.ours = Nothing /\ x.merge = <<>> /\ x.new = Nothing /\ x.todo = {}
    BY <1>2
  <2>4. c.cmd \notin {"forward", "diverge"}
    BY <1>1 DEF Commands
  <2>5. True(x)
    BY <1>1, <2>1, <2>2, <2>3, <2>4 DEF True
  <2> QED
    BY <2>3, <2>5 DEF Pending
<1>5. run' = [run EXCEPT ![p] = x]
  BY <1>2 DEF Start
<1>6. run'[p] = x /\ (\A q \in Proc : q # p => run'[q] = run[q]) /\ run[p] = Idle
      /\ run' \in [Proc -> Memory \cup {Idle}]
  BY <1>a, <1>3, <1>5 DEF TypeOK, Start
<1>7. TypeOK'
  <2>1. budget' \in Limits
    <3>1. budget \in Limits /\ budget.commands > 0
      BY <1>a DEF TypeOK, Start
    <3>2. budget' = [budget EXCEPT !.commands = @ - 1]
      BY DEF Start
    <3> QED
      BY <3>1, <3>2 DEF Limits
  <2> QED
    BY <1>a, <1>b, <1>6, <2>1 DEF TypeOK
<1>8. Knowing'
  <2>1. ASSUME NEW q \in Proc, run'[q] # Idle
        PROVE  True(run[q])' /\ Pending(run[q])'
    <3>1. CASE q = p
      <4>1. True(x)'
        BY <1>4, <1>e, TrueStays
      <4> QED
        BY <1>4, <1>6, <3>1, <4>1 DEF True, Pending
    <3>2. CASE q # p
      <4>1. PICK y : y = run[q]
        OBVIOUS
      <4>2. run'[q] = y /\ y # Idle /\ True(y) /\ Pending(y)
        BY <1>6, <1>a, <2>1, <3>2, <4>1 DEF Knowing
      <4>3. True(y)'
        BY <1>e, <4>2, TrueStays
      <4>4. Pending(y)'
        BY <1>b, <1>c, <4>2 DEF Pending, Met
      <4> QED
        BY <4>2, <4>3, <4>4 DEF True, Pending
    <3> QED
      BY <3>1, <3>2
  <2> QED
    BY <2>1 DEF Knowing
<1>9. Meeting'
  <2>1. \A q \in Proc : q # p /\ run[q] # Idle => {c.cmd, run[q].cmd} \in together'
    BY DEF Start, Running
  <2>2. x.cmd = c.cmd
    BY <1>2
  <2>3. ASSUME NEW q \in Proc, NEW r \in Proc, q # r, run'[q] # Idle, run'[r] # Idle
        PROVE  {run'[q].cmd, run'[r].cmd} \in together'
    <3>1. CASE q = p
      BY <1>6, <2>1, <2>2, <2>3, <3>1
    <3>2. CASE r = p
      <4>1. {c.cmd, run[q].cmd} \in together'
        BY <1>6, <2>1, <2>3, <3>2
      <4>2. {run'[q].cmd, run'[r].cmd} = {c.cmd, run[q].cmd}
        BY <1>6, <2>2, <2>3, <3>2
      <4> QED
        BY <4>1, <4>2
    <3>3. CASE q # p /\ r # p
      BY <1>6, <1>a, <1>c, <2>3, <3>3 DEF Meeting
    <3> QED
      BY <3>1, <3>2, <3>3
  <2> QED
    BY <2>3 DEF Meeting
<1>10. Bounded' /\ Stored'
  BY <1>a, <1>c, SameFiles DEF Start
<1>11. Tearing'
  <2>1. \A q \in Proc : \A step : At(q, step) => run'[q] = run[q]
    BY <1>6 DEF At
  <2> QED
    BY <1>a, <1>b, <2>1, SameWriters
<1> QED
  BY <1>7, <1>8, <1>9, <1>10, <1>11 DEF Inv

LEMMA KillKeeps ==
  ASSUME Inv, NEW p \in Proc, Kill(p)
  PROVE  Inv'
<1>a. TypeOK /\ Knowing /\ Meeting /\ Bounded /\ Stored /\ Tearing
  BY DEF Inv
<1>b. /\ UNCHANGED <<jit, head, refs, mergeHead, index, blobs, trees, torn, commits, wd, together>>
      /\ killed \subseteq killed'
  BY DEF Kill, pointers, objects
<1>d. N \in Nat /\ N' = N
  BY <1>a, <1>b DEF TypeOK, N
<1>e. Grows
  BY <1>b, <1>d DEF Grows
<1>6. run'[p] = Idle /\ (\A q \in Proc : q # p => run'[q] = run[q])
      /\ run' \in [Proc -> Memory \cup {Idle}]
  BY <1>a DEF TypeOK, Kill
<1>7. TypeOK'
  <2>1. budget' \in Limits
    <3>1. budget \in Limits /\ budget.kills > 0
      BY <1>a DEF TypeOK, Kill
    <3>2. budget' = [budget EXCEPT !.kills = @ - 1]
      BY DEF Kill
    <3> QED
      BY <3>1, <3>2 DEF Limits
  <2> QED
    BY <1>a, <1>b, <1>6, <2>1 DEF TypeOK
<1>8. Knowing'
  <2>1. ASSUME NEW q \in Proc, run'[q] # Idle
        PROVE  True(run[q])' /\ Pending(run[q])'
    <3>1. PICK y : y = run[q]
      OBVIOUS
    <3>2. run'[q] = y /\ y # Idle /\ True(y) /\ Pending(y)
      BY <1>6, <1>a, <2>1, <3>1 DEF Knowing
    <3>3. True(y)'
      BY <1>e, <3>2, TrueStays
    <3>4. Pending(y)'
      BY <1>b, <3>2 DEF Pending, Met
    <3> QED
      BY <3>2, <3>3, <3>4 DEF True, Pending
  <2> QED
    BY <2>1 DEF Knowing
<1>9. Meeting'
  BY <1>6, <1>a, <1>b DEF Meeting
<1>10. Bounded' /\ Stored'
  BY <1>a, <1>b, SameFiles DEF Kill
<1>11. Tearing'
  <2>1. \A steps : KilledAt(steps) => KilledAt(steps)'
    BY <1>b DEF KilledAt
  <2>2. \A step : At(p, step) => KilledAt({step})'
    <3>1. PICK k : k = <<run[p].cmd, Program[run[p].program][run[p].at]>>
      OBVIOUS
    <3>2. k \in killed' /\ k[2] = Program[run[p].program][run[p].at]
      BY <3>1 DEF Kill
    <3> QED
      BY <3>2 DEF At, KilledAt
  <2>3. \A q \in Proc : \A step : q # p /\ At(q, step) => At(q, step)' /\ run'[q] = run[q]
    BY <1>6 DEF At
  <2>4. \A b \in torn'.blobs : \/ KilledAt({"write blob"})'
          \/ \E q \in Proc : At(q, "write blob")' /\ (run[q].index[run[q].arg])' = b
    <3>1. ASSUME NEW b \in torn.blobs
          PROVE \/ KilledAt({"write blob"})'
                \/ \E q \in Proc : At(q, "write blob")' /\ (run[q].index[run[q].arg])' = b
      <4>1. CASE KilledAt({"write blob"})
        BY <2>1, <4>1
      <4>2. CASE \E q \in Proc : At(q, "write blob") /\ run[q].index[run[q].arg] = b
        <5>1. PICK q \in Proc : At(q, "write blob") /\ run[q].index[run[q].arg] = b
          BY <4>2
        <5>2. CASE q = p
          BY <2>2, <5>1, <5>2
        <5>3. CASE q # p
          BY <2>3, <5>1, <5>3
        <5> QED
          BY <5>2, <5>3
      <4> QED
        BY <1>a, <3>1, <4>1, <4>2 DEF Tearing
    <3> QED
      BY <1>b, <3>1
  <2>5. \A t \in torn'.trees : \/ KilledAt({"write tree"})'
          \/ \E q \in Proc : At(q, "write tree")' /\ (run[q].index)' = t
    <3>1. ASSUME NEW t \in torn.trees
          PROVE \/ KilledAt({"write tree"})'
                \/ \E q \in Proc : At(q, "write tree")' /\ (run[q].index)' = t
      <4>1. CASE KilledAt({"write tree"})
        BY <2>1, <4>1
      <4>2. CASE \E q \in Proc : At(q, "write tree") /\ run[q].index = t
        <5>1. PICK q \in Proc : At(q, "write tree") /\ run[q].index = t
          BY <4>2
        <5>2. CASE q = p
          BY <2>2, <5>1, <5>2
        <5>3. CASE q # p
          BY <2>3, <5>1, <5>3
        <5> QED
          BY <5>2, <5>3
      <4> QED
        BY <1>a, <3>1, <4>1, <4>2 DEF Tearing
    <3> QED
      BY <1>b, <3>1
  <2> QED
    BY <2>4, <2>5 DEF Tearing
<1> QED
  BY <1>7, <1>8, <1>9, <1>10, <1>11 DEF Inv

LEMMA EditKeeps ==
  ASSUME Inv, NEW f \in Path, NEW t \in Text, Edit(f, t)
  PROVE  Inv'
<1>a. TypeOK /\ Knowing /\ Meeting /\ Bounded /\ Stored /\ Tearing
  BY DEF Inv
<1>b. UNCHANGED <<jit, head, refs, mergeHead, index, blobs, trees, torn, commits, run, budget,
                  killed, together>>
  BY DEF Edit, Others, pointers, objects
<1>1. TypeOK'
  <2>1. wd' \in [Path -> Text]
    BY <1>a DEF TypeOK, Edit
  <2> QED
    BY <1>a, <1>b, <2>1 DEF TypeOK
<1>2. Bounded' /\ Stored'
  <2>1. together \subseteq together' /\ UNCHANGED <<pointers, index, objects>>
    BY DEF Edit, Others
  <2> QED
    BY <1>a, <2>1, SameFiles
<1>3. Knowing'
  BY <1>a, <1>b, SameKnowledge
<1>4. Meeting' /\ Tearing'
  <2>1. Meeting'
    BY <1>a, <1>b DEF Meeting
  <2>2. \A q \in Proc : \A step : At(q, step) => run'[q] = run[q]
    BY <1>b
  <2> QED
    BY <1>a, <1>b, <2>1, <2>2, SameWriters
<1> QED
  BY <1>1, <1>2, <1>3, <1>4 DEF Inv

LEMMA StutterKeeps ==
  ASSUME Inv, UNCHANGED vars
  PROVE  Inv'
<1>a. TypeOK /\ Knowing /\ Meeting /\ Bounded /\ Stored /\ Tearing
  BY DEF Inv
<1>b. UNCHANGED <<jit, head, refs, mergeHead, index, blobs, trees, torn, commits, wd, run, budget,
                  killed, together>>
  BY DEF vars, pointers, objects
<1>1. TypeOK'
  BY <1>a, <1>b DEF TypeOK
<1>2. Bounded' /\ Stored'
  <2>1. together \subseteq together' /\ UNCHANGED <<pointers, index, objects>>
    BY <1>b DEF pointers, objects
  <2> QED
    BY <1>a, <2>1, SameFiles
<1>3. Knowing'
  BY <1>a, <1>b, SameKnowledge
<1>4. Meeting' /\ Tearing'
  <2>1. Meeting'
    BY <1>a, <1>b DEF Meeting
  <2>2. \A q \in Proc : \A step : At(q, step) => run'[q] = run[q]
    BY <1>b
  <2> QED
    BY <1>a, <1>b, <2>1, <2>2, SameWriters
<1> QED
  BY <1>1, <1>2, <1>3, <1>4 DEF Inv

LEMMA Begins == Init => Inv
<1> SUFFICES ASSUME Init PROVE Inv
  OBVIOUS
<1>1. PICK s \in Setups :
        /\ jit = s.jit /\ head = s.head /\ refs = s.refs /\ mergeHead = s.mergeHead
        /\ index = s.index /\ blobs = s.blobs /\ trees = s.trees /\ commits = s.commits
        /\ torn = [blobs |-> {}, trees |-> {}]
        /\ wd = s.wd /\ run = [p \in Proc |-> Idle] /\ budget = s.budget
  BY DEF Init
<1>2. N = Len(s.commits)
  BY <1>1 DEF N
<1>3. /\ s.jit \in BOOLEAN
      /\ s.commits \in Seq(Commit) /\ N <= MaxCommits
      /\ s.head \in Branch \cup 0 .. N
      /\ s.refs \in [Branch -> 0 .. N] /\ s.mergeHead \in 0 .. N
      /\ s.wd \in [Path -> Text] /\ s.index \in Snapshot
      /\ s.blobs \subseteq Text /\ Range(s.index) \subseteq s.blobs
      /\ \A c \in 1 .. N :
           /\ Range(s.commits[c].parents) \subseteq 1 .. (c - 1)
           /\ Range(s.commits[c].tree) \subseteq s.blobs
           /\ s.commits[c].tree \in s.trees
      /\ s.budget \in Limits
  BY <1>2, SetupAssumption
<1>4. N \in Nat
  BY <1>2, <1>3
<1>5. TypeOK
  <2>1. 0 .. N \subseteq Ids \cup {Nothing}
    BY <1>3, <1>4, CrashAssumption DEF Ids, Nothing
  <2>2. /\ head \in Branch \cup Ids \cup {Nothing} /\ refs \in [Branch -> Ids \cup {Nothing}]
        /\ mergeHead \in Ids \cup {Nothing}
    BY <1>1, <1>3, <2>1
  <2> QED
    BY <1>1, <1>2, <1>3, <2>2 DEF TypeOK
<1>6. Knowing /\ Meeting /\ Tearing
  BY <1>1 DEF Knowing, Meeting, Tearing
<1>7. Bounded
  <2>1. ASSUME NEW c \in 1 .. N
        PROVE  /\ Range(commits[c].parents) \subseteq 0 .. (c - 1)
               /\ Nothing \notin Range(commits[c].parents)
    <3>1. Range(commits[c].parents) \subseteq 1 .. (c - 1)
      BY <1>1, <1>3
    <3> QED
      BY <3>1 DEF Nothing
  <2> QED
    BY <1>1, <1>3, <2>1 DEF Bounded
<1>8. Stored
  BY <1>1, <1>3 DEF Stored
<1> QED
  BY <1>5, <1>6, <1>7, <1>8 DEF Inv

LEMMA Keeps == Inv /\ [Next]_vars => Inv'
<1> SUFFICES ASSUME Inv, [Next]_vars PROVE Inv'
  OBVIOUS
<1>1. CASE \E f \in Path, t \in Text \ {Markers} : Edit(f, t)
  BY <1>1, EditKeeps
<1>2. ASSUME NEW p \in Proc, Step(p) PROVE Inv'
  BY <1>2, StepKeeps
<1>3. ASSUME NEW p \in Proc, Kill(p) PROVE Inv'
  BY <1>3, KillKeeps
<1>4. ASSUME NEW p \in Proc, NEW c \in budget.asked, Start(p, c) PROVE Inv'
  BY <1>4, StartKeeps
<1>5. CASE UNCHANGED vars
  BY <1>5, StutterKeeps
<1> QED
  BY <1>1, <1>2, <1>3, <1>4, <1>5 DEF Next

\* The invariant holds whatever happens.
THEOREM Invariant == Spec => []Inv
<1> QED
  BY Begins, Keeps, PTL DEF Spec

\* The files of .jit, and what processes know, have their types, in every
\* repository that begins whole.
THEOREM TypeCorrect == Spec => []TypeOK
<1>1. Inv => TypeOK
  BY DEF Inv
<1> QED
  BY <1>1, Invariant, PTL

\* Whatever is killed, and whatever runs at the same time, no reference and no
\* parent dangles or makes a cycle; only a commit beside a commit or merge
\* writes an empty line for a parent.
THEOREM Readability == Spec => []HistoryReadable
<1>1. Inv => HistoryReadable
  <2> SUFFICES ASSUME Inv PROVE HistoryReadable
    OBVIOUS
  <2>1. Bounded /\ N \in Nat
    BY DEF Inv, TypeOK, N
  <2>2. 0 .. N \subseteq (1 .. N) \cup {Nothing}
    BY <2>1 DEF Nothing
  <2>3. Tip(head) \in 0 .. N /\ mergeHead \in 0 .. N /\ Range(refs) \subseteq 0 .. N
    BY <2>1 DEF Bounded, Tip, Range
  <2>4. Range(refs) \cup {Tip(head), mergeHead} \subseteq (1 .. N) \cup {Nothing}
    BY <2>2, <2>3
  <2> QED
    BY <2>1, <2>4 DEF HistoryReadable, Bounded, N
<1> QED
  BY <1>1, Invariant, PTL

\* What the index lists and what commits hold is stored, and a file of it is
\* empty only while it is written or after its writer was killed.
THEOREM Wholeness == Spec => []ObjectsWhole
<1>1. Inv => ObjectsWhole
  <2> SUFFICES ASSUME Inv PROVE ObjectsWhole
    OBVIOUS
  <2>1. Stored /\ Tearing
    BY DEF Inv
  <2> DEFINE hashes == Range(index) \cup UNION {Range(commits[c].tree) : c \in 1 .. Len(commits)}
             roots  == {commits[c].tree : c \in 1 .. Len(commits)} \ {<<>>}
  <2>2. hashes \subseteq blobs /\ roots \subseteq trees
    BY <2>1 DEF Stored, N
  <2>3. hashes \cap torn.blobs # {} => (\E p \in Proc : At(p, "write blob")) \/ KilledAt({"write blob"})
    BY <2>1 DEF Tearing
  <2>4. roots \cap torn.trees # {} => (\E p \in Proc : At(p, "write tree")) \/ KilledAt({"write tree"})
    BY <2>1 DEF Tearing
  <2> QED
    BY <2>2, <2>3, <2>4 DEF ObjectsWhole
<1> QED
  BY <1>1, Invariant, PTL
=============================================================================
