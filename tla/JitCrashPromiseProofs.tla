----------------------- MODULE JitCrashPromiseProofs -----------------------
(***************************************************************************)
(* Proofs about JitCrash: what was reported as added, begun or committed   *)
(* stays, but for the kills and the meetings that the properties name.     *)
(* Each part of the invariant is about a repository to which none of those *)
(* has happened yet; what has happened is never forgotten.                 *)
(***************************************************************************)
EXTENDS JitCrashProofs

-----------------------------------------------------------------------------
(***************************************************************************)
(* Files.  No command but add and checkout saves the index, and nothing    *)
(* runs beside those.                                                      *)
(***************************************************************************)
FilesLost ==
  \/ KilledAt({"write index"})
  \/ \E pair \in together : pair \cap {"add", "checkout"} # {}

\* Everything that was added or committed is among the files F.
Covers(F) ==
  staged \subseteq F /\ \A c \in 1 .. N : DOMAIN commits[c].tree \subseteq F

\* What a process has loaded is not out of date, and a save that is under way
\* still has the files to write that the index lacks.
Saved(m) ==
  /\ m.program = "commit" /\ m.at > 1 => m.index = index
  /\ m.program \in {"add", "checkout"} /\ m.at > 1 => Covers(DOMAIN m.index)
  /\ m.program = "add" /\ m.at > 2 => m.arg \in DOMAIN m.index
  /\ m.program \in {"add", "checkout"} /\ m.at = Len(Program[m.program])
       => DOMAIN m.index \subseteq DOMAIN index \cup m.todo

Inherited ==
  \A c \in 1 .. N : \A d \in Range(commits[c].parents) \ {Nothing} :
    DOMAIN commits[d].tree \subseteq DOMAIN commits[c].tree

Saving(p) == At(p, "write index")

Filed ==
  \/ FilesLost
  \/ /\ Inherited
     /\ (\E p \in Proc : Saving(p)) \/ Covers(DOMAIN index)
     /\ \A p \in Proc : run[p] # Idle => Saved(run[p])

-----------------------------------------------------------------------------
(***************************************************************************)
(* The merge that was begun.  Of commit and merge one runs at a time, and  *)
(* no branch beside a merge.                                               *)
(***************************************************************************)
MergeLost ==
  \/ killed \cap MergeLosing # {}
  \/ Met({"commit", "merge"}) \/ {"branch", "merge"} \in together

Merging(m) == m.program \in {"commit", "merge", "forward", "diverge"}

\* Between clearing MERGE_HEAD and its report, a commit has the merge that was
\* begun among the parents it is to store or has stored.  A merge that writes
\* MERGE_HEAD has the other side's commit, which does not change while it runs.
Ending(m) == m.program = "commit" /\ m.at > 8
Beginning(m) == m.program = "diverge"

Carried(m) ==
  /\ m.program = "commit" /\ m.at = 8 => m.merge = <<mergeHead>>
  /\ m.program = "commit" /\ m.at = 9 => begun = Nothing \/ m.merge = <<begun>>
  /\ m.program = "commit" /\ m.at > 9 =>
       begun = Nothing \/ (m.new \in 1 .. N /\ begun \in Range(commits[m.new].parents))
  /\ m.program = "merge" /\ m.at = 4 => m.other = Tip(m.arg)
  /\ m.program = "diverge" => m.other = Tip(m.arg)
  /\ m.program = "diverge" /\ m.at \in {3, 4} => m.new = m.other

Merged ==
  \/ MergeLost
  \/ /\ \/ \E p \in Proc : run[p] # Idle /\ (Ending(run[p]) \/ Beginning(run[p]))
        \/ begun # Nothing => mergeHead = begun
     /\ \A p \in Proc : run[p] # Idle => Carried(run[p])

-----------------------------------------------------------------------------
(***************************************************************************)
(* The commits that were made.  Of the commands but add one runs at a time.*)
(***************************************************************************)
CommitLost ==
  \/ KilledAt({"write ref", "write HEAD"})
  \/ killed \cap {<<"checkout", "open index">>, <<"checkout", "write index">>} # {}
  \/ Met({"init", "commit", "branch", "checkout", "merge"})

\* The commits that were reported as made on branch b are below c.
Holds(c, b) == \A k \in kept : k[2] = b => k[1] \in Ancestors(c)

\* Between the step that moves or clears HEAD and the report.
Switching(m) ==
  (m.program = "init" /\ m.at = 3) \/ (m.program = "checkout" /\ m.at > 5)

\* Between the step that clears the file of branch b and the one that writes it.
Pointing(m, b) ==
  /\ (m.program = "commit" /\ m.at = 13) \/ (m.program \in {"branch", "forward"} /\ m.at = 4)
  /\ Moved(m) = b

Known(m) ==
  /\ m.program = "checkout" /\ m.at > 6 => head = m.arg
  /\ m.program = "commit" /\ m.at > 2 => m.name = head
  /\ m.program = "commit" /\ m.at \in 4 .. 12 => m.ours = Tip(head)
  /\ m.program = "commit" /\ m.at > 9 => m.new \in 1 .. N /\ (head \in Branch => Holds(m.new, head))
  /\ m.program = "commit" /\ m.at > 10 => head \in Branch
  /\ m.program = "merge" /\ m.at > 1 => m.name = head
  /\ m.program = "merge" /\ m.at > 2 => m.ours = Tip(head)
  /\ m.program = "merge" /\ m.at = 4 => m.other = Tip(m.arg)
  /\ m.program = "forward" /\ m.at < 4 => m.other = Tip(m.arg)
  /\ m.program = "forward" /\ m.at < 5 /\ head \in Branch => Holds(m.other, head)
  /\ m.program = "forward" /\ m.at > 1 => m.name = head
  /\ m.program = "forward" /\ m.at > 2 => m.new = m.other

\* Commits are reported as made on branches.
OnBranches == \A k \in kept : k[2] \in Branch

Anchored ==
  \/ CommitLost
  \/ /\ OnBranches
     /\ \/ \E p \in Proc : run[p] # Idle /\ Switching(run[p])
        \/ head = selected
     /\ \A b \in Branch : \/ \E p \in Proc : run[p] # Idle /\ Pointing(run[p], b)
                          \/ Holds(refs[b], b)
     /\ \A p \in Proc : run[p] # Idle => Known(run[p])

-----------------------------------------------------------------------------
(***************************************************************************)
(* How a process goes on, for every program and place in it.               *)
(***************************************************************************)

\* Where a process reads HEAD, a branch, and the commit it was asked for.
NamesHead(m) ==
  \/ m.program = "commit" /\ m.at \in {2, 11}
  \/ m.program \in {"branch", "merge", "forward"} /\ m.at = 1
ReadsRef(m) ==
  (m.program = "commit" /\ m.at = 3) \/ (m.program \in {"branch", "merge"} /\ m.at = 2)
Resolves(m) == (m.program = "checkout" /\ m.at = 2) \/ (m.program = "merge" /\ m.at = 3)
ResolvesAgain(m) == m.program \in {"forward", "diverge"} /\ m.at = 2
Loads(m) == m.program \in {"add", "commit", "checkout"} /\ m.at = 1
Lists(m) == (m.program = "add" /\ m.at = 2) \/ (m.program = "checkout" /\ m.at = 4)

\* x is what a process knows that knew m.
Learnt(m, x) ==
  /\ x.cmd = m.cmd /\ x.arg = m.arg
  /\ Loads(m) => x.index = index
  /\ Lists(m) => /\ DOMAIN m.index \subseteq DOMAIN x.index
                 /\ m.program = "add" => m.arg \in DOMAIN x.index
  /\ ~Loads(m) /\ ~Lists(m) => x.index = m.index
  /\ x.name = IF NamesHead(m) THEN head ELSE m.name
  /\ x.ours = IF ReadsRef(m) THEN Tip(m.name) ELSE m.ours
  /\ x.other = IF Resolves(m) THEN Tip(m.arg) ELSE m.other
  /\ x.merge = IF m.program = "commit" /\ m.at = 7 THEN <<mergeHead>> ELSE m.merge
  /\ x.new = IF ResolvesAgain(m) THEN Tip(m.arg)
             ELSE IF m.program = "commit" /\ m.at = 9 THEN N + 1 ELSE m.new

\* Where it is then.
Turns(m, x) ==
  \/ /\ x.program = m.program /\ x.at = m.at + 1 /\ m.at # Len(Program[m.program])
     /\ m.program = "commit" => m.at # 10 \/ head \in Branch
  \/ /\ m.program = "commit" /\ m.at = 6 /\ mergeHead = Nothing
     /\ x.program = "commit" /\ x.at = 9
  \/ /\ m.program = "merge" /\ m.at = 4 /\ m.ours \in Ancestors(m.other)
     /\ x.program = "forward" /\ x.at = 1
  \/ m.program = "merge" /\ m.at = 4 /\ x.program = "diverge" /\ x.at = 1
  \/ m.program = "diverge" /\ m.at = 4 /\ x.program = "diverge" /\ x.at = 1
  \/ /\ m.program \in {"add", "checkout"} /\ m.at = Len(Program[m.program])
     /\ x.program = m.program /\ x.at = m.at

Passes(p, x) ==
  /\ run' = [run EXCEPT ![p] = x] /\ x # Idle /\ UNCHANGED promises
  /\ Learnt(run[p], x) /\ Turns(run[p], x)

Stops(p) ==
  /\ Stop(p)
  /\ \/ run[p].program = "init" /\ run[p].at = 1
     \/ run[p].program = "checkout" /\ run[p].at = 2
     \/ run[p].program = "merge" /\ run[p].at = 4

Ends(p) ==
  /\ Finish(p)
  /\ \/ run[p].at = Len(Program[run[p].program]) /\ run[p].program # "merge"
     \/ run[p].program = "commit" /\ run[p].at = 10 /\ head \notin Branch

Proceeds(p) == Stops(p) \/ Ends(p) \/ \E x : Passes(p, x)

LEMMA Goes ==
  ASSUME Inv, NEW p \in Proc, run[p] # Idle, NEW m \in Memory, Learnt(run[p], m), Go(p, m),
         m.at = run[p].at, m.program = run[p].program,
         run[p].program = "merge" => run[p].at # 4,
         run[p].program = "commit" => run[p].at # 10 \/ head \in Branch
  PROVE  Proceeds(p)
<1>1. CASE Last(p)
  <2>1. Finish(p)
    BY <1>1 DEF Go
  <2>2. run[p].program # "merge"
    BY <1>1, Lengths DEF Last
  <2> QED
    BY <1>1, <2>1, <2>2 DEF Last, Ends, Proceeds
<1>2. CASE ~Last(p)
  <2>1. PICK x : x = [m EXCEPT !.at = @ + 1]
    OBVIOUS
  <2>2. run' = [run EXCEPT ![p] = x] /\ UNCHANGED promises
    BY <1>2, <2>1 DEF Go, Stay
  <2>3. /\ x \in Memory /\ x.at = m.at + 1 /\ x.cmd = m.cmd /\ x.program = m.program /\ x.arg = m.arg
        /\ x.index = m.index /\ x.name = m.name /\ x.ours = m.ours /\ x.other = m.other
        /\ x.merge = m.merge /\ x.new = m.new /\ x.todo = m.todo
    BY <2>1, NextStep
  <2>4. Learnt(run[p], x)
    BY <2>3 DEF Learnt
  <2>5. Turns(run[p], x)
    BY <1>2, <2>3 DEF Turns, Last
  <2>6. Passes(p, x)
    BY <2>2, <2>3, <2>4, <2>5, IdleAssumption DEF Passes
  <2> QED
    BY <2>6 DEF Proceeds
<1> QED
  BY <1>1, <1>2

\* A step that learns nothing.
LEMMA GoesAsItIs ==
  ASSUME Inv, NEW p \in Proc, run[p] # Idle, NEW m \in Memory, Go(p, m),
         \A f \in Fields \ {"todo"} : m[f] = run[p][f],
         ~NamesHead(run[p]), ~ReadsRef(run[p]), ~Resolves(run[p]), ~ResolvesAgain(run[p]),
         ~Loads(run[p]), ~Lists(run[p]),
         run[p].program = "merge" => run[p].at # 4,
         run[p].program = "commit" => run[p].at \notin {7, 9} /\ (run[p].at # 10 \/ head \in Branch)
  PROVE  Proceeds(p)
<1>1. PICK o : o = run[p]
  OBVIOUS
<1>2. /\ m.cmd = o.cmd /\ m.arg = o.arg /\ m.at = o.at /\ m.program = o.program
      /\ m.index = o.index /\ m.name = o.name /\ m.ours = o.ours /\ m.other = o.other
      /\ m.merge = o.merge /\ m.new = o.new
  BY <1>1 DEF Fields
<1>3. Learnt(o, m)
  BY <1>1, <1>2 DEF Learnt
<1> QED
  BY <1>1, <1>2, <1>3, Goes

\* Where a process is that is about to take one of the steps that decide, or
\* that change HEAD, MERGE_HEAD, the index, a branch or the commits.
LEMMA Placed ==
  ASSUME Inv, NEW p \in Proc, NEW g, NEW n, g = run[p].program, n = run[p].at
  PROVE  /\ At(p, "make .jit") => g = "init" /\ n = 1
         /\ At(p, "read MERGE_HEAD") => g = "commit" /\ n = 6
         /\ At(p, "clear MERGE_HEAD") => g = "commit" /\ n = 8
         /\ At(p, "store commit") => g = "commit" /\ n = 9
         /\ At(p, "is branch") => g = "commit" /\ n = 10
         /\ At(p, "walk") => g = "merge" /\ n = 4
         /\ At(p, "merge file") => g = "diverge" /\ n = 1
         /\ At(p, "open MERGE_HEAD") => g = "diverge" /\ n = 3
         /\ At(p, "write MERGE_HEAD") => g = "diverge" /\ n = 4
         /\ At(p, "open index") => (g = "add" /\ n = 6) \/ (g = "checkout" /\ n = 7)
         /\ At(p, "write index") => (g = "add" /\ n = 7) \/ (g = "checkout" /\ n = 8)
         /\ At(p, "open HEAD") => (g = "init" /\ n = 2) \/ (g = "checkout" /\ n = 5)
         /\ At(p, "write HEAD") => (g = "init" /\ n = 3) \/ (g = "checkout" /\ n = 6)
         /\ At(p, "open ref") => (g = "commit" /\ n = 12) \/ (g \in {"branch", "forward"} /\ n = 3)
         /\ At(p, "write ref") => (g = "commit" /\ n = 13) \/ (g \in {"branch", "forward"} /\ n = 4)
<1> SUFFICES ASSUME run[p] # Idle
             PROVE  /\ Program[g][n] = "make .jit" => g = "init" /\ n = 1
                    /\ Program[g][n] = "read MERGE_HEAD" => g = "commit" /\ n = 6
                    /\ Program[g][n] = "clear MERGE_HEAD" => g = "commit" /\ n = 8
                    /\ Program[g][n] = "store commit" => g = "commit" /\ n = 9
                    /\ Program[g][n] = "is branch" => g = "commit" /\ n = 10
                    /\ Program[g][n] = "walk" => g = "merge" /\ n = 4
                    /\ Program[g][n] = "merge file" => g = "diverge" /\ n = 1
                    /\ Program[g][n] = "open MERGE_HEAD" => g = "diverge" /\ n = 3
                    /\ Program[g][n] = "write MERGE_HEAD" => g = "diverge" /\ n = 4
                    /\ Program[g][n] = "open index" => (g = "add" /\ n = 6) \/ (g = "checkout" /\ n = 7)
                    /\ Program[g][n] = "write index" => (g = "add" /\ n = 7) \/ (g = "checkout" /\ n = 8)
                    /\ Program[g][n] = "open HEAD" => (g = "init" /\ n = 2) \/ (g = "checkout" /\ n = 5)
                    /\ Program[g][n] = "write HEAD" => (g = "init" /\ n = 3) \/ (g = "checkout" /\ n = 6)
                    /\ Program[g][n] = "open ref" => (g = "commit" /\ n = 12) \/ (g \in {"branch", "forward"} /\ n = 3)
                    /\ Program[g][n] = "write ref" => (g = "commit" /\ n = 13) \/ (g \in {"branch", "forward"} /\ n = 4)
  BY DEF At
<1>1. g \in Programs /\ n \in 1 .. Len(Program[g])
  BY BeforeStep
<1>2. Program[g][n] = "make .jit" => g = "init" /\ n = 1
  BY <1>1, Where, ZenonT(30)
<1>3. Program[g][n] = "read MERGE_HEAD" => g = "commit" /\ n = 6
  BY <1>1, Where, ZenonT(30)
<1>4. Program[g][n] = "clear MERGE_HEAD" => g = "commit" /\ n = 8
  BY <1>1, Where, ZenonT(30)
<1>5. Program[g][n] = "store commit" => g = "commit" /\ n = 9
  BY <1>1, Where, ZenonT(30)
<1>6. Program[g][n] = "is branch" => g = "commit" /\ n = 10
  BY <1>1, Where, ZenonT(30)
<1>7. Program[g][n] = "walk" => g = "merge" /\ n = 4
  BY <1>1, Where, ZenonT(30)
<1>8. Program[g][n] = "merge file" => g = "diverge" /\ n = 1
  BY <1>1, Where, ZenonT(30)
<1>9. Program[g][n] = "open MERGE_HEAD" => g = "diverge" /\ n = 3
  BY <1>1, Where, ZenonT(30)
<1>10. Program[g][n] = "write MERGE_HEAD" => g = "diverge" /\ n = 4
  BY <1>1, Where, ZenonT(30)
<1>11. Program[g][n] = "open index" => (g = "add" /\ n = 6) \/ (g = "checkout" /\ n = 7)
  BY <1>1, Where, ZenonT(30)
<1>12. Program[g][n] = "write index" => (g = "add" /\ n = 7) \/ (g = "checkout" /\ n = 8)
  BY <1>1, Where, ZenonT(30)
<1>13. Program[g][n] = "open HEAD" => (g = "init" /\ n = 2) \/ (g = "checkout" /\ n = 5)
  BY <1>1, Where, ZenonT(30)
<1>14. Program[g][n] = "write HEAD" => (g = "init" /\ n = 3) \/ (g = "checkout" /\ n = 6)
  BY <1>1, Where, ZenonT(30)
<1>15. Program[g][n] = "open ref" => (g = "commit" /\ n = 12) \/ (g \in {"branch", "forward"} /\ n = 3)
  <2>1. Program[g][n] = "open ref" =>
          (g = "commit" /\ n = 12) \/ (g = "branch" /\ n = 3) \/ (g = "forward" /\ n = 3)
    BY <1>1, Where, ZenonT(30)
  <2> QED
    BY <2>1
<1>16. Program[g][n] = "write ref" => (g = "commit" /\ n = 13) \/ (g \in {"branch", "forward"} /\ n = 4)
  <2>1. Program[g][n] = "write ref" =>
          (g = "commit" /\ n = 13) \/ (g = "branch" /\ n = 4) \/ (g = "forward" /\ n = 4)
    BY <1>1, Where, ZenonT(30)
  <2> QED
    BY <2>1
<1> QED
  BY <1>2, <1>3, <1>4, <1>5, <1>6, <1>7, <1>8, <1>9, <1>10, <1>11,
     <1>12, <1>13, <1>14, <1>15, <1>16

\* Who is at a step, by its program.
LEMMA PlainProceeds ==
  ASSUME Inv, NEW p \in Proc,
         \/ ReopenBlob(p) \/ WriteBlob(p) \/ OpenTree(p) \/ WriteTree(p) \/ ClearMergeHead(p) \/ OpenRef(p)
         \/ WriteRef(p) \/ OpenHead(p) \/ WriteHead(p) \/ Reconstruct(p) \/ OpenMergeHead(p)
  PROVE  Proceeds(p)
<1>0. /\ run[p] # Idle /\ Go(p, run[p])
      /\ Program[run[p].program][run[p].at] \in
           {"reopen blob", "write blob", "open tree", "write tree", "clear MERGE_HEAD", "open ref", "write ref",
            "open HEAD", "write HEAD", "reconstruct", "open MERGE_HEAD"}
  BY DEF ReopenBlob, WriteBlob, OpenTree, WriteTree, ClearMergeHead, OpenRef, WriteRef, OpenHead, WriteHead,
     Reconstruct, OpenMergeHead, At
<1>1. PICK o, g, n : o = run[p] /\ g = o.program /\ n = o.at
  OBVIOUS
<1>2. o \in Memory /\ g \in Programs /\ n \in 1 .. Len(Program[g])
  BY <1>0, <1>1, BeforeStep
<1>3. \/ g = "add" /\ n \in {3, 4, 5}
      \/ g = "commit" /\ n \in {4, 5, 8, 12, 13}
      \/ g = "checkout" /\ n \in {3, 5, 6}
      \/ g = "init" /\ n \in {2, 3}
      \/ g = "branch" /\ n \in {3, 4}
      \/ g = "forward" /\ n \in {3, 4, 5}
      \/ g = "diverge" /\ n = 3
  <2>1. Program[g][n] \in
           {"reopen blob", "write blob", "open tree", "write tree", "clear MERGE_HEAD", "open ref", "write ref",
            "open HEAD", "write HEAD", "reconstruct", "open MERGE_HEAD"}
    BY <1>0, <1>1
  <2>2. CASE Program[g][n] \in {"reopen blob", "write blob"} \/ Program[g][n] = "open tree"
    BY <1>2, <2>2, Where
  <2>6. CASE Program[g][n] = "write tree" \/ Program[g][n] = "clear MERGE_HEAD"
    BY <1>2, <2>6, Where
  <2>3. CASE Program[g][n] = "open ref" \/ Program[g][n] = "write ref"
    BY <1>2, <2>3, Where
  <2>4. CASE Program[g][n] = "open HEAD" \/ Program[g][n] = "write HEAD"
    BY <1>2, <2>4, Where
  <2>5. CASE Program[g][n] = "reconstruct" \/ Program[g][n] = "open MERGE_HEAD"
    BY <1>2, <2>5, Where
  <2> QED
    BY <2>1, <2>2, <2>3, <2>4, <2>5, <2>6
<1>4. ~NamesHead(o) /\ ~ReadsRef(o) /\ ~Resolves(o) /\ ~ResolvesAgain(o) /\ ~Loads(o) /\ ~Lists(o)
  BY <1>1, <1>3 DEF NamesHead, ReadsRef, Resolves, ResolvesAgain, Loads, Lists
<1>5. g # "merge" /\ (g = "commit" => n \notin {7, 9, 10})
  BY <1>3
<1> QED
  BY <1>0, <1>1, <1>2, <1>4, <1>5, GoesAsItIs

\* What can be learned is of the kind that a process remembers.
LEMMA Learnable ==
  ASSUME Inv, NEW o \in Memory
  PROVE  /\ index \in Snapshot /\ head \in Branch \cup Nat
         /\ Tip(o.name) \in Nat /\ Tip(o.arg) \in Nat
         /\ <<mergeHead>> \in Seq(Nat) /\ N + 1 \in Nat
<1>1. TypeOK /\ Ids \subseteq Nat /\ Nothing \in Nat
  BY CrashAssumption DEF Inv, Ids, Nothing
<1>2. index \in Snapshot /\ head \in Branch \cup Nat /\ mergeHead \in Nat /\ N \in Nat
  <2>1. index \in Snapshot /\ head \in Branch \cup Ids \cup {Nothing}
        /\ mergeHead \in Ids \cup {Nothing} /\ commits \in Seq(Commit)
    BY <1>1 DEF TypeOK
  <2>2. N \in Nat
    BY <2>1 DEF N
  <2> QED
    BY <1>1, <2>1, <2>2
<1>3. o.name \in Branch \cup Nat /\ o.arg \in Branch \cup Nat
  BY DEF Memory
<1>4. \A t \in Branch \cup Nat : Tip(t) \in Nat
  BY <1>1 DEF TypeOK, Tip
<1>5. <<mergeHead>> \in Seq(Nat)
  BY <1>2
<1> QED
  BY <1>2, <1>3, <1>4, <1>5

\* A step that learns one thing.
LEMMA GoesLearning ==
  ASSUME Inv, NEW p \in Proc, run[p] # Idle, NEW o, o = run[p], NEW m, NEW f \in Fields,
         Learns(m, o, f), Go(p, m), f \notin {"cmd", "arg", "program", "at"},
         f = "index" => Loads(o) \/ Lists(o), f # "index" => ~Loads(o) /\ ~Lists(o),
         Loads(o) => m.index = index,
         Lists(o) => /\ DOMAIN o.index \subseteq DOMAIN m.index
                     /\ o.program = "add" => o.arg \in DOMAIN m.index,
         f = "name" <=> NamesHead(o), f = "name" => m.name = head,
         f = "ours" <=> ReadsRef(o), f = "ours" => m.ours = Tip(o.name),
         f = "other" <=> Resolves(o), f = "other" => m.other = Tip(o.arg),
         f = "merge" <=> (o.program = "commit" /\ o.at = 7), f = "merge" => m.merge = <<mergeHead>>,
         f = "new" <=> (ResolvesAgain(o) \/ (o.program = "commit" /\ o.at = 9)),
         f = "new" => m.new = IF ResolvesAgain(o) THEN Tip(o.arg) ELSE N + 1,
         o.program = "merge" => o.at # 4,
         o.program = "commit" => o.at # 10 \/ head \in Branch
  PROVE  Proceeds(p)
<1>1. /\ m \in Memory /\ m.cmd = o.cmd /\ m.program = o.program /\ m.arg = o.arg /\ m.at = o.at
      /\ f # "index" => m.index = o.index
      /\ f # "name" => m.name = o.name
      /\ f # "ours" => m.ours = o.ours
      /\ f # "other" => m.other = o.other
      /\ f # "merge" => m.merge = o.merge
      /\ f # "new" => m.new = o.new
  BY DEF Learns, Fields
<1>2. /\ m.name = IF NamesHead(o) THEN head ELSE o.name
      /\ m.ours = IF ReadsRef(o) THEN Tip(o.name) ELSE o.ours
      /\ m.other = IF Resolves(o) THEN Tip(o.arg) ELSE o.other
      /\ m.merge = IF o.program = "commit" /\ o.at = 7 THEN <<mergeHead>> ELSE o.merge
      /\ m.new = IF ResolvesAgain(o) THEN Tip(o.arg)
                 ELSE IF o.program = "commit" /\ o.at = 9 THEN N + 1 ELSE o.new
  BY <1>1
<1>3. ~Loads(o) /\ ~Lists(o) => m.index = o.index
  BY <1>1
<1>4. Learnt(o, m)
  BY <1>1, <1>2, <1>3 DEF Learnt
<1> QED
  BY <1>1, <1>4, Goes

LEMMA ReadingProceeds ==
  ASSUME Inv, NEW p \in Proc,
         ReadHead(p) \/ ReadRef(p) \/ ResolveAgain(p) \/ RereadMergeHead(p) \/ ResolveOther(p)
  PROVE  Proceeds(p)
<1>0. run[p] # Idle
  BY DEF ReadHead, ReadRef, ResolveAgain, RereadMergeHead, ResolveOther, At
<1>1. PICK o, g, n : o = run[p] /\ g = o.program /\ n = o.at
  OBVIOUS
<1>2. o \in Memory /\ g \in Programs /\ n \in 1 .. Len(Program[g])
  BY <1>0, <1>1, BeforeStep
<1>3. /\ head \in Branch \cup Nat /\ Tip(o.name) \in Nat /\ Tip(o.arg) \in Nat
      /\ <<mergeHead>> \in Seq(Nat)
  BY <1>2, Learnable
<1>4. CASE ReadHead(p)
  <2>1. PICK m : m = [o EXCEPT !.name = head]
    OBVIOUS
  <2>2. Go(p, m) /\ (Program[g][n] = "read HEAD" \/ Program[g][n] = "name branch")
    BY <1>1, <1>4, <2>1 DEF ReadHead, At
  <2>3. Learns(m, o, "name") /\ m.name = head
    BY <1>2, <1>3, <2>1, Learned
  <2>4. \/ g = "commit" /\ n \in {2, 11}
        \/ g \in {"branch", "merge", "forward"} /\ n = 1
    <3>1. Program[g][n] = "read HEAD" =>
            (g = "commit" /\ n = 2) \/ (g = "branch" /\ n = 1) \/ (g = "merge" /\ n = 1)
      BY <1>2, Where, ZenonT(30)
    <3>2. Program[g][n] = "name branch" => (g = "commit" /\ n = 11) \/ (g = "forward" /\ n = 1)
      BY <1>2, Where, ZenonT(30)
    <3> QED
      BY <2>2, <3>1, <3>2
  <2>5. /\ ~Loads(o) /\ ~Lists(o)
        /\ NamesHead(o) /\ ~ReadsRef(o) /\ ~Resolves(o) /\ ~ResolvesAgain(o)
        /\ ~(o.program = "commit" /\ o.at = 7) /\ ~(o.program = "commit" /\ o.at = 9)
        /\ (o.program = "merge" => o.at # 4) /\ (o.program = "commit" => o.at # 10)
    BY <1>1, <2>4 DEF NamesHead, ReadsRef, Resolves, ResolvesAgain, Loads, Lists
  <2> QED
    BY <1>0, <1>1, <2>2, <2>3, <2>5, GoesLearning DEF Fields
<1>5. CASE ReadRef(p)
  <2>1. PICK m : m = [o EXCEPT !.ours = Tip(o.name)]
    OBVIOUS
  <2>2. Go(p, m) /\ Program[g][n] = "read ref"
    BY <1>1, <1>5, <2>1 DEF ReadRef, At
  <2>3. Learns(m, o, "ours") /\ m.ours = Tip(o.name)
    BY <1>2, <1>3, <2>1, Learned
  <2>4. (g = "commit" /\ n = 3) \/ (g \in {"branch", "merge"} /\ n = 2)
    BY <1>2, <2>2, Where
  <2>5. /\ ~Loads(o) /\ ~Lists(o)
        /\ ~NamesHead(o) /\ ReadsRef(o) /\ ~Resolves(o) /\ ~ResolvesAgain(o)
        /\ ~(o.program = "commit" /\ o.at = 7) /\ ~(o.program = "commit" /\ o.at = 9)
        /\ (o.program = "merge" => o.at # 4) /\ (o.program = "commit" => o.at # 10)
    BY <1>1, <2>4 DEF NamesHead, ReadsRef, Resolves, ResolvesAgain, Loads, Lists
  <2> QED
    BY <1>0, <1>1, <2>2, <2>3, <2>5, GoesLearning DEF Fields
<1>6. CASE ResolveAgain(p)
  <2>1. PICK m : m = [o EXCEPT !.new = Tip(o.arg)]
    OBVIOUS
  <2>2. Go(p, m) /\ Program[g][n] = "resolve again"
    BY <1>1, <1>6, <2>1 DEF ResolveAgain, At
  <2>3. Learns(m, o, "new") /\ m.new = Tip(o.arg)
    BY <1>2, <1>3, <2>1, Learned
  <2>4. g \in {"forward", "diverge"} /\ n = 2
    BY <1>2, <2>2, Where
  <2>5. /\ ~Loads(o) /\ ~Lists(o)
        /\ ~NamesHead(o) /\ ~ReadsRef(o) /\ ~Resolves(o) /\ ResolvesAgain(o)
        /\ ~(o.program = "commit" /\ o.at = 7) /\ ~(o.program = "commit" /\ o.at = 9)
        /\ (o.program = "merge" => o.at # 4) /\ (o.program = "commit" => o.at # 10)
    BY <1>1, <2>4 DEF NamesHead, ReadsRef, Resolves, ResolvesAgain, Loads, Lists
  <2> QED
    BY <1>0, <1>1, <2>2, <2>3, <2>5, GoesLearning DEF Fields
<1>7. CASE RereadMergeHead(p)
  <2>1. PICK m : m = [o EXCEPT !.merge = <<mergeHead>>]
    OBVIOUS
  <2>2. Go(p, m) /\ Program[g][n] = "reread MERGE_HEAD"
    BY <1>1, <1>7, <2>1 DEF RereadMergeHead, At
  <2>3. Learns(m, o, "merge") /\ m.merge = <<mergeHead>>
    BY <1>2, <1>3, <2>1, Learned
  <2>4. g = "commit" /\ n = 7
    BY <1>2, <2>2, Where
  <2>5. /\ ~Loads(o) /\ ~Lists(o)
        /\ ~NamesHead(o) /\ ~ReadsRef(o) /\ ~Resolves(o) /\ ~ResolvesAgain(o)
        /\ (o.program = "commit" /\ o.at = 7) /\ ~(o.program = "commit" /\ o.at = 9)
        /\ (o.program = "merge" => o.at # 4) /\ (o.program = "commit" => o.at # 10)
    BY <1>1, <2>4 DEF NamesHead, ReadsRef, Resolves, ResolvesAgain, Loads, Lists
  <2> QED
    BY <1>0, <1>1, <2>2, <2>3, <2>5, GoesLearning DEF Fields
<1>8. CASE ResolveOther(p)
  <2>1. PICK m : m = [o EXCEPT !.other = Tip(o.arg)]
    OBVIOUS
  <2>2. /\ (o.cmd = "checkout" /\ Stop(p)) \/ Go(p, m)
        /\ Program[g][n] = "resolve"
    BY <1>1, <1>8, <2>1 DEF ResolveOther, At
  <2>3. Learns(m, o, "other") /\ m.other = Tip(o.arg)
    BY <1>2, <1>3, <2>1, Learned
  <2>4. (g = "checkout" /\ n = 2) \/ (g = "merge" /\ n = 3)
    BY <1>2, <2>2, Where
  <2>5. /\ ~Loads(o) /\ ~Lists(o)
        /\ ~NamesHead(o) /\ ~ReadsRef(o) /\ Resolves(o) /\ ~ResolvesAgain(o)
        /\ ~(o.program = "commit" /\ o.at = 7) /\ ~(o.program = "commit" /\ o.at = 9)
        /\ (o.program = "merge" => o.at # 4) /\ (o.program = "commit" => o.at # 10)
    BY <1>1, <2>4 DEF NamesHead, ReadsRef, Resolves, ResolvesAgain, Loads, Lists
  <2>6. CASE Go(p, m)
    BY <1>0, <1>1, <2>3, <2>5, <2>6, GoesLearning DEF Fields
  <2>7. CASE o.cmd = "checkout" /\ Stop(p)
    <3>1. True(o)
      BY <1>0, <1>1, BeforeStep
    <3>2. g = "checkout" /\ n = 2
      BY <1>1, <2>4, <2>7, <3>1 DEF True
    <3> QED
      BY <1>1, <2>7, <3>2 DEF Stops, Proceeds
  <2> QED
    BY <2>2, <2>6, <2>7
<1> QED
  BY <1>4, <1>5, <1>6, <1>7, <1>8

LEMMA ListingProceeds ==
  ASSUME Inv, NEW p \in Proc, LoadIndex(p) \/ ReadTree(p) \/ OpenBlob(p) \/ StoreCommit(p)
  PROVE  Proceeds(p)
<1>0. run[p] # Idle
  BY DEF LoadIndex, ReadTree, OpenBlob, StoreCommit, Store, At
<1>1. PICK o, g, n : o = run[p] /\ g = o.program /\ n = o.at
  OBVIOUS
<1>2. o \in Memory /\ g \in Programs /\ n \in 1 .. Len(Program[g]) /\ True(o) /\ TypeOK
  BY <1>0, <1>1, BeforeStep
<1>3. o.index \in Snapshot
  BY <1>2 DEF Memory
<1>4. CASE LoadIndex(p)
  <2>1. PICK m : m = [o EXCEPT !.index = index]
    OBVIOUS
  <2>2. Go(p, m) /\ Program[g][n] = "load"
    BY <1>1, <1>4, <2>1 DEF LoadIndex, At
  <2>3. Learns(m, o, "index") /\ m.index = index
    BY <1>2, <2>1, Learned DEF TypeOK
  <2>4. g \in {"add", "commit", "checkout"} /\ n = 1
    BY <1>2, <2>2, Where
  <2>5. /\ Loads(o) /\ ~Lists(o)
        /\ ~NamesHead(o) /\ ~ReadsRef(o) /\ ~Resolves(o) /\ ~ResolvesAgain(o)
        /\ ~(o.program = "commit" /\ o.at = 7) /\ ~(o.program = "commit" /\ o.at = 9)
        /\ (o.program = "merge" => o.at # 4) /\ (o.program = "commit" => o.at # 10)
    BY <1>1, <2>4 DEF NamesHead, ReadsRef, Resolves, ResolvesAgain, Loads, Lists
  <2> QED
    BY <1>0, <1>1, <2>2, <2>3, <2>5, GoesLearning DEF Fields
<1>5. CASE ReadTree(p)
  <2>1. PICK v : v = Overlay(o.index, Entries(o.other))
    OBVIOUS
  <2>2. PICK m : m = [o EXCEPT !.index = v]
    OBVIOUS
  <2>3. Go(p, m) /\ Program[g][n] = "read tree"
    <3>1. m = [run[p] EXCEPT !.index = Overlay(@, Entries(run[p].other))]
      BY <1>1, <2>1, <2>2
    <3> QED
      BY <1>1, <1>5, <3>1 DEF ReadTree, At
  <2>4. g = "checkout" /\ n = 4
    BY <1>2, <2>3, Where
  <2>5. o.other \in 1 .. N
    BY <1>1, <1>2, <2>4 DEF True
  <2>6. v \in Snapshot /\ DOMAIN o.index \subseteq DOMAIN v
    BY <1>2, <1>3, <2>1, <2>5, EntriesShape, OverlayShape
  <2>7. Learns(m, o, "index") /\ m.index = v
    BY <1>2, <2>2, <2>6, Learned
  <2>8. /\ ~Loads(o) /\ Lists(o) /\ o.program # "add"
        /\ ~NamesHead(o) /\ ~ReadsRef(o) /\ ~Resolves(o) /\ ~ResolvesAgain(o)
        /\ ~(o.program = "commit" /\ o.at = 7) /\ ~(o.program = "commit" /\ o.at = 9)
        /\ (o.program = "merge" => o.at # 4) /\ (o.program = "commit" => o.at # 10)
    BY <1>1, <2>4 DEF NamesHead, ReadsRef, Resolves, ResolvesAgain, Loads, Lists
  <2> QED
    BY <1>0, <1>1, <2>3, <2>6, <2>7, <2>8, GoesLearning DEF Fields
<1>6. CASE OpenBlob(p)
  <2>1. PICK text, h : text = wd[o.arg] /\ h = [f \in {o.arg} |-> text]
    OBVIOUS
  <2>2. PICK v : v = Overlay(o.index, h)
    OBVIOUS
  <2>3. PICK m : m = [o EXCEPT !.index = v]
    OBVIOUS
  <2>4. Go(p, m) /\ Program[g][n] = "open blob"
    <3>1. m = [run[p] EXCEPT !.index = Overlay(@, [f \in {run[p].arg} |-> wd[run[p].arg]])]
      BY <1>1, <2>1, <2>2, <2>3
    <3> QED
      BY <1>1, <1>6, <3>1 DEF OpenBlob, At
  <2>5. g = "add" /\ n = 2
    BY <1>2, <2>4, Where
  <2>6. o.arg \in Path
    BY <1>1, <1>2, <2>5 DEF True, Sensible
  <2>7. text \in Text /\ h \in [{o.arg} -> Text] /\ h[o.arg] = text
    BY <1>2, <2>1, <2>6 DEF TypeOK
  <2>8. v \in Snapshot /\ o.arg \in DOMAIN v
    BY <1>3, <2>2, <2>6, <2>7, OverlayOne
  <2>9. DOMAIN o.index \subseteq DOMAIN v
    BY <2>2 DEF Overlay
  <2>10. Learns(m, o, "index") /\ m.index = v
    BY <1>2, <2>3, <2>8, Learned
  <2>11. /\ ~Loads(o) /\ Lists(o)
        /\ ~NamesHead(o) /\ ~ReadsRef(o) /\ ~Resolves(o) /\ ~ResolvesAgain(o)
        /\ ~(o.program = "commit" /\ o.at = 7) /\ ~(o.program = "commit" /\ o.at = 9)
        /\ (o.program = "merge" => o.at # 4) /\ (o.program = "commit" => o.at # 10)
    BY <1>1, <2>5 DEF NamesHead, ReadsRef, Resolves, ResolvesAgain, Loads, Lists
  <2> QED
    BY <1>0, <1>1, <2>4, <2>8, <2>9, <2>10, <2>11, GoesLearning DEF Fields
<1>7. CASE StoreCommit(p)
  <2>1. PICK m : m = [o EXCEPT !.new = N + 1]
    OBVIOUS
  <2>2. Go(p, m) /\ Program[g][n] = "store commit"
    BY <1>1, <1>7, <2>1 DEF StoreCommit, Store, At, N
  <2>3. Learns(m, o, "new") /\ m.new = N + 1
    BY <1>2, <2>1, Learned, Learnable
  <2>4. g = "commit" /\ n = 9
    BY <1>2, <2>2, Where
  <2>5. /\ ~Loads(o) /\ ~Lists(o)
        /\ ~NamesHead(o) /\ ~ReadsRef(o) /\ ~Resolves(o) /\ ~ResolvesAgain(o)
        /\ ~(o.program = "commit" /\ o.at = 7) /\ (o.program = "commit" /\ o.at = 9)
        /\ (o.program = "merge" => o.at # 4) /\ (o.program = "commit" => o.at # 10)
    BY <1>1, <2>4 DEF NamesHead, ReadsRef, Resolves, ResolvesAgain, Loads, Lists
  <2> QED
    BY <1>0, <1>1, <2>2, <2>3, <2>5, GoesLearning DEF Fields
<1> QED
  BY <1>4, <1>5, <1>6, <1>7

\* A walk that meets ours has come to it by parents.
LEMMA MetBelow ==
  ASSUME TypeOK, Bounded, NEW c \in 1 .. N, NEW ours, WalkFrom(c, ours) = "fast-forward"
  PROVE  ours \in Ancestors(c)
<1>1. N \in Nat /\ N = Len(commits)
  BY DEF TypeOK, N
<1>2. SUFFICES ASSUME NEW S \in SUBSET (1 .. N), c \in S,
                      \A d \in S : Range(commits[d].parents) \ {Nothing} \subseteq S
               PROVE  ours \in S
  <2>1. 1 .. N \in SUBSET (1 .. N) /\ c \in 1 .. N
    OBVIOUS
  <2>2. ASSUME NEW d \in 1 .. N
        PROVE  Range(commits[d].parents) \ {Nothing} \subseteq 1 .. N
    <3>1. Range(commits[d].parents) \subseteq 0 .. (d - 1)
      BY DEF Bounded
    <3>2. (0 .. (d - 1)) \ {0} \subseteq 1 .. N
      BY <1>1
    <3> QED
      BY <3>1, <3>2 DEF Nothing
  <2> QED
    BY <1>1, <2>1, <2>2 DEF Ancestors
<1>3. PICK ps, readable, V :
        /\ ps = [d \in 1 .. N |-> commits[d].parents]
        /\ readable = {d \in 1 .. N : Readable(d)}
        /\ V = S \cup {NoCommit}
  OBVIOUS
<1>4. Walked(ps, readable, ours, c) = "fast-forward"
  BY <1>1, <1>3 DEF WalkFrom
<1>5. NoCommit \in V /\ c \in V /\ c \in Nat
  BY <1>1, <1>2, <1>3
<1>6. ASSUME NEW d \in V \ {NoCommit}
      PROVE  ps[d] \in Seq(V)
  <2>1. d \in S /\ d \in 1 .. N
    BY <1>3
  <2>2. PICK q \in Seq(Nat) : q = commits[d].parents
    <3>1. PICK s : s = commits /\ s \in Seq(Commit) /\ d \in 1 .. Len(s)
      BY <1>1, <2>1 DEF TypeOK
    <3>2. s[d] \in Commit
      BY <3>1
    <3> QED
      BY <3>1, <3>2 DEF Commit
  <2>3. ps[d] = q /\ Range(q) \subseteq V
    BY <1>2, <1>3, <2>1, <2>2 DEF Nothing, NoCommit
  <2>4. \A i \in 1 .. Len(q) : q[i] \in V
    <3>1. DOMAIN q = 1 .. Len(q)
      BY <2>2
    <3> QED
      BY <2>3, <3>1 DEF Range
  <2>5. q \in Seq(V)
    <3>1. PICK n \in Nat : n = Len(q)
      BY LenProperties
    <3>2. q = [i \in 1 .. n |-> q[i]]
      BY <2>2, <3>1, LenProperties
    <3>3. q \in [1 .. n -> V]
      BY <2>4, <3>1, <3>2
    <3> QED
      BY <3>3, FunctionLen
  <2> QED
    BY <2>3, <2>5
<1>7. ours \in V \ {NoCommit}
  <2>1. ParentsWithin(ps, V)
    BY <1>6 DEF ParentsWithin
  <2> QED
    BY Zenon, <1>4, <1>5, <2>1, WalkedBelow
<1> QED
  BY <1>3, <1>7

LEMMA DecidingProceeds ==
  ASSUME Inv, NEW p \in Proc, ReadMergeHead(p) \/ IsHeadBranch(p) \/ MakeJit(p) \/ Walk(p)
  PROVE  Proceeds(p)
<1>0. run[p] # Idle
  BY DEF ReadMergeHead, IsHeadBranch, MakeJit, Walk, At
<1>1. PICK o, g, n : o = run[p] /\ g = o.program /\ n = o.at
  OBVIOUS
<1>2. o \in Memory /\ g \in Programs /\ n \in 1 .. Len(Program[g]) /\ n \in Nat
  BY <1>0, <1>1, BeforeStep
<1>3. CASE ReadMergeHead(p)
  <2>1. g = "commit" /\ n = 6
    BY <1>1, <1>3, Placed DEF ReadMergeHead
  <2>2. ~NamesHead(o) /\ ~ReadsRef(o) /\ ~Resolves(o) /\ ~ResolvesAgain(o) /\ ~Loads(o) /\ ~Lists(o)
    BY <1>1, <2>1 DEF NamesHead, ReadsRef, Resolves, ResolvesAgain, Loads, Lists
  <2>3. CASE mergeHead # Nothing
    <3>1. Go(p, o)
      BY <1>1, <1>3, <2>3 DEF ReadMergeHead
    <3>2. o.program # "merge" /\ o.at \notin {7, 9, 10}
      BY <1>1, <2>1
    <3> QED
      BY <1>0, <1>1, <1>2, <2>2, <3>1, <3>2, GoesAsItIs
  <2>4. CASE mergeHead = Nothing
    <3>1. PICK x : x = [o EXCEPT !.at = 9]
      OBVIOUS
    <3>2. [o EXCEPT !.at = @ + 3] = x
      BY <1>1, <2>1, <3>1
    <3>3. run' = [run EXCEPT ![p] = x] /\ UNCHANGED promises
      BY <1>1, <1>3, <2>4, <3>2 DEF ReadMergeHead, Stay
    <3>4. /\ x \in Memory /\ x.at = 9 /\ x.cmd = o.cmd /\ x.program = o.program /\ x.arg = o.arg
          /\ x.index = o.index /\ x.name = o.name /\ x.ours = o.ours /\ x.other = o.other
          /\ x.merge = o.merge /\ x.new = o.new
      BY <1>2, <3>1 DEF Memory
    <3>5. Learnt(o, x)
      BY <1>1, <2>1, <2>2, <3>4 DEF Learnt
    <3>6. Turns(o, x)
      BY <1>1, <2>1, <2>4, <3>4 DEF Turns
    <3>7. Passes(p, x)
      BY <1>1, <3>3, <3>4, <3>5, <3>6, IdleAssumption DEF Passes
    <3> QED
      BY <3>7 DEF Proceeds
  <2> QED
    BY <2>3, <2>4
<1>4. CASE IsHeadBranch(p)
  <2>1. g = "commit" /\ n = 10
    BY <1>1, <1>4, Placed DEF IsHeadBranch
  <2>2. CASE head \in Branch
    <3>1. Go(p, o)
      BY <1>1, <1>4, <2>2 DEF IsHeadBranch
    <3>2. ~NamesHead(o) /\ ~ReadsRef(o) /\ ~Resolves(o) /\ ~ResolvesAgain(o) /\ ~Loads(o) /\ ~Lists(o)
      BY <1>1, <2>1 DEF NamesHead, ReadsRef, Resolves, ResolvesAgain, Loads, Lists
    <3>3. o.program # "merge" /\ o.at \notin {7, 9}
      BY <1>1, <2>1
    <3> QED
      BY <1>0, <1>1, <1>2, <2>2, <3>1, <3>2, <3>3, GoesAsItIs
  <2>3. CASE head \notin Branch
    <3>1. Finish(p)
      BY <1>4, <2>3 DEF IsHeadBranch
    <3> QED
      BY <1>1, <2>1, <2>3, <3>1 DEF Ends, Proceeds
  <2> QED
    BY <2>2, <2>3
<1>5. CASE MakeJit(p)
  <2>1. g = "init" /\ n = 1
    BY <1>1, <1>5, Placed DEF MakeJit
  <2>2. CASE Go(p, o)
    <3>2. ~NamesHead(o) /\ ~ReadsRef(o) /\ ~Resolves(o) /\ ~ResolvesAgain(o) /\ ~Loads(o) /\ ~Lists(o)
      BY <1>1, <2>1 DEF NamesHead, ReadsRef, Resolves, ResolvesAgain, Loads, Lists
    <3> QED
      BY <1>0, <1>1, <1>2, <2>1, <2>2, <3>2, GoesAsItIs
  <2>3. CASE Stop(p)
    BY <1>1, <2>1, <2>3 DEF Stops, Proceeds
  <2> QED
    BY <1>1, <1>5, <2>2, <2>3 DEF MakeJit
<1>6. CASE Walk(p)
  <2>1. g = "merge" /\ n = 4
    BY <1>1, <1>6, Placed DEF Walk
  <2>2. ~NamesHead(o) /\ ~ReadsRef(o) /\ ~Resolves(o) /\ ~ResolvesAgain(o) /\ ~Loads(o) /\ ~Lists(o)
    BY <1>1, <2>1 DEF NamesHead, ReadsRef, Resolves, ResolvesAgain, Loads, Lists
  <2>3. PICK D : D = DOMAIN Entries(o.other)
    OBVIOUS
  <2>4. PICK y, z : /\ y = [o EXCEPT !.program = "forward", !.at = 1]
                    /\ z = [o EXCEPT !.program = "diverge", !.at = 1, !.todo = D]
    OBVIOUS
  <2>5. \/ Stop(p)
        \/ Stay(p, y) /\ o.ours \in Ancestors(o.other)
        \/ Stay(p, z) /\ Readable(o.other)
    <3>1. \/ Stop(p)
          \/ Stay(p, y) /\ Readable(o.other) /\ WalkFrom(o.other, o.ours) = "fast-forward"
          \/ Stay(p, z) /\ Readable(o.other)
      BY <1>1, <1>6, <2>3, <2>4 DEF Walk
    <3>2. ASSUME Readable(o.other), WalkFrom(o.other, o.ours) = "fast-forward"
          PROVE  o.ours \in Ancestors(o.other)
      <4>1. TypeOK /\ Bounded /\ o.other \in 1 .. N
        BY <3>2 DEF Inv, Readable, N
      <4> QED
        BY <3>2, <4>1, MetBelow
    <3> QED
      BY <3>1, <3>2
  <2>6. ASSUME NEW x \in Memory, Stay(p, x), x.cmd = o.cmd, x.arg = o.arg, x.at = 1,
               x.index = o.index, x.name = o.name, x.ours = o.ours, x.other = o.other,
               x.merge = o.merge, x.new = o.new,
               \/ x.program = "forward" /\ o.ours \in Ancestors(o.other)
               \/ x.program = "diverge"
        PROVE  Proceeds(p)
    <3>1. Learnt(o, x)
      BY <1>1, <2>1, <2>2, <2>6 DEF Learnt
    <3>2. Turns(o, x)
      BY <1>1, <2>1, <2>6 DEF Turns
    <3>3. Passes(p, x)
      BY <1>1, <2>6, <3>1, <3>2, IdleAssumption DEF Passes, Stay
    <3> QED
      BY <3>3 DEF Proceeds
  <2>7. CASE Stop(p)
    BY <1>1, <2>1, <2>7 DEF Stops, Proceeds
  <2>8. CASE Stay(p, y) /\ o.ours \in Ancestors(o.other)
    <3>1. "forward" \in DOMAIN Program
      BY Lengths DEF Programs
    <3>2. /\ y \in Memory /\ y.at = 1 /\ y.cmd = o.cmd /\ y.program = "forward" /\ y.arg = o.arg
          /\ y.index = o.index /\ y.name = o.name /\ y.ours = o.ours /\ y.other = o.other
          /\ y.merge = o.merge /\ y.new = o.new
      BY <1>2, <2>4, <3>1 DEF Memory
    <3> QED
      BY <2>6, <2>8, <3>2
  <2>9. CASE Stay(p, z) /\ Readable(o.other)
    <3>1. "diverge" \in DOMAIN Program
      BY Lengths DEF Programs
    <3>2. D \in SUBSET Path
      <4>1. o.other \in 1 .. N
        BY <2>9 DEF Readable, N
      <4>2. Entries(o.other) \in Snapshot
        BY <4>1, EntriesShape DEF Inv
      <4> QED
        BY <2>3, <4>2, SnapshotShape
    <3>3. /\ z \in Memory /\ z.at = 1 /\ z.cmd = o.cmd /\ z.program = "diverge" /\ z.arg = o.arg
          /\ z.index = o.index /\ z.name = o.name /\ z.ours = o.ours /\ z.other = o.other
          /\ z.merge = o.merge /\ z.new = o.new
      BY <1>2, <2>4, <3>1, <3>2 DEF Memory
    <3> QED
      BY <2>6, <2>9, <3>3
  <2> QED
    BY <2>5, <2>7, <2>8, <2>9
<1> QED
  BY <1>3, <1>4, <1>5, <1>6

LEMMA LoopProceeds ==
  ASSUME Inv, NEW p \in Proc, MergeFile(p) \/ WriteMergeHead(p) \/ OpenIndex(p) \/ WriteIndex(p)
  PROVE  Proceeds(p)
<1>0. run[p] # Idle
  BY DEF MergeFile, WriteMergeHead, OpenIndex, WriteIndex, At
<1>1. PICK o, g, n : o = run[p] /\ g = o.program /\ n = o.at
  OBVIOUS
<1>2. o \in Memory /\ g \in Programs /\ n \in 1 .. Len(Program[g]) /\ n \in Nat
  BY <1>0, <1>1, BeforeStep
<1>a. o.index \in Snapshot /\ o.todo \in SUBSET Path
  BY <1>2 DEF Memory
<1>3. CASE MergeFile(p)
  <2>1. g = "diverge" /\ n = 1
    BY <1>1, <1>3, Placed DEF MergeFile
  <2>2. ~NamesHead(o) /\ ~ReadsRef(o) /\ ~Resolves(o) /\ ~ResolvesAgain(o) /\ ~Loads(o) /\ ~Lists(o)
    BY <1>1, <2>1 DEF NamesHead, ReadsRef, Resolves, ResolvesAgain, Loads, Lists
  <2>3. PICK f : Go(p, [run[p] EXCEPT !.todo = @ \ {f}])
    BY <1>3 DEF MergeFile
  <2>4. PICK m : m = [o EXCEPT !.todo = o.todo \ {f}]
    OBVIOUS
  <2>5. Go(p, m)
    BY <1>1, <2>3, <2>4
  <2>6. Learns(m, o, "todo")
    BY <1>2, <1>a, <2>4, Learned
  <2> QED
    BY <1>0, <1>1, <2>1, <2>2, <2>5, <2>6, GoesAsItIs DEF Learns
<1>4. CASE OpenIndex(p)
  <2>1. (g = "add" /\ n = 6) \/ (g = "checkout" /\ n = 7)
    BY <1>1, <1>4, Placed DEF OpenIndex
  <2>2. ~NamesHead(o) /\ ~ReadsRef(o) /\ ~Resolves(o) /\ ~ResolvesAgain(o) /\ ~Loads(o) /\ ~Lists(o)
    BY <1>1, <2>1 DEF NamesHead, ReadsRef, Resolves, ResolvesAgain, Loads, Lists
  <2>3. PICK m : m = [o EXCEPT !.todo = DOMAIN o.index]
    OBVIOUS
  <2>4. Go(p, m)
    BY <1>1, <1>4, <2>3 DEF OpenIndex
  <2>5. DOMAIN o.index \in SUBSET Path
    BY <1>a, SnapshotShape
  <2>6. Learns(m, o, "todo")
    BY <1>2, <2>3, <2>5, Learned
  <2> QED
    BY <1>0, <1>1, <2>1, <2>2, <2>4, <2>6, GoesAsItIs DEF Learns
<1>5. ASSUME Finish(p), n = Len(Program[g]), g # "merge"
      PROVE  Proceeds(p)
  BY <1>1, <1>5 DEF Ends, Proceeds
<1>6. CASE WriteMergeHead(p)
  <2>1. g = "diverge" /\ n = 4
    BY <1>1, <1>6, Placed DEF WriteMergeHead
  <2>2. PICK x : x = [o EXCEPT !.at = 1]
    OBVIOUS
  <2>3. Finish(p) \/ Stay(p, x)
    BY <1>1, <1>6, <2>2 DEF WriteMergeHead
  <2>4. CASE Finish(p)
    BY <1>5, <2>1, <2>4, Lengths
  <2>5. CASE Stay(p, x)
    <3>1. /\ x \in Memory /\ x.at = 1 /\ x.cmd = o.cmd /\ x.program = o.program /\ x.arg = o.arg
          /\ x.index = o.index /\ x.name = o.name /\ x.ours = o.ours /\ x.other = o.other
          /\ x.merge = o.merge /\ x.new = o.new
      BY <1>2, <2>2 DEF Memory
    <3>2. Learnt(o, x)
      BY <1>1, <2>1, <3>1 DEF Learnt, NamesHead, ReadsRef, Resolves, ResolvesAgain, Loads, Lists
    <3>3. Turns(o, x)
      BY <1>1, <2>1, <3>1 DEF Turns
    <3>4. Passes(p, x)
      BY <1>1, <2>5, <3>1, <3>2, <3>3, IdleAssumption DEF Passes, Stay
    <3> QED
      BY <3>4 DEF Proceeds
  <2> QED
    BY <2>3, <2>4, <2>5
<1>7. CASE WriteIndex(p)
  <2>1. (g = "add" /\ n = 7) \/ (g = "checkout" /\ n = 8)
    BY <1>1, <1>7, Placed DEF WriteIndex
  <2>2. PICK f : f = CHOOSE h \in o.todo : \A k \in o.todo : h <= k
    OBVIOUS
  <2>3. PICK x : x = [o EXCEPT !.todo = o.todo \ {f}]
    OBVIOUS
  <2>4. Finish(p) \/ Stay(p, x)
    BY <1>1, <1>7, <2>2, <2>3 DEF WriteIndex
  <2>5. CASE Finish(p)
    BY <1>5, <2>1, <2>5, Lengths
  <2>6. CASE Stay(p, x)
    <3>1. Learns(x, o, "todo")
      BY <1>2, <1>a, <2>3, Learned
    <3>2. /\ x \in Memory /\ x.at = n /\ x.cmd = o.cmd /\ x.program = o.program /\ x.arg = o.arg
          /\ x.index = o.index /\ x.name = o.name /\ x.ours = o.ours /\ x.other = o.other
          /\ x.merge = o.merge /\ x.new = o.new
      BY <1>1, <3>1 DEF Learns, Fields
    <3>3. Learnt(o, x)
      BY <1>1, <2>1, <3>2 DEF Learnt, NamesHead, ReadsRef, Resolves, ResolvesAgain, Loads, Lists
    <3>4. Turns(o, x)
      BY <1>1, <2>1, <3>2, Lengths DEF Turns
    <3>5. Passes(p, x)
      BY <1>1, <2>6, <3>2, <3>3, <3>4, IdleAssumption DEF Passes, Stay
    <3> QED
      BY <3>5 DEF Proceeds
  <2> QED
    BY <2>4, <2>5, <2>6
<1> QED
  BY <1>3, <1>4, <1>6, <1>7

\* Whatever a process does, it goes on, ends or stops as its program says.
LEMMA Proceeding ==
  ASSUME Inv, NEW p \in Proc, Step(p)
  PROVE  /\ Proceeds(p) /\ run[p] # Idle
         /\ \A q \in Proc : q # p => run'[q] = run[q]
         /\ DOMAIN run = Proc /\ UNCHANGED <<killed, together>>
<1>1. Proceeds(p)
  BY PlainProceeds, ReadingProceeds, ListingProceeds, DecidingProceeds, LoopProceeds DEF Step
<1>2. DOMAIN run = Proc
  BY DEF Inv, TypeOK
<1>3. \E x : run' = [run EXCEPT ![p] = x]
  BY <1>1 DEF Proceeds, Stops, Ends, Passes, Stop, Finish
<1> QED
  BY <1>1, <1>2, <1>3, Frames

-----------------------------------------------------------------------------
(***************************************************************************)
(* What the steps that change a file do to it, and where they are.         *)
(***************************************************************************)

\* The program of a process names its command.
LEMMA Commanded ==
  ASSUME Inv, NEW p \in Proc, run[p] # Idle
  PROVE  /\ run[p].cmd \in Commands /\ run[p].program \in Programs /\ run[p].at \in Nat
         /\ run[p].program \in Commands => run[p].cmd = run[p].program
         /\ run[p].program \in {"forward", "diverge"} => run[p].cmd = "merge"
<1>1. True(run[p]) /\ run[p].program \in Programs /\ run[p].at \in Nat
  BY BeforeStep
<1>2. "forward" \notin Commands /\ "diverge" \notin Commands
  BY DEF Commands
<1> QED
  BY <1>1, <1>2 DEF True, Sensible

\* Two processes that run have met.
LEMMA Met2 ==
  ASSUME Inv, NEW p \in Proc, NEW q \in Proc, p # q, run[p] # Idle, run[q] # Idle
  PROVE  {run[p].cmd, run[q].cmd} \in together
BY DEF Inv, Meeting

\* What is known of a process that takes a step.
LEMMA Stepping ==
  ASSUME Inv, NEW p \in Proc, Step(p), NEW m, m = run[p], NEW g, g = m.program
  PROVE  /\ Proceeds(p) /\ m # Idle /\ DOMAIN run = Proc /\ m.at \in Nat /\ N \in Nat
         /\ g \in Commands => m.cmd = g
         /\ g = "init" => m.cmd = g /\ m.at \in 1 .. 3
         /\ g = "commit" => m.cmd = g /\ m.at \in 1 .. 13
         /\ g = "checkout" => m.cmd = g /\ m.at \in 1 .. 8
         /\ g = "branch" => m.cmd = g /\ m.at \in 1 .. 4
         /\ g = "forward" => m.cmd = "merge" /\ m.at \in 1 .. 5
         /\ g = "diverge" => m.cmd = "merge" /\ m.at \in 1 .. 4
<1>1. Proceeds(p) /\ m # Idle /\ DOMAIN run = Proc
  BY Proceeding
<1>2. m.at \in Nat /\ N \in Nat /\ m.at \in 1 .. Len(Program[g]) /\ g \in Programs
  BY <1>1, BeforeStep
<1>3. (g \in Commands => m.cmd = g) /\ (g \in {"forward", "diverge"} => m.cmd = "merge")
  BY <1>1, Commanded
<1>4. {"init", "commit", "checkout", "branch"} \subseteq Commands
  BY DEF Commands
<1>5. /\ g = "init" => m.at \in 1 .. 3
      /\ g = "commit" => m.at \in 1 .. 13
      /\ g = "checkout" => m.at \in 1 .. 8
  BY <1>2, Lengths
<1>6. /\ g = "branch" => m.at \in 1 .. 4
      /\ g = "forward" => m.at \in 1 .. 5
      /\ g = "diverge" => m.at \in 1 .. 4
  BY <1>2, Lengths
<1> QED
  BY <1>1, <1>2, <1>3, <1>4, <1>5, <1>6

\* Where the files are changed.
LEMMA Places ==
  ASSUME Inv, NEW p \in Proc, NEW o, o = run[p], Step(p)
  PROVE  /\ index' = index \/ (o.program = "add" /\ o.at \in {6, 7})
                           \/ (o.program = "checkout" /\ o.at \in {7, 8})
         /\ commits' = commits \/ (o.program = "commit" /\ o.at = 9 /\ StoreCommit(p))
         /\ mergeHead' = mergeHead \/ (o.program = "commit" /\ o.at = 8)
                                   \/ (o.program = "diverge" /\ o.at \in {3, 4})
         /\ head' = head \/ (o.program = "init" /\ o.at \in {2, 3})
                         \/ (o.program = "checkout" /\ o.at \in {5, 6})
         /\ refs' = refs \/ (o.program = "commit" /\ o.at \in {12, 13})
                         \/ (o.program \in {"branch", "forward"} /\ o.at \in {3, 4})
<1>1. PICK g, n : g = o.program /\ n = o.at
  OBVIOUS
<1>3. OpenIndex(p) \/ WriteIndex(p) => (g = "add" /\ n \in {6, 7}) \/ (g = "checkout" /\ n \in {7, 8})
  BY <1>1, Placed DEF OpenIndex, WriteIndex
<1>4. StoreCommit(p) => g = "commit" /\ n = 9
  BY <1>1, Placed DEF StoreCommit, Store
<1>5. ClearMergeHead(p) \/ OpenMergeHead(p) \/ WriteMergeHead(p) =>
        (g = "commit" /\ n = 8) \/ (g = "diverge" /\ n \in {3, 4})
  BY <1>1, Placed DEF ClearMergeHead, OpenMergeHead, WriteMergeHead
<1>6. OpenHead(p) \/ WriteHead(p) => (g = "init" /\ n \in {2, 3}) \/ (g = "checkout" /\ n \in {5, 6})
  BY <1>1, Placed DEF OpenHead, WriteHead
<1>7. OpenRef(p) \/ WriteRef(p) =>
        (g = "commit" /\ n \in {12, 13}) \/ (g \in {"branch", "forward"} /\ n \in {3, 4})
  BY <1>1, Placed DEF OpenRef, WriteRef
<1> QED
  BY <1>1, <1>3, <1>4, <1>5, <1>6, <1>7, Frames

\* And by what.
LEMMA Doers ==
  ASSUME Inv, NEW p \in Proc, NEW o, o = run[p], Step(p)
  PROVE  /\ o.program = "add" /\ o.at = 6 => OpenIndex(p)
         /\ o.program = "checkout" /\ o.at = 7 => OpenIndex(p)
         /\ o.program = "add" /\ o.at = 7 => WriteIndex(p)
         /\ o.program = "checkout" /\ o.at = 8 => WriteIndex(p)
         /\ o.program = "commit" /\ o.at = 9 => StoreCommit(p)
         /\ o.program = "commit" /\ o.at = 8 => ClearMergeHead(p)
         /\ o.program = "diverge" /\ o.at = 3 => OpenMergeHead(p)
         /\ o.program = "diverge" /\ o.at = 4 => WriteMergeHead(p)
         /\ o.program = "init" /\ o.at = 2 => OpenHead(p)
         /\ o.program = "checkout" /\ o.at = 5 => OpenHead(p)
         /\ o.program = "init" /\ o.at = 3 => WriteHead(p)
         /\ o.program = "checkout" /\ o.at = 6 => WriteHead(p)
         /\ o.program = "commit" /\ o.at = 12 => OpenRef(p)
         /\ o.program \in {"branch", "forward"} /\ o.at = 3 => OpenRef(p)
         /\ o.program = "commit" /\ o.at = 13 => WriteRef(p)
         /\ o.program \in {"branch", "forward"} /\ o.at = 4 => WriteRef(p)
<1>1. PICK step : step = Program[o.program][o.at]
  OBVIOUS
<1>2. /\ step = "open index" => OpenIndex(p)
      /\ step = "write index" => WriteIndex(p)
      /\ step = "store commit" => StoreCommit(p)
      /\ step = "clear MERGE_HEAD" => ClearMergeHead(p)
      /\ step = "open MERGE_HEAD" => OpenMergeHead(p)
      /\ step = "write MERGE_HEAD" => WriteMergeHead(p)
      /\ step = "open HEAD" => OpenHead(p)
      /\ step = "write HEAD" => WriteHead(p)
      /\ step = "open ref" => OpenRef(p)
      /\ step = "write ref" => WriteRef(p)
  <2>1. CASE OpenIndex(p) \/ WriteIndex(p) \/ StoreCommit(p) \/ ClearMergeHead(p) \/ OpenMergeHead(p)
             \/ WriteMergeHead(p) \/ OpenHead(p) \/ WriteHead(p) \/ OpenRef(p) \/ WriteRef(p)
    BY <1>1, <2>1 DEF At, StoreCommit, Store, ClearMergeHead, OpenRef, WriteRef, OpenHead, WriteHead,
       OpenMergeHead, WriteMergeHead, OpenIndex, WriteIndex
  <2>2. CASE LoadIndex(p) \/ ReadHead(p) \/ ReadRef(p) \/ ResolveOther(p) \/ ResolveAgain(p)
             \/ ReadMergeHead(p) \/ RereadMergeHead(p) \/ IsHeadBranch(p) \/ Walk(p) \/ ReadTree(p)
    BY <1>1, <2>2 DEF At, LoadIndex, ReadHead, ReadRef, ResolveOther, ResolveAgain, ReadMergeHead,
       RereadMergeHead, IsHeadBranch, Walk, ReadTree
  <2>3. CASE MakeJit(p) \/ OpenBlob(p) \/ ReopenBlob(p) \/ WriteBlob(p) \/ OpenTree(p)
             \/ WriteTree(p) \/ Reconstruct(p) \/ MergeFile(p)
    BY <1>1, <2>3 DEF At, MakeJit, OpenBlob, ReopenBlob, WriteBlob, OpenTree, WriteTree, Reconstruct,
       MergeFile
  <2> QED
    BY <2>1, <2>2, <2>3 DEF Step
<1>3. /\ Program["add"][6] = "open index" /\ Program["checkout"][7] = "open index"
      /\ Program["add"][7] = "write index" /\ Program["checkout"][8] = "write index"
      /\ Program["commit"][9] = "store commit" /\ Program["commit"][8] = "clear MERGE_HEAD"
      /\ Program["diverge"][3] = "open MERGE_HEAD" /\ Program["diverge"][4] = "write MERGE_HEAD"
  BY Contents
<1>4. /\ Program["init"][2] = "open HEAD" /\ Program["checkout"][5] = "open HEAD"
      /\ Program["init"][3] = "write HEAD" /\ Program["checkout"][6] = "write HEAD"
      /\ Program["commit"][12] = "open ref" /\ Program["branch"][3] = "open ref"
      /\ Program["forward"][3] = "open ref" /\ Program["commit"][13] = "write ref"
      /\ Program["branch"][4] = "write ref" /\ Program["forward"][4] = "write ref"
  BY Contents
<1>5. /\ o.program = "add" /\ o.at = 6 => OpenIndex(p)
      /\ o.program = "checkout" /\ o.at = 7 => OpenIndex(p)
      /\ o.program = "add" /\ o.at = 7 => WriteIndex(p)
      /\ o.program = "checkout" /\ o.at = 8 => WriteIndex(p)
  BY <1>1, <1>2, <1>3
<1>6. /\ o.program = "commit" /\ o.at = 9 => StoreCommit(p)
      /\ o.program = "commit" /\ o.at = 8 => ClearMergeHead(p)
      /\ o.program = "diverge" /\ o.at = 3 => OpenMergeHead(p)
      /\ o.program = "diverge" /\ o.at = 4 => WriteMergeHead(p)
  BY <1>1, <1>2, <1>3
<1>7. /\ o.program = "init" /\ o.at = 2 => OpenHead(p)
      /\ o.program = "checkout" /\ o.at = 5 => OpenHead(p)
      /\ o.program = "init" /\ o.at = 3 => WriteHead(p)
      /\ o.program = "checkout" /\ o.at = 6 => WriteHead(p)
  BY <1>1, <1>2, <1>4
<1>8. /\ o.program = "commit" /\ o.at = 12 => OpenRef(p)
      /\ o.program \in {"branch", "forward"} /\ o.at = 3 => OpenRef(p)
      /\ o.program = "commit" /\ o.at = 13 => WriteRef(p)
      /\ o.program \in {"branch", "forward"} /\ o.at = 4 => WriteRef(p)
  BY <1>1, <1>2, <1>4
<1> QED
  BY <1>5, <1>6, <1>7, <1>8
-----------------------------------------------------------------------------
(***************************************************************************)
(* Files stay.                                                             *)
(***************************************************************************)

\* Nothing runs beside an add or a checkout.
LEMMA SaversAlone ==
  ASSUME Inv, ~FilesLost, NEW p \in Proc, run[p] # Idle, run[p].program \in {"add", "checkout"},
         NEW q \in Proc, q # p
  PROVE  run[q] = Idle
<1>1. SUFFICES ASSUME run[q] # Idle PROVE FALSE
  OBVIOUS
<1>2. run[p].cmd \in {"add", "checkout"}
  BY Commanded DEF Commands
<1>3. {run[p].cmd, run[q].cmd} \in together
  BY <1>1, Met2
<1> QED
  BY <1>2, <1>3 DEF FilesLost

\* Whoever saves the index is one of them, at the end of its program.
LEMMA SavingAt ==
  ASSUME Inv, NEW p \in Proc
  PROVE  Saving(p) <=> /\ run[p] # Idle
                       /\ \/ run[p].program = "add" /\ run[p].at = 7
                          \/ run[p].program = "checkout" /\ run[p].at = 8
<1>1. ASSUME run[p] # Idle, Program[run[p].program][run[p].at] = "write index"
      PROVE  \/ run[p].program = "add" /\ run[p].at = 7
             \/ run[p].program = "checkout" /\ run[p].at = 8
  BY <1>1, BeforeStep, Where
<1>2. Program["add"][7] = "write index" /\ Program["checkout"][8] = "write index"
  BY Contents
<1> QED
  BY <1>1, <1>2 DEF Saving, At

\* The lengths that matter here.
LEMMA SaversLength ==
  ASSUME NEW g \in {"add", "checkout"}
  PROVE  Len(Program[g]) = IF g = "add" THEN 7 ELSE 8
BY Lengths

\* A save that is begun has every file of the process to write.
LEMMA SaveBegun ==
  ASSUME Inv, NEW p \in Proc, OpenIndex(p)
  PROVE  run'[p] # Idle => run'[p].todo = DOMAIN run[p].index
<1>1. PICK o, D, m : o = run[p] /\ D = DOMAIN o.index /\ m = [o EXCEPT !.todo = D]
  OBVIOUS
<1>2. o # Idle /\ Go(p, m)
  BY <1>1 DEF OpenIndex, At
<1>3. o \in Memory /\ D \in SUBSET Path
  <2>1. o \in Memory
    BY <1>1, <1>2, BeforeStep
  <2>2. o.index \in Snapshot
    BY <2>1 DEF Memory
  <2> QED
    BY <1>1, <2>1, <2>2, SnapshotShape
<1>4. m \in Memory /\ m.todo = D
  <2>1. m \in Memory
    BY <1>1, <1>3, LearnedInMemory
  <2>2. [o EXCEPT !.todo = D].todo = D
    BY <1>3, Learned
  <2> QED
    BY <1>1, <2>1, <2>2
<1>5. PICK x : x = [m EXCEPT !.at = @ + 1]
  OBVIOUS
<1>6. x.todo = D
  BY <1>4, <1>5, NextStep
<1>7. DOMAIN run = Proc
  BY DEF Inv, TypeOK
<1>8. run'[p] = Idle \/ run'[p] = x
  BY <1>2, <1>5, <1>7 DEF Go, Stay, Finish
<1> QED
  BY <1>1, <1>6, <1>8

\* Of a save that goes on, every file is in the index or yet to be written.
LEMMA SaveGoesOn ==
  ASSUME Inv, NEW p \in Proc, WriteIndex(p), DOMAIN run[p].index \subseteq DOMAIN index \cup run[p].todo
  PROVE  \/ run'[p] = Idle /\ DOMAIN run[p].index \subseteq DOMAIN index'
         \/ run'[p] # Idle /\ DOMAIN run[p].index \subseteq DOMAIN index' \cup run'[p].todo
<1>1. PICK m, f : m = run[p] /\ f = CHOOSE g \in m.todo : \A h \in m.todo : g <= h
  OBVIOUS
<1>2. m \in Memory /\ m.todo \in SUBSET Path /\ m # Idle
  BY <1>1, BeforeStep DEF Memory, WriteIndex, At
<1>3. PICK D, x : D = m.todo \ {f} /\ x = [m EXCEPT !.todo = D]
  OBVIOUS
<1>4. x \in Memory /\ x.todo = m.todo \ {f} /\ x # Idle
  <2>1. x \in Memory
    BY <1>2, <1>3, LearnedInMemory
  <2>2. [m EXCEPT !.todo = D].todo = D
    BY <1>2, Learned
  <2> QED
    BY <1>3, <2>1, <2>2, IdleAssumption
<1>5. \/ m.todo = {} /\ index' = index /\ Finish(p)
      \/ /\ m.todo # {}
         /\ index' = Overlay(IF m.todo = DOMAIN m.index THEN <<>> ELSE index,
                             Restrict(m.index, {f}))
         /\ (m.todo = {f} /\ Finish(p)) \/ Stay(p, x)
  BY <1>1, <1>3 DEF WriteIndex
<1>6. DOMAIN run = Proc
  BY DEF Inv, TypeOK
<1>7. (Finish(p) => run'[p] = Idle) /\ (Stay(p, x) => run'[p] = x)
  BY <1>6 DEF Finish, Stay
<1>8. CASE m.todo = {} /\ index' = index /\ Finish(p)
  BY <1>1, <1>7, <1>8
<1>9. CASE /\ index' = Overlay(IF m.todo = DOMAIN m.index THEN <<>> ELSE index,
                               Restrict(m.index, {f}))
           /\ (m.todo = {f} /\ Finish(p)) \/ Stay(p, x)
  <2>1. f \in DOMAIN m.index => f \in DOMAIN index'
    BY <1>9 DEF Overlay, Restrict
  <2>2. m.todo # DOMAIN m.index => DOMAIN index \subseteq DOMAIN index'
    BY <1>9 DEF Overlay
  <2>3. DOMAIN m.index \subseteq DOMAIN index' \cup (m.todo \ {f})
    BY <1>1, <2>1, <2>2
  <2> QED
    BY <1>1, <1>4, <1>7, <1>9, <2>3
<1> QED
  BY <1>5, <1>8, <1>9

\* A step of add or checkout, which is alone.
LEMMA SaverKeepsFiles ==
  ASSUME Inv, Filed, ~FilesLost, NEW p \in Proc, Step(p),
         run[p].program \in {"add", "checkout"}
  PROVE  Filed'
<1>1. PICK m : m = run[p]
  OBVIOUS
<1>2. /\ Proceeds(p) /\ m # Idle /\ \A q \in Proc : q # p => run'[q] = run[q] /\ run[q] = Idle
      /\ DOMAIN run = Proc
  BY <1>1, Proceeding, SaversAlone
<1>4. m.program \in {"add", "checkout"} /\ m.at \in Nat /\ m.cmd = m.program
  BY <1>1, <1>2, Commanded DEF Commands
<1>3. commits' = commits /\ N' = N
  BY <1>1, <1>4, Places DEF N
<1>e. Len(Program[m.program]) = IF m.program = "add" THEN 7 ELSE 8
  BY <1>4, SaversLength
<1>5. /\ Inherited
      /\ (\E q \in Proc : Saving(q)) \/ Covers(DOMAIN index)
      /\ Saved(m)
  BY <1>1, <1>2 DEF Filed
<1>6. Inherited'
  BY <1>3, <1>5 DEF Inherited
<1>7. Saving(p) <=> (m.program = "add" /\ m.at = 7) \/ (m.program = "checkout" /\ m.at = 8)
  BY <1>1, <1>2, SavingAt
<1>8. ~Saving(p) => Covers(DOMAIN index)
  <2>1. \A q \in Proc : q # p => ~Saving(q)
    BY <1>2, SavingAt
  <2> QED
    BY <1>5, <2>1
<1>9. ASSUME Saved(run[p])' \/ run'[p] = Idle, Saving(p)' \/ Covers(DOMAIN index)'
      PROVE  Filed'
  BY <1>2, <1>6, <1>9 DEF Filed
<1>a. m.program = "add" /\ m.at = 6 => OpenIndex(p)
  BY <1>1, Doers
<1>b. m.program = "checkout" /\ m.at = 7 => OpenIndex(p)
  BY <1>1, Doers
<1>c. m.at = Len(Program[m.program]) => WriteIndex(p)
  BY <1>1, <1>4, <1>e, Doers
<1>d. m.at = Len(Program[m.program]) =>
        \/ run'[p] = Idle /\ DOMAIN m.index \subseteq DOMAIN index'
        \/ run'[p] # Idle /\ DOMAIN m.index \subseteq DOMAIN index' \cup run'[p].todo
  BY <1>1, <1>4, <1>5, <1>c, SaveGoesOn DEF Saved
<1>10. CASE Stops(p)
  <2>1. m.at = 2 /\ run'[p] = Idle /\ staged' = staged
    BY <1>1, <1>2, <1>4, <1>10 DEF Stops, Stop, promises
  <2>2. ~Saving(p) /\ index' = index
    BY <1>1, <1>4, <1>7, <2>1, Places
  <2>3. Covers(DOMAIN index)'
    BY <1>3, <1>8, <2>1, <2>2 DEF Covers
  <2> QED
    BY <1>9, <2>1, <2>3
<1>11. CASE Ends(p)
  <2>1. m.at = Len(Program[m.program]) /\ Finish(p)
    BY <1>1, <1>4, <1>11 DEF Ends
  <2>2. m.at > 1 /\ m.at > 2
    BY <1>4, <2>1, <1>e
  <2>3. Covers(DOMAIN m.index)
    BY <1>4, <1>5, <2>2 DEF Saved
  <2>4. m.program = "add" => m.arg \in DOMAIN m.index
    BY <1>5, <2>2 DEF Saved
  <2>5. run'[p] = Idle
    BY <1>2, <2>1 DEF Finish
  <2>6. DOMAIN m.index \subseteq DOMAIN index'
    BY <1>d, <2>1, <2>5
  <2>7. CASE m.program = "add"
    <3>1. staged' = staged \cup {m.arg}
      BY <1>1, <1>4, <2>1, <2>7 DEF Finish
    <3>2. Covers(DOMAIN index)'
      BY <1>3, <2>3, <2>4, <2>6, <2>7, <3>1 DEF Covers
    <3> QED
      BY <1>9, <2>5, <3>2
  <2>8. CASE m.program = "checkout"
    <3>1. staged' = staged
      BY <1>1, <1>4, <2>1, <2>8 DEF Finish
    <3>2. Covers(DOMAIN index)'
      BY <1>3, <2>3, <2>6, <3>1 DEF Covers
    <3> QED
      BY <1>9, <2>5, <3>2
  <2> QED
    BY <1>4, <2>7, <2>8
<1>12. CASE \E x : Passes(p, x)
  <2>1. PICK x : Passes(p, x)
    BY <1>12
  <2>2. run'[p] = x /\ x # Idle /\ staged' = staged /\ Learnt(m, x) /\ Turns(m, x)
    BY <1>1, <1>2, <2>1 DEF Passes, promises
  <2>3. /\ x.program = m.program /\ x.arg = m.arg
        /\ x.at = m.at + 1 \/ (m.at = Len(Program[m.program]) /\ x.at = m.at)
        /\ x.at = m.at + 1 => m.at # Len(Program[m.program])
    BY <1>4, <2>2 DEF Turns, Learnt
  <2>4. \A F : Covers(F) => Covers(F)'
    BY <1>3, <2>2 DEF Covers
  <2>5. m.at = 1 => x.index = index
    BY <1>4, <2>2 DEF Learnt, Loads
  <2>6. m.at # 1 => DOMAIN m.index \subseteq DOMAIN x.index
    BY <1>4, <2>2 DEF Learnt, Loads, Lists
  <2>7. m.at \notin {1, 2, 4} => x.index = m.index
    BY <1>4, <2>2 DEF Learnt, Loads, Lists
  <2>8. x.at > 1 => Covers(DOMAIN x.index)'
    <3>1. CASE m.at = 1
      <4>1. Covers(DOMAIN index)
        BY <1>4, <1>7, <1>8, <3>1
      <4> QED
        BY <2>4, <2>5, <3>1, <4>1
    <3>2. CASE m.at # 1 /\ x.at > 1
      <4>1. m.at > 1
        BY <1>1, <1>2, <3>2, BeforeStep
      <4>2. Covers(DOMAIN m.index)
        BY <1>4, <1>5, <4>1 DEF Saved
      <4>3. Covers(DOMAIN x.index)
        BY <2>6, <3>2, <4>2 DEF Covers
      <4> QED
        BY <2>4, <4>3
    <3> QED
      BY <3>1, <3>2
  <2>9. x.program = "add" /\ x.at > 2 => x.arg \in DOMAIN x.index
    <3>1. CASE m.program = "add" /\ m.at = 2
      BY <2>2, <2>3, <3>1 DEF Learnt, Lists
    <3>2. CASE m.program = "add" /\ m.at > 2
      <4>1. m.arg \in DOMAIN m.index
        BY <1>5, <3>2 DEF Saved
      <4> QED
        BY <1>4, <2>3, <2>6, <3>2, <4>1
    <3>3. CASE m.program = "add" /\ m.at < 2
      BY <1>4, <2>3, <3>3, <1>e
    <3> QED
      BY <1>4, <2>3, <3>1, <3>2, <3>3
  <2>10. x.at = Len(Program[x.program]) => DOMAIN x.index \subseteq DOMAIN index' \cup x.todo
    <3>1. SUFFICES ASSUME x.at = Len(Program[x.program])
                   PROVE  DOMAIN x.index \subseteq DOMAIN index' \cup x.todo
      OBVIOUS
    <3>2. x.index = m.index
      BY <1>4, <2>3, <2>7, <3>1, <1>e
    <3>3. CASE x.at = m.at + 1
      <4>1. OpenIndex(p)
        <5>1. m.at = Len(Program[m.program]) - 1
          BY <1>4, <2>3, <3>1, <3>3, <1>e
        <5> QED
          BY <1>4, <1>a, <1>b, <1>e, <5>1
      <4>2. x.todo = DOMAIN m.index
        BY <1>1, <2>2, <4>1, SaveBegun
      <4> QED
        BY <3>2, <4>2
    <3>4. CASE m.at = Len(Program[m.program]) /\ x.at = m.at
      BY <1>d, <2>2, <3>2, <3>4
    <3> QED
      BY <2>3, <3>3, <3>4
  <2>11. Saved(x)'
    <3>1. x.program # "commit"
      BY <1>4, <2>3
    <3> QED
      BY <2>8, <2>9, <2>10, <3>1 DEF Saved
  <2>12. Saving(p)' \/ Covers(DOMAIN index)'
    <3>1. CASE x.at = Len(Program[x.program])
      <4>1. (x.program = "add" /\ x.at = 7) \/ (x.program = "checkout" /\ x.at = 8)
        BY <1>4, <2>3, <3>1, <1>e
      <4>2. Program[x.program][x.at] = "write index"
        BY <4>1, Contents
      <4> QED
        BY <2>2, <4>2 DEF Saving, At
    <3>2. CASE x.at # Len(Program[x.program])
      <4>1. ~(m.program = "add" /\ m.at \in {6, 7}) /\ ~(m.program = "checkout" /\ m.at \in {7, 8})
        <5>1. m.at + 1 # Len(Program[m.program]) /\ m.at # Len(Program[m.program])
          BY <2>3, <3>2
        <5> QED
          BY <1>4, <1>e, <5>1
      <4>2. index' = index /\ ~Saving(p)
        BY <1>1, <1>7, <4>1, Places
      <4> QED
        BY <1>8, <2>4, <4>2
    <3> QED
      BY <3>1, <3>2
  <2> QED
    BY <1>9, <2>2, <2>11, <2>12
<1> QED
  BY <1>2, <1>10, <1>11, <1>12 DEF Proceeds

\* A commit that is stored is the next one, and the others stay as they are.
LEMMA Appended ==
  ASSUME Inv, NEW p \in Proc, StoreCommit(p)
  PROVE  /\ N \in Nat /\ N' = N + 1 /\ 1 .. N' = 1 .. N \cup {N + 1}
         /\ \A c \in 1 .. N : commits'[c] = commits[c]
         /\ commits'[N + 1].tree = run[p].index
         /\ commits'[N + 1].parents = Ours(p) \o run[p].merge
         /\ Range(commits'[N + 1].parents) \subseteq 0 .. N
<1>1. PICK c \in Commit : /\ commits' = Append(commits, c) /\ c.tree = run[p].index
                          /\ Range(c.parents) \subseteq 0 .. N
  BY StoreCommitStep
<1>2. commits \in Seq(Commit) /\ N \in Nat
  BY DEF Inv, TypeOK, N
<1>3. N' = N + 1
  BY <1>1, <1>2 DEF N
<1>4. \A d \in 1 .. N : commits'[d] = commits[d]
  BY <1>1, <1>2 DEF N
<1>5. commits'[N + 1] = c
  BY <1>1, <1>2 DEF N
<1>6. commits'[N + 1].parents = Ours(p) \o run[p].merge
  <2>1. PICK t, ps : t = run[p].index /\ ps = Ours(p) \o run[p].merge
    OBVIOUS
  <2>2. commits' = Append(commits, [tree |-> t, parents |-> ps])
    BY <2>1 DEF StoreCommit, Store
  <2>3. commits'[N + 1] = [tree |-> t, parents |-> ps]
    BY <1>2, <2>2 DEF N
  <2> QED
    BY <2>1, <2>3
<1>7. 1 .. N' = 1 .. N \cup {N + 1}
  BY <1>2, <1>3
<1> QED
  BY <1>1, <1>2, <1>3, <1>4, <1>5, <1>6, <1>7

\* A commit that holds what the index lists.
LEMMA StoredFiles ==
  ASSUME Inv, NEW p \in Proc, StoreCommit(p), Inherited, Covers(DOMAIN index), run[p].index = index,
         staged' = staged
  PROVE  Inherited' /\ Covers(DOMAIN index)'
<1>1. /\ N \in Nat /\ N' = N + 1 /\ 1 .. N' = 1 .. N \cup {N + 1}
      /\ \A c \in 1 .. N : commits'[c] = commits[c]
      /\ commits'[N + 1].tree = index
      /\ Range(commits'[N + 1].parents) \subseteq 0 .. N
  BY Appended
<1>2. index' = index
  BY DEF StoreCommit, Store
<1>3. \A c \in 1 .. N : DOMAIN commits[c].tree \subseteq DOMAIN index
  BY DEF Covers
<1>4. Covers(DOMAIN index)'
  BY <1>1, <1>2, <1>3 DEF Covers
<1>5. ASSUME NEW c \in 1 .. N', NEW d \in Range(commits'[c].parents) \ {Nothing}
      PROVE  DOMAIN commits'[d].tree \subseteq DOMAIN commits'[c].tree
  <2>1. CASE c = N + 1
    <3>1. d \in 1 .. N
      BY <1>1, <1>5, <2>1 DEF Nothing
    <3> QED
      BY <1>1, <1>3, <2>1, <3>1
  <2>2. CASE c \in 1 .. N
    <3>1. commits'[c] = commits[c] /\ d \in Range(commits[c].parents) \ {Nothing}
      BY <1>1, <1>5, <2>2
    <3>2. Range(commits[c].parents) \subseteq 0 .. (c - 1)
      BY <2>2 DEF Inv, Bounded
    <3>3. d \in 1 .. N
      BY <1>1, <2>2, <3>1, <3>2 DEF Nothing
    <3> QED
      BY <1>1, <2>2, <3>1, <3>3 DEF Inherited
  <2> QED
    BY <1>1, <1>5, <2>1, <2>2
<1> QED
  BY <1>4, <1>5 DEF Inherited

\* A step of a command that does not save.
LEMMA OtherKeepsFiles ==
  ASSUME Inv, Filed, ~FilesLost, NEW p \in Proc, Step(p),
         run[p].program \notin {"add", "checkout"}
  PROVE  Filed'
<1>1. PICK m : m = run[p]
  OBVIOUS
<1>2. /\ Proceeds(p) /\ m # Idle /\ \A q \in Proc : q # p => run'[q] = run[q]
      /\ DOMAIN run = Proc
  BY <1>1, Proceeding
<1>3. \A q \in Proc : run[q] # Idle => run[q].program \notin {"add", "checkout"}
  BY <1>1, <1>2, SaversAlone
<1>4. \A q \in Proc : ~Saving(q)
  BY <1>3, SavingAt
<1>5. Inherited /\ Covers(DOMAIN index) /\ \A q \in Proc : run[q] # Idle => Saved(run[q])
  BY <1>4 DEF Filed
<1>6. index' = index
  BY <1>1, Places
<1>7. m.at \in Nat /\ m.program \in Programs /\ m.cmd # "add"
  BY <1>1, <1>2, Commanded, BeforeStep DEF True, Commands
<1>8. staged' = staged
  BY <1>1, <1>2, <1>7 DEF Proceeds, Stops, Ends, Passes, Stop, Finish, promises
<1>9. Inherited' /\ Covers(DOMAIN index)'
  <2>1. CASE commits' = commits
    BY <1>5, <1>6, <1>8, <2>1 DEF Inherited, Covers, N
  <2>2. CASE m.program = "commit" /\ m.at = 9 /\ StoreCommit(p)
    <3>1. m.index = index
      BY <1>1, <1>2, <1>5, <2>2 DEF Saved
    <3> QED
      BY <1>1, <1>5, <1>8, <2>2, <3>1, StoredFiles
  <2> QED
    BY <1>1, <2>1, <2>2, Places
<1>10. \A q \in Proc : q # p /\ run[q] # Idle => Saved(run[q])'
  <2> SUFFICES ASSUME NEW q \in Proc, q # p, run[q] # Idle PROVE Saved(run[q])'
    OBVIOUS
  <2>1. Saved(run[q]) /\ run'[q] = run[q] /\ run[q].program \notin {"add", "checkout"}
    BY <1>2, <1>3, <1>5
  <2> QED
    BY <1>6, <2>1 DEF Saved
<1>11. run'[p] # Idle => Saved(run[p])'
  <2> SUFFICES ASSUME run'[p] # Idle PROVE Saved(run[p])'
    OBVIOUS
  <2>1. PICK x : Passes(p, x)
    BY <1>2 DEF Proceeds, Stops, Ends, Stop, Finish
  <2>2. run'[p] = x /\ Learnt(m, x) /\ Turns(m, x)
    BY <1>1, <1>2, <2>1 DEF Passes
  <2>3. x.program \notin {"add", "checkout"} /\ (x.program = "commit" => m.program = "commit")
    BY <1>1, <2>2 DEF Turns
  <2>4. x.program = "commit" => x.index = index
    <3>1. SUFFICES ASSUME x.program = "commit" PROVE x.index = index
      OBVIOUS
    <3>2. m.program = "commit"
      BY <2>3, <3>1
    <3>3. CASE m.at = 1
      BY <2>2, <3>2, <3>3 DEF Learnt, Loads
    <3>4. CASE m.at > 1
      <4>1. m.index = index
        BY <1>1, <1>2, <1>5, <3>2, <3>4 DEF Saved
      <4> QED
        BY <2>2, <3>2, <3>4, <4>1 DEF Learnt, Loads, Lists
    <3> QED
      BY <1>1, <1>2, <3>3, <3>4, BeforeStep
  <2> QED
    BY <1>6, <2>2, <2>3, <2>4 DEF Saved
<1> QED
  BY <1>2, <1>9, <1>10, <1>11 DEF Filed

\* What was lost is not found again.
LEMMA LossesStay ==
  ASSUME Inv, [Next]_vars
  PROVE  /\ killed \subseteq killed' /\ together \subseteq together'
         /\ FilesLost => FilesLost'
         /\ MergeLost => MergeLost'
         /\ CommitLost => CommitLost'
<1>1. killed \subseteq killed' /\ together \subseteq together'
  <2>1. CASE UNCHANGED vars
    BY <2>1 DEF vars
  <2>2. ASSUME NEW f \in Path, NEW t \in Text, Edit(f, t)
        PROVE  killed \subseteq killed' /\ together \subseteq together'
    BY <2>2 DEF Edit, Others
  <2>3. ASSUME NEW p \in Proc, Step(p)
        PROVE  killed \subseteq killed' /\ together \subseteq together'
    BY <2>3, Frames
  <2>4. ASSUME NEW p \in Proc, Kill(p)
        PROVE  killed \subseteq killed' /\ together \subseteq together'
    BY <2>4 DEF Kill
  <2>5. ASSUME NEW p \in Proc, NEW c \in budget.asked, Start(p, c)
        PROVE  killed \subseteq killed' /\ together \subseteq together'
    BY <2>5 DEF Start
  <2> QED
    BY <2>1, <2>2, <2>3, <2>4, <2>5 DEF Next
<1>2. FilesLost => FilesLost'
  BY <1>1 DEF FilesLost, KilledAt
<1>3. MergeLost => MergeLost'
  BY <1>1 DEF MergeLost, Met
<1>4. CommitLost => CommitLost'
  BY <1>1 DEF CommitLost, Met, KilledAt
<1> QED
  BY <1>1, <1>2, <1>3, <1>4

\* What befalls a process that takes no step.
Killed(p) ==
  run[p] # Idle /\ run'[p] = Idle /\ <<run[p].cmd, Program[run[p].program][run[p].at]>> \in killed'
Started(p) == run[p] = Idle /\ run'[p] # Idle /\ run'[p].program \in Commands /\ run'[p].at = 1

Rests ==
  /\ UNCHANGED <<pointers, index, commits, promises>>
  /\ \A p \in Proc : run'[p] = run[p] \/ Killed(p) \/ Started(p)

\* Whatever happens is a step of a process, or leaves the repository as it is.
LEMMA StepsOrRests ==
  ASSUME Inv, [Next]_vars
  PROVE  (\E p \in Proc : Step(p)) \/ Rests
<1>1. CASE UNCHANGED vars
  BY <1>1 DEF vars, objects, Rests
<1>2. ASSUME NEW f \in Path, NEW t \in Text, Edit(f, t)
      PROVE  Rests
  BY <1>2 DEF Edit, objects, Rests
<1>3. ASSUME NEW p \in Proc, Kill(p)
      PROVE  Rests
  <2>1. DOMAIN run = Proc
    BY DEF Inv, TypeOK
  <2>2. run' = [run EXCEPT ![p] = Idle]
    BY <1>3 DEF Kill
  <2>3. \A q \in Proc : q # p => run'[q] = run[q]
    BY <2>1, <2>2
  <2>4. Killed(p)
    BY <1>3, <2>1, <2>2 DEF Kill, Killed
  <2> QED
    BY <1>3, <2>3, <2>4 DEF Kill, objects, Rests
<1>4. ASSUME NEW p \in Proc, NEW c \in budget.asked, Start(p, c)
      PROVE  Rests
  <2>1. DOMAIN run = Proc /\ c.cmd \in Commands
    BY DEF Inv, TypeOK, Limits
  <2>2. PICK k, a : k = c.cmd /\ a = c.arg
    OBVIOUS
  <2>3. PICK x : x = [cmd |-> k, program |-> k, arg |-> a, at |-> 1, index |-> <<>>,
                      name |-> Nothing, ours |-> Nothing, other |-> Nothing, merge |-> <<>>,
                      new |-> Nothing, todo |-> {}]
    OBVIOUS
  <2>4. x.program = k /\ x.at = 1
    BY <2>3
  <2>5. run' = [run EXCEPT ![p] = x] /\ run[p] = Idle
    BY <1>4, <2>2, <2>3 DEF Start
  <2>6. x # Idle
    <3>2. budget.asked \subseteq {d \in [cmd : Commands, arg : Branch \cup Nat] : Sensible(d.cmd, d.arg)}
      BY DEF Inv, TypeOK, Limits
    <3>3. k \in Commands /\ a \in Branch \cup Nat
      BY <2>2, <3>2
    <3>4. k \in DOMAIN Program
      BY <3>3, Lengths DEF Programs
    <3>5. x \in Memory
      BY <2>3, <3>3, <3>4, SnapshotShape DEF Memory, Nothing
    <3> QED
      BY <3>5, IdleAssumption
  <2>7. \A q \in Proc : q # p => run'[q] = run[q]
    BY <2>1, <2>5
  <2>8. Started(p)
    BY <2>1, <2>2, <2>4, <2>5, <2>6 DEF Started
  <2> QED
    BY <1>4, <2>7, <2>8 DEF Start, objects, Rests
<1> QED
  BY <1>1, <1>2, <1>3, <1>4 DEF Next

\* Where a program begins, it has the rest of its way to go.
LEMMA ShortAtStart == \A g \in Commands : Len(Program[g]) # 1
BY Lengths DEF Commands

LEMMA RestKeepsFiles ==
  ASSUME Inv, Filed, ~FilesLost, ~FilesLost', Rests
  PROVE  Filed'
<1>1. /\ Inherited
      /\ (\E q \in Proc : Saving(q)) \/ Covers(DOMAIN index)
      /\ \A q \in Proc : run[q] # Idle => Saved(run[q])
  BY DEF Filed
<1>2. /\ commits' = commits /\ index' = index /\ staged' = staged
      /\ \A p \in Proc : run'[p] = run[p] \/ Killed(p) \/ Started(p)
  BY DEF Rests, promises
<1>3. Inherited' /\ (Covers(DOMAIN index) => Covers(DOMAIN index)')
  BY <1>1, <1>2 DEF Inherited, Covers, N
<1>4. \A q \in Proc : Saving(q) => Saving(q)'
  <2> SUFFICES ASSUME NEW q \in Proc, Saving(q) PROVE Saving(q)'
    OBVIOUS
  <2>1. run[q] # Idle /\ Program[run[q].program][run[q].at] = "write index"
    BY DEF Saving, At
  <2>2. ~Started(q)
    BY <2>1 DEF Started
  <2>3. ~Killed(q)
    BY <2>1 DEF Killed, FilesLost, KilledAt
  <2>4. run'[q] = run[q]
    BY <1>2, <2>2, <2>3
  <2> QED
    BY <2>4 DEF Saving, At
<1>5. \A q \in Proc : run'[q] # Idle => Saved(run[q])'
  <2> SUFFICES ASSUME NEW q \in Proc, run'[q] # Idle PROVE Saved(run[q])'
    OBVIOUS
  <2>1. CASE run'[q] = run[q]
    <3>1. Saved(run[q])
      BY <1>1, <2>1
    <3> QED
      BY <1>2, <1>3, <2>1, <3>1 DEF Saved, Covers, N
  <2>2. CASE Started(q)
    <3>1. run'[q].at = 1 /\ Len(Program[run'[q].program]) # 1
      BY <2>2, ShortAtStart DEF Started
    <3> QED
      BY <3>1 DEF Saved
  <2> QED
    BY <1>2, <2>1, <2>2 DEF Killed
<1> QED
  BY <1>1, <1>3, <1>4, <1>5 DEF Filed

LEMMA FilesFiled == Init => Filed
<1> SUFFICES ASSUME Init PROVE Filed
  OBVIOUS
<1>1. PICK s \in Setups : /\ index = s.index /\ commits = s.commits /\ staged = DOMAIN s.index
                          /\ run = [p \in Proc |-> Idle]
  BY DEF Init
<1>2. \A c \in 1 .. N : /\ DOMAIN commits[c].tree \subseteq DOMAIN index
                        /\ \A d \in Range(commits[c].parents) :
                             DOMAIN commits[d].tree \subseteq DOMAIN commits[c].tree
  BY <1>1, GrownAssumption DEF N
<1>3. Inherited /\ Covers(DOMAIN index)
  BY <1>1, <1>2 DEF Inherited, Covers
<1> QED
  BY <1>1, <1>3 DEF Filed

LEMMA FiledKeeps == Inv /\ Filed /\ [Next]_vars => Filed'
<1> SUFFICES ASSUME Inv, Filed, [Next]_vars PROVE Filed'
  OBVIOUS
<1>1. CASE FilesLost'
  BY <1>1 DEF Filed
<1>2. CASE ~FilesLost'
  <2>1. ~FilesLost
    BY <1>2, LossesStay
  <2>2. CASE \E p \in Proc : Step(p)
    BY <2>1, <2>2, SaverKeepsFiles, OtherKeepsFiles
  <2>3. CASE Rests
    BY <1>2, <2>1, <2>3, RestKeepsFiles
  <2> QED
    BY <2>2, <2>3, StepsOrRests
<1> QED
  BY <1>1, <1>2

\* What was reported as added stays staged, and a commit has every file of its
\* parents, in every repository whose index has only grown, unless a command is
\* killed while it saves the index or another runs beside one that saves it.
THEOREM Keeping == Spec => []FilesKept
<1>1. Inv /\ Filed => FilesKept
  <2> SUFFICES ASSUME Inv, Filed PROVE FilesKept
    OBVIOUS
  <2>1. CASE FilesLost
    BY <2>1 DEF FilesLost, FilesKept
  <2>2. CASE ~FilesLost
    <3>1. Inherited
      BY <2>2 DEF Filed
    <3>2. Quiet => Covers(DOMAIN index)
      BY <2>2 DEF Filed, Quiet, Saving, At
    <3> QED
      BY <3>1, <3>2 DEF Inherited, Covers, FilesKept, N
  <2> QED
    BY <2>1, <2>2
<1>2. Spec => []Filed
  BY FilesFiled, FiledKeeps, Invariant, PTL DEF Spec
<1> QED
  BY <1>1, <1>2, Invariant, PTL

-----------------------------------------------------------------------------
(***************************************************************************)
(* Merges stay pending.                                                    *)
(***************************************************************************)

\* No commit or merge runs beside a commit or merge, and no branch beside a
\* merge.
LEMMA MergersAlone ==
  ASSUME Inv, ~MergeLost, NEW p \in Proc, run[p] # Idle, Merging(run[p]),
         NEW q \in Proc, q # p, run[q] # Idle
  PROVE  /\ ~Merging(run[q])
         /\ run[p].program # "commit" => run[q].program # "branch"
<1>1. {run[p].cmd, run[q].cmd} \in together /\ {run[p].cmd, run[q].cmd} = {run[q].cmd, run[p].cmd}
  BY Met2
<1>2. \A r \in Proc : run[r] # Idle =>
        /\ run[r].program = "commit" => run[r].cmd = "commit"
        /\ run[r].program \in {"merge", "forward", "diverge"} => run[r].cmd = "merge"
        /\ run[r].program = "branch" => run[r].cmd = "branch"
  BY Commanded DEF Commands
<1>3. run[p].cmd \in {"commit", "merge"} /\ (run[p].program # "commit" => run[p].cmd = "merge")
  BY <1>2 DEF Merging
<1>4. ~Merging(run[q])
  <2>1. ASSUME Merging(run[q]) PROVE FALSE
    <3>1. run[q].cmd \in {"commit", "merge"}
      BY <1>2, <2>1 DEF Merging
    <3>2. {run[p].cmd, run[q].cmd} \subseteq {"commit", "merge"}
      BY <1>3, <3>1
    <3> QED
      BY <1>1, <3>2 DEF MergeLost, Met
  <2> QED
    BY <2>1
<1>5. run[p].program # "commit" => run[q].program # "branch"
  BY <1>1, <1>2, <1>3 DEF MergeLost
<1> QED
  BY <1>4, <1>5

\* The report of a command that does not end or begin a merge.
LEMMA SameBegun ==
  ASSUME Inv, NEW p \in Proc, Step(p), run[p].program \notin {"commit", "diverge"}
  PROVE  begun' = begun
<1>1. run[p].cmd # "commit"
  BY Proceeding, Commanded, BeforeStep DEF True
<1>2. Proceeds(p)
  BY Proceeding
<1> QED
  BY <1>1, <1>2 DEF Proceeds, Stops, Ends, Passes, Stop, Finish, promises

\* A step of a command that has nothing to do with merges.
LEMMA BystanderKeepsMerge ==
  ASSUME Inv, Merged, ~MergeLost, NEW p \in Proc, Step(p), ~Merging(run[p])
  PROVE  Merged'
<1>1. PICK m : m = run[p]
  OBVIOUS
<1>2. /\ Proceeds(p) /\ m # Idle /\ \A q \in Proc : q # p => run'[q] = run[q]
      /\ DOMAIN run = Proc
  BY <1>1, Proceeding
<1>3. m.program \notin {"commit", "merge", "forward", "diverge"}
  BY <1>1 DEF Merging
<1>4. mergeHead' = mergeHead /\ commits' = commits /\ begun' = begun
  BY <1>1, <1>3, Places, SameBegun
<1>5. run'[p] # Idle => ~Merging(run'[p])
  <2> SUFFICES ASSUME run'[p] # Idle PROVE ~Merging(run'[p])
    OBVIOUS
  <2>1. PICK x : Passes(p, x)
    BY <1>2 DEF Proceeds, Stops, Ends, Stop, Finish
  <2>2. run'[p] = x /\ Turns(m, x)
    BY <1>1, <1>2, <2>1 DEF Passes
  <2> QED
    BY <1>3, <2>2 DEF Turns, Merging
<1>6. \A q \in Proc : run[q] # Idle /\ (Ending(run[q]) \/ Beginning(run[q])) =>
        run'[q] # Idle /\ (Ending(run'[q]) \/ Beginning(run'[q]))
  BY <1>1, <1>2, <1>3 DEF Ending, Beginning
<1>7. \/ \E q \in Proc : run'[q] # Idle /\ (Ending(run'[q]) \/ Beginning(run'[q]))
      \/ begun' # Nothing => mergeHead' = begun'
  BY <1>4, <1>6 DEF Merged
<1>8. \A q \in Proc : q # p /\ run'[q] # Idle => Carried(run[q])'
  <2> SUFFICES ASSUME NEW q \in Proc, q # p, run'[q] # Idle PROVE Carried(run[q])'
    OBVIOUS
  <2>1. run'[q] = run[q] /\ Carried(run[q])
    BY <1>2 DEF Merged
  <2>2. CASE run[q].program = "commit"
    BY <1>4, <2>1, <2>2 DEF Carried, N
  <2>3. CASE run[q].program \in {"merge", "diverge"}
    <3>1. m.program # "branch"
      BY <1>1, <1>2, <2>1, <2>3, MergersAlone DEF Merging
    <3>2. refs' = refs
      BY <1>1, <1>3, <3>1, Places
    <3> QED
      BY <1>4, <2>1, <2>3, <3>2 DEF Carried, N, Tip
  <2>4. CASE run[q].program \notin {"commit", "merge", "diverge"}
    BY <2>1, <2>4 DEF Carried
  <2> QED
    BY <2>2, <2>3, <2>4
<1>9. run'[p] # Idle => Carried(run[p])'
  BY <1>5 DEF Carried, Merging
<1> QED
  BY <1>7, <1>8, <1>9 DEF Merged

\* A step of a commit or merge, when what it does is right.
LEMMA MergerKeeps ==
  ASSUME Inv, Merged, ~MergeLost, NEW p \in Proc, Step(p), Merging(run[p]),
         \/ run'[p] # Idle /\ (Ending(run'[p]) \/ Beginning(run'[p]))
         \/ begun' # Nothing => mergeHead' = begun',
         run'[p] # Idle => Carried(run[p])'
  PROVE  Merged'
<1>1. \A q \in Proc : q # p => run'[q] = run[q]
  BY Proceeding
<1>2. \A q \in Proc : q # p /\ run'[q] # Idle => ~Merging(run[q])
  BY <1>1, MergersAlone, Proceeding
<1>3. \A q \in Proc : q # p /\ run'[q] # Idle => Carried(run[q])'
  BY <1>1, <1>2 DEF Carried, Merging
<1> QED
  BY <1>3 DEF Merged

\* Before it ends or begins a merge, the pending one is that which was begun.
LEMMA PendingIsBegun ==
  ASSUME Inv, Merged, ~MergeLost, NEW p \in Proc, run[p] # Idle, Merging(run[p]),
         ~Ending(run[p]), ~Beginning(run[p]), begun # Nothing
  PROVE  mergeHead = begun
<1>1. \A q \in Proc : q # p /\ run[q] # Idle => ~Ending(run[q]) /\ ~Beginning(run[q])
  BY MergersAlone DEF Merging, Ending, Beginning
<1> QED
  BY <1>1 DEF Merged

LEMMA CommitKeepsMerge ==
  ASSUME Inv, Merged, ~MergeLost, NEW p \in Proc, Step(p), run[p].program = "commit"
  PROVE  Merged'
<1>1. PICK m : m = run[p]
  OBVIOUS
<1>2. /\ Proceeds(p) /\ m # Idle /\ DOMAIN run = Proc /\ m.program = "commit" /\ m.cmd = "commit"
      /\ m.at \in 1 .. 13 /\ m.at \in Nat /\ N \in Nat
  BY <1>1, Stepping
<1>3. Carried(m)
  BY <1>1, <1>2 DEF Merged
<1>4. m.at \notin 9 .. 13 /\ begun # Nothing => mergeHead = begun
  BY <1>1, <1>2, PendingIsBegun DEF Merging, Ending, Beginning
<1>5. ASSUME \/ run'[p] # Idle /\ Ending(run'[p])
             \/ begun' # Nothing => mergeHead' = begun',
             run'[p] # Idle => Carried(run[p])'
      PROVE  Merged'
  BY <1>1, <1>2, <1>5, MergerKeeps DEF Merging
<1>6. (commits' = commits \/ (m.at = 9 /\ StoreCommit(p))) /\ (m.at # 8 => mergeHead' = mergeHead)
  BY <1>1, <1>2, Places
<1>7. CASE Ends(p)
  <2>1. Finish(p) /\ m.at > 9
    BY <1>1, <1>2, <1>7, Lengths DEF Ends
  <2>2. begun = Nothing \/ begun \in Range(commits[m.new].parents)
    BY <1>2, <1>3, <2>1 DEF Carried
  <2>3. begun' = Nothing /\ run'[p] = Idle
    BY <1>1, <1>2, <2>1, <2>2 DEF Finish
  <2> QED
    BY <1>5, <2>3
<1>8. CASE \E x : Passes(p, x)
  <2>1. PICK x : Passes(p, x)
    BY <1>8
  <2>2. run'[p] = x /\ x # Idle /\ begun' = begun /\ Learnt(m, x) /\ Turns(m, x)
    BY <1>1, <1>2, <2>1 DEF Passes, promises
  <2>3. /\ x.program = "commit"
        /\ x.at = m.at + 1 \/ (m.at = 6 /\ mergeHead = Nothing /\ x.at = 9)
    BY <1>2, <2>2 DEF Turns
  <2>4. x.merge = IF m.at = 7 THEN <<mergeHead>> ELSE m.merge
    BY <1>2, <2>2 DEF Learnt
  <2>5. x.new = IF m.at = 9 THEN N + 1 ELSE m.new
    BY <1>2, <2>2 DEF Learnt, ResolvesAgain
  <2>6. Ending(x) \/ (begun' # Nothing => mergeHead' = begun')
    BY <1>2, <1>4, <1>6, <2>2, <2>3 DEF Ending
  <2>7. x.at = 8 => x.merge = <<mergeHead>>'
    BY <1>2, <1>6, <2>3, <2>4
  <2>8. x.at = 9 => begun' = Nothing \/ x.merge = <<begun>>'
    <3>1. CASE m.at = 8
      <4>1. m.merge = <<mergeHead>>
        BY <1>2, <1>3, <3>1 DEF Carried
      <4> QED
        BY <1>4, <2>2, <2>4, <3>1, <4>1
    <3>2. CASE m.at = 6 /\ mergeHead = Nothing
      BY <1>4, <2>2, <3>2
    <3> QED
      BY <1>2, <2>3, <3>1, <3>2
  <2>9. x.at > 9 => begun' = Nothing \/ (x.new \in 1 .. N' /\ begun' \in Range(commits'[x.new].parents))
    <3>1. CASE m.at = 9 /\ begun # Nothing
      <4>1. StoreCommit(p)
        BY <1>1, <1>2, <3>1, Doers
      <4>2. /\ N' = N + 1 /\ commits'[N + 1].parents = Ours(p) \o m.merge
        BY <1>1, <4>1, Appended
      <4>3. m.merge = <<begun>>
        BY <1>2, <1>3, <3>1 DEF Carried
      <4>4. PICK ps : ps = Ours(p) \o <<begun>>
        OBVIOUS
      <4>5. begun \in Range(ps)
        <5>1. m.ours \in Nat /\ <<begun>> \in Seq(Nat)
          <6>1. m \in Memory
            BY <1>1, <1>2, BeforeStep
          <6> QED
            BY <4>3, <6>1 DEF Memory
        <5>2. PICK u : u = Ours(p)
          OBVIOUS
        <5>3. u \in Seq(Nat)
          BY <1>1, <5>1, <5>2 DEF Ours
        <5>4. Len(ps) = Len(u) + 1 /\ ps[Len(u) + 1] = begun /\ Len(u) \in Nat /\ ps \in Seq(Nat)
          BY <4>4, <5>1, <5>2, <5>3, ConcatProperties
        <5> QED
          BY <5>4 DEF Range
      <4>6. commits'[N + 1].parents = ps
        BY <4>2, <4>3, <4>4
      <4> QED
        BY <1>2, <2>2, <2>5, <3>1, <4>2, <4>5, <4>6
    <3>2. CASE m.at > 9
      <4>1. commits' = commits /\ N' = N
        BY <1>2, <1>6, <3>2 DEF N
      <4> QED
        BY <1>2, <1>3, <2>2, <2>5, <3>2, <4>1 DEF Carried
    <3> QED
      BY <1>2, <2>2, <2>3, <3>1, <3>2
  <2>10. Carried(x)'
    BY <2>3, <2>7, <2>8, <2>9 DEF Carried
  <2> QED
    BY <1>5, <2>2, <2>6, <2>10
<1>9. ~Stops(p)
  BY <1>1, <1>2 DEF Stops
<1> QED
  BY <1>2, <1>7, <1>8, <1>9 DEF Proceeds

LEMMA MergeKeepsMerge ==
  ASSUME Inv, Merged, ~MergeLost, NEW p \in Proc, Step(p),
         run[p].program \in {"merge", "forward"}
  PROVE  Merged'
<1>1. PICK m : m = run[p]
  OBVIOUS
<1>2. /\ Proceeds(p) /\ m # Idle /\ DOMAIN run = Proc /\ m.program \in {"merge", "forward"}
      /\ m.at \in Nat
  BY <1>1, Proceeding, Commanded
<1>3. Carried(m)
  BY <1>1, <1>2 DEF Merged
<1>4. begun # Nothing => mergeHead = begun
  BY <1>1, <1>2, PendingIsBegun DEF Merging, Ending, Beginning
<1>5. mergeHead' = mergeHead /\ begun' = begun /\ (m.program = "merge" => refs' = refs)
  BY <1>1, <1>2, Places, SameBegun
<1>6. run'[p] # Idle => Carried(run[p])'
  <2> SUFFICES ASSUME run'[p] # Idle PROVE Carried(run[p])'
    OBVIOUS
  <2>1. PICK x : Passes(p, x)
    BY <1>2 DEF Proceeds, Stops, Ends, Stop, Finish
  <2>2. run'[p] = x /\ Learnt(m, x) /\ Turns(m, x)
    BY <1>1, <1>2, <2>1 DEF Passes
  <2>3. CASE x.program = "merge"
    <3>1. m.program = "merge" /\ x.at = m.at + 1
      BY <1>2, <2>2, <2>3 DEF Turns
    <3>2. x.at = 4 => x.other = Tip(m.arg) /\ x.arg = m.arg
      BY <1>2, <2>2, <3>1 DEF Learnt, Resolves
    <3> QED
      BY <1>5, <2>2, <2>3, <3>1, <3>2 DEF Carried, Tip
  <2>4. CASE x.program = "diverge"
    <3>1. m.program = "merge" /\ m.at = 4 /\ x.at = 1
      BY <1>2, <2>2, <2>4 DEF Turns
    <3>2. x.other = m.other /\ x.arg = m.arg
      BY <2>2, <3>1 DEF Learnt, Resolves
    <3>3. m.other = Tip(m.arg)
      BY <1>3, <3>1 DEF Carried
    <3> QED
      BY <1>5, <2>2, <2>4, <3>1, <3>2, <3>3 DEF Carried, Tip
  <2>5. CASE x.program = "forward"
    BY <2>2, <2>5 DEF Carried
  <2> QED
    BY <1>2, <2>2, <2>3, <2>4, <2>5 DEF Turns
<1> QED
  BY <1>1, <1>2, <1>4, <1>5, <1>6, MergerKeeps DEF Merging

LEMMA DivergeKeepsMerge ==
  ASSUME Inv, Merged, ~MergeLost, NEW p \in Proc, Step(p), run[p].program = "diverge"
  PROVE  Merged'
<1>1. PICK m : m = run[p]
  OBVIOUS
<1>2. /\ Proceeds(p) /\ m # Idle /\ DOMAIN run = Proc /\ m.program = "diverge" /\ m.cmd = "merge"
      /\ m.at \in 1 .. 4 /\ m.at \in Nat /\ N \in Nat
  BY <1>1, Stepping
<1>3. Carried(m) /\ m.other \in 1 .. N
  BY <1>1, <1>2, BeforeStep DEF Merged, True
<1>4. refs' = refs
  BY <1>1, <1>2, Places
<1>5. ASSUME \/ run'[p] # Idle /\ Beginning(run'[p])
             \/ begun' # Nothing => mergeHead' = begun',
             run'[p] # Idle => Carried(run[p])'
      PROVE  Merged'
  BY <1>1, <1>2, <1>5, MergerKeeps DEF Merging
<1>6. CASE Ends(p)
  <2>1. Finish(p) /\ m.at = 4
    BY <1>1, <1>2, <1>6, Lengths DEF Ends
  <2>2. begun' = m.other /\ run'[p] = Idle
    BY <1>1, <1>2, <2>1 DEF Finish
  <2>3. WriteMergeHead(p) /\ m.new = m.other /\ m.other # Nothing
    BY <1>1, <1>2, <1>3, <2>1, Doers DEF Carried, Nothing
  <2>4. mergeHead' = m.other
    BY <1>1, <2>3 DEF WriteMergeHead, Wrote
  <2> QED
    BY <1>5, <2>2, <2>4
<1>7. CASE \E x : Passes(p, x)
  <2>1. PICK x : Passes(p, x)
    BY <1>7
  <2>2. run'[p] = x /\ x # Idle /\ Learnt(m, x) /\ Turns(m, x)
    BY <1>1, <1>2, <2>1 DEF Passes
  <2>3. /\ x.program = "diverge" /\ (x.at = m.at + 1 \/ x.at = 1)
        /\ x.other = m.other /\ x.arg = m.arg
        /\ x.new = IF m.at = 2 THEN Tip(m.arg) ELSE m.new
    BY <1>2, <2>2 DEF Turns, Learnt, Resolves, ResolvesAgain
  <2>4. m.other = Tip(m.arg) /\ (m.at \in {3, 4} => m.new = m.other)
    BY <1>2, <1>3 DEF Carried
  <2>5. x.at \in {3, 4} => x.new = m.other
    BY <1>2, <2>3, <2>4
  <2>6. Carried(x)'
    BY <1>4, <2>3, <2>4, <2>5 DEF Carried, Tip
  <2> QED
    BY <1>5, <2>2, <2>3, <2>6 DEF Beginning
<1>8. ~Stops(p)
  BY <1>1, <1>2 DEF Stops
<1> QED
  BY <1>2, <1>6, <1>7, <1>8 DEF Proceeds

LEMMA RestKeepsMerge ==
  ASSUME Inv, Merged, ~MergeLost, ~MergeLost', Rests
  PROVE  Merged'
<1>1. /\ UNCHANGED <<refs, mergeHead, commits, begun>>
      /\ \A p \in Proc : run'[p] = run[p] \/ Killed(p) \/ Started(p)
  BY DEF Rests, promises, pointers
<1>2. ASSUME NEW p \in Proc, run[p] # Idle, Ending(run[p]) \/ Beginning(run[p])
      PROVE  run'[p] = run[p]
  <2>1. ~Started(p)
    BY <1>2 DEF Started
  <2>2. PICK m : m = run[p]
    OBVIOUS
  <2>3. /\ m.program \in {"commit", "diverge"} /\ m.at \in 1 .. Len(Program[m.program]) /\ m.at \in Nat
        /\ m.program = "commit" => m.cmd = "commit"
        /\ m.program = "diverge" => m.cmd = "merge"
    BY <1>2, <2>2, BeforeStep, Commanded DEF Ending, Beginning, Commands
  <2>4. <<m.cmd, Program[m.program][m.at]>> \in MergeLosing
    <3>1. CASE m.program = "commit"
      <4>1. m.at \in {9, 10, 11, 12, 13}
        BY <1>2, <2>2, <2>3, <3>1, Lengths DEF Ending, Beginning
      <4>2. /\ Program["commit"][9] = "store commit" /\ Program["commit"][10] = "is branch"
            /\ Program["commit"][11] = "name branch" /\ Program["commit"][12] = "open ref"
            /\ Program["commit"][13] = "write ref"
        BY Contents
      <4>3. Program["commit"][m.at] \in
              {"store commit", "is branch", "name branch", "open ref", "write ref"}
        BY <4>1, <4>2
      <4> QED
        BY <2>3, <3>1, <4>3 DEF MergeLosing
    <3>2. CASE m.program = "diverge"
      <4>1. m.at \in {1, 2, 3, 4}
        BY <2>3, <3>2, Lengths
      <4>2. /\ Program["diverge"][1] = "merge file" /\ Program["diverge"][2] = "resolve again"
            /\ Program["diverge"][3] = "open MERGE_HEAD" /\ Program["diverge"][4] = "write MERGE_HEAD"
        BY Contents
      <4>3. Program["diverge"][m.at] \in
              {"merge file", "resolve again", "open MERGE_HEAD", "write MERGE_HEAD"}
        BY <4>1, <4>2
      <4> QED
        BY <2>3, <3>2, <4>3 DEF MergeLosing
    <3> QED
      BY <2>3, <3>1, <3>2
  <2>5. ~Killed(p)
    BY <2>2, <2>4 DEF Killed, MergeLost
  <2> QED
    BY <1>1, <2>1, <2>5
<1>3. \/ \E p \in Proc : run'[p] # Idle /\ (Ending(run'[p]) \/ Beginning(run'[p]))
      \/ begun' # Nothing => mergeHead' = begun'
  BY <1>1, <1>2 DEF Merged
<1>4. \A p \in Proc : run'[p] # Idle => Carried(run[p])'
  <2> SUFFICES ASSUME NEW p \in Proc, run'[p] # Idle PROVE Carried(run[p])'
    OBVIOUS
  <2>1. CASE run'[p] = run[p]
    <3>1. Carried(run[p])
      BY <2>1 DEF Merged
    <3> QED
      BY <1>1, <2>1, <3>1 DEF Carried, N, Tip
  <2>2. CASE Started(p)
    BY <2>2 DEF Started, Carried, Commands
  <2> QED
    BY <1>1, <2>1, <2>2 DEF Killed
<1> QED
  BY <1>3, <1>4 DEF Merged

LEMMA MergesMerged == Init => Merged
BY DEF Init, Merged

LEMMA MergedKeeps == Inv /\ Merged /\ [Next]_vars => Merged'
<1> SUFFICES ASSUME Inv, Merged, [Next]_vars PROVE Merged'
  OBVIOUS
<1>1. CASE MergeLost'
  BY <1>1 DEF Merged
<1>2. CASE ~MergeLost'
  <2>1. ~MergeLost
    BY <1>2, LossesStay
  <2>2. ASSUME NEW p \in Proc, Step(p) PROVE Merged'
    <3>1. CASE ~Merging(run[p])
      BY <2>1, <2>2, <3>1, BystanderKeepsMerge
    <3>2. CASE Merging(run[p])
      BY <2>1, <2>2, <3>2, CommitKeepsMerge, MergeKeepsMerge, DivergeKeepsMerge DEF Merging
    <3> QED
      BY <3>1, <3>2
  <2>3. CASE Rests
    BY <1>2, <2>1, <2>3, RestKeepsMerge
  <2> QED
    BY <2>2, <2>3, StepsOrRests
<1> QED
  BY <1>1, <1>2

\* A merge that was reported as begun stays pending until a commit records it,
\* unless a commit is killed after it cleared MERGE_HEAD or a merge while it goes
\* from file to file, a commit or merge meets another, or a branch command meets
\* a merge.
THEOREM MergesStay == Spec => []MergeKept
<1>1. Merged => MergeKept
  BY DEF Merged, MergeLost, MergeKept, Quiet
<1>2. Spec => []Merged
  BY MergesMerged, MergedKeeps, Invariant, PTL DEF Spec
<1> QED
  BY <1>1, <1>2, PTL

-----------------------------------------------------------------------------
(***************************************************************************)
(* The history below a commit, in a sequence of commits.                   *)
(***************************************************************************)
Below(cs, c) ==
  {a \in 1 .. Len(cs) :
     /\ c \in 1 .. Len(cs)
     /\ \A S \in SUBSET (1 .. Len(cs)) :
          (c \in S /\ \A d \in S : Range(cs[d].parents) \ {Nothing} \subseteq S) => a \in S}

LEMMA AncestorsBelow ==
  ASSUME NEW c
  PROVE  Ancestors(c) = Below(commits, c) /\ Ancestors(c)' = Below(commits', c)
BY DEF Ancestors, Below

\* A commit is below itself, and what is below one that is below it is below
\* it too.
LEMMA BelowItself ==
  ASSUME NEW cs, NEW c \in 1 .. Len(cs)
  PROVE  c \in Below(cs, c)
BY DEF Below

LEMMA BelowBelow ==
  ASSUME NEW cs, NEW c, NEW b \in Below(cs, c)
  PROVE  Below(cs, b) \subseteq Below(cs, c)
BY DEF Below

LEMMA ParentBelow ==
  ASSUME NEW cs, NEW c \in 1 .. Len(cs), NEW d \in 1 .. Len(cs), d \in Range(cs[c].parents), d # Nothing
  PROVE  d \in Below(cs, c)
BY DEF Below

\* One more commit changes nothing below the others.
LEMMA BelowGrows ==
  ASSUME NEW cs, NEW ds, Len(cs) \in Nat, Len(ds) \in Nat, Len(cs) <= Len(ds),
         \A d \in 1 .. Len(cs) : /\ ds[d] = cs[d]
                                 /\ Range(cs[d].parents) \subseteq 0 .. (d - 1),
         NEW c, NEW a \in Below(cs, c)
  PROVE  a \in Below(ds, c)
<1>1. c \in 1 .. Len(cs) /\ a \in 1 .. Len(cs)
  BY DEF Below
<1>2. c \in 1 .. Len(ds) /\ a \in 1 .. Len(ds)
  BY <1>1
<1>3. ASSUME NEW S \in SUBSET (1 .. Len(ds)), c \in S,
             \A d \in S : Range(ds[d].parents) \ {Nothing} \subseteq S
      PROVE  a \in S
  <2>1. PICK T : T = S \cap 1 .. Len(cs)
    OBVIOUS
  <2>2. ASSUME NEW d \in T, NEW e \in Range(cs[d].parents) \ {Nothing}
        PROVE  e \in T
    <3>1. d \in S /\ d \in 1 .. Len(cs)
      BY <2>1
    <3>2. e \in S
      BY <1>3, <2>2, <3>1
    <3>3. e \in 0 .. (d - 1) /\ e # 0
      BY <2>2, <3>1 DEF Nothing
    <3>4. e \in 1 .. Len(cs)
      BY <3>1, <3>3
    <3> QED
      BY <2>1, <3>2, <3>4
  <2>3. T \in SUBSET (1 .. Len(cs)) /\ c \in T
    BY <1>1, <1>3, <2>1
  <2>4. a \in T
    BY <2>2, <2>3 DEF Below
  <2> QED
    BY <2>1, <2>4
<1> QED
  BY <1>2, <1>3 DEF Below

\* The histories of the repository after a step.
LEMMA HistoryGrows ==
  ASSUME Inv, NEW p \in Proc, Step(p), NEW c, NEW a \in Ancestors(c)
  PROVE  a \in Ancestors(c)'
<1>1. PICK cs, ds : cs = commits /\ ds = commits'
  OBVIOUS
<1>2. a \in Below(cs, c)
  BY <1>1, AncestorsBelow
<1>3. CASE commits' = commits
  BY <1>1, <1>2, <1>3, AncestorsBelow
<1>4. CASE StoreCommit(p)
  <2>1. Len(cs) \in Nat /\ Len(ds) = Len(cs) + 1 /\ \A d \in 1 .. Len(cs) : ds[d] = cs[d]
    BY <1>1, <1>4, Appended DEF N
  <2>2. \A d \in 1 .. Len(cs) : Range(cs[d].parents) \subseteq 0 .. (d - 1)
    BY <1>1 DEF Inv, Bounded, N
  <2>3. Len(ds) \in Nat /\ Len(cs) <= Len(ds)
    BY <2>1
  <2>4. a \in Below(ds, c)
    BY <1>2, <2>1, <2>2, <2>3, BelowGrows
  <2> QED
    BY <1>1, <2>4, AncestorsBelow
<1> QED
  BY <1>3, <1>4, Places

-----------------------------------------------------------------------------
(***************************************************************************)
(* Commits stay.                                                           *)
(***************************************************************************)

\* What held the commits of a branch holds them still when none is new.
LEMMA HoldsStill ==
  ASSUME Inv, NEW p \in Proc, Step(p), kept' \subseteq kept, NEW c, NEW b, Holds(c, b)
  PROVE  Holds(c, b)'
BY HistoryGrows DEF Holds

LEMMA BranchHoldsStill ==
  ASSUME Inv, NEW p \in Proc, Step(p), kept' \subseteq kept, NEW b, Holds(refs[b], b), refs'[b] = refs[b]
  PROVE  Holds(refs[b], b)'
<1>1. PICK c : c = refs[b]
  OBVIOUS
<1>2. Holds(c, b)'
  BY <1>1, HoldsStill
<1> QED
  BY <1>1, <1>2 DEF Holds

\* What is above a commit that holds them does too.
LEMMA HoldsAbove ==
  ASSUME NEW c, NEW d, NEW b, Holds(c, b), c \in Ancestors(d)
  PROVE  Holds(d, b)
<1>1. PICK cs : cs = commits
  OBVIOUS
<1>2. Below(cs, c) \subseteq Below(cs, d)
  BY <1>1, AncestorsBelow, BelowBelow
<1> QED
  BY <1>1, <1>2, AncestorsBelow DEF Holds

\* Of the commands but add, one runs at a time.
LEMMA MoversAlone ==
  ASSUME Inv, ~CommitLost, NEW p \in Proc, run[p] # Idle, run[p].program # "add",
         NEW q \in Proc, q # p, run[q] # Idle
  PROVE  run[q].program = "add"
<1>1. {run[p].cmd, run[q].cmd} \in together
  BY Met2
<1>2. \A r \in Proc : run[r] # Idle /\ run[r].program # "add" =>
        run[r].cmd \in {"init", "commit", "branch", "checkout", "merge"}
  BY Commanded DEF Commands, Programs
<1>3. SUFFICES ASSUME run[q].program # "add" PROVE FALSE
  OBVIOUS
<1>4. {run[p].cmd, run[q].cmd} \subseteq {"init", "commit", "branch", "checkout", "merge"}
  BY <1>2, <1>3
<1> QED
  BY <1>1, <1>4 DEF CommitLost, Met

\* What the one that runs may take for granted.
LEMMA MoverKnows ==
  ASSUME Inv, Anchored, ~CommitLost, NEW p \in Proc, run[p] # Idle, run[p].program # "add"
  PROVE  /\ Known(run[p]) /\ OnBranches
         /\ ~Switching(run[p]) => head = selected
         /\ \A b \in Branch : ~Pointing(run[p], b) => Holds(refs[b], b)
<1>1. \A q \in Proc : q # p /\ run[q] # Idle =>
        ~Switching(run[q]) /\ \A b \in Branch : ~Pointing(run[q], b)
  BY MoversAlone DEF Switching, Pointing
<1> QED
  BY <1>1 DEF Anchored

\* And what it has to see to.
LEMMA MoverKeeps ==
  ASSUME Inv, Anchored, ~CommitLost, NEW p \in Proc, Step(p), run[p].program # "add", OnBranches',
         (run'[p] # Idle /\ Switching(run'[p])) \/ head' = selected',
         \A b \in Branch : (run'[p] # Idle /\ Pointing(run'[p], b)) \/ Holds(refs[b], b)',
         run'[p] # Idle => Known(run[p])'
  PROVE  Anchored'
<1>1. \A q \in Proc : q # p => run'[q] = run[q]
  BY Proceeding
<1>2. \A q \in Proc : q # p /\ run'[q] # Idle => run[q].program = "add"
  BY <1>1, MoversAlone, Proceeding
<1>3. \A q \in Proc : q # p /\ run'[q] # Idle => Known(run[q])'
  BY <1>1, <1>2 DEF Known
<1>4. \/ \E q \in Proc : run'[q] # Idle /\ Switching(run'[q])
      \/ head' = selected'
  OBVIOUS
<1>5. \A b \in Branch : \/ \E q \in Proc : run'[q] # Idle /\ Pointing(run'[q], b)
                        \/ Holds(refs[b], b)'
  OBVIOUS
<1>6. \A b : \A q \in Proc : Pointing(run'[q], b) <=> Pointing(run[q], b)'
  BY DEF Pointing, Moved
<1>7. \A q \in Proc : Switching(run'[q]) <=> Switching(run[q])'
  BY DEF Switching
<1> QED
  BY <1>3, <1>4, <1>5, <1>6, <1>7 DEF Anchored

\* A step of an add.
LEMMA AddKeepsCommits ==
  ASSUME Inv, Anchored, ~CommitLost, NEW p \in Proc, Step(p), run[p].program = "add"
  PROVE  Anchored'
<1>1. PICK m : m = run[p]
  OBVIOUS
<1>2. /\ Proceeds(p) /\ m # Idle /\ \A q \in Proc : q # p => run'[q] = run[q]
      /\ DOMAIN run = Proc /\ m.cmd = "add"
  BY <1>1, Proceeding, Commanded DEF Commands
<1>3. UNCHANGED <<head, refs, commits>>
  BY Places
<1>4. UNCHANGED <<kept, selected>>
  BY <1>1, <1>2 DEF Proceeds, Stops, Ends, Passes, Stop, Finish, promises
<1>5. run'[p] # Idle => run'[p].program = "add"
  <2> SUFFICES ASSUME run'[p] # Idle PROVE run'[p].program = "add"
    OBVIOUS
  <2>1. PICK x : Passes(p, x)
    BY <1>2 DEF Proceeds, Stops, Ends, Stop, Finish
  <2>2. run'[p] = x /\ Turns(m, x)
    BY <1>1, <1>2, <2>1 DEF Passes
  <2> QED
    BY <1>1, <2>2 DEF Turns
<1>6. \A b \in Branch : Holds(refs[b], b) => Holds(refs[b], b)'
  BY <1>3, <1>4, BranchHoldsStill
<1>7. \A q \in Proc : run[q] # Idle /\ Switching(run[q]) => run'[q] # Idle /\ Switching(run[q])'
  BY <1>1, <1>2 DEF Switching
<1>8. \A b \in Branch : \A q \in Proc :
        run[q] # Idle /\ Pointing(run[q], b) => run'[q] # Idle /\ Pointing(run[q], b)'
  BY <1>1, <1>2 DEF Pointing, Moved
<1>9. \A q \in Proc : run'[q] # Idle => Known(run[q])'
  <2> SUFFICES ASSUME NEW q \in Proc, run'[q] # Idle PROVE Known(run[q])'
    OBVIOUS
  <2>1. CASE q = p
    BY <1>5, <2>1 DEF Known
  <2>2. CASE q # p
    <3>1. Known(run[q]) /\ run'[q] = run[q]
      BY <1>2, <2>2 DEF Anchored
    <3>2. \A c, b : Holds(c, b) => Holds(c, b)'
      BY <1>4, HoldsStill
    <3>3. PICK o, h : o = run[q] /\ h = head
      OBVIOUS
    <3>4. N' = N /\ Tip(h)' = Tip(h) /\ Tip(o.arg)' = Tip(o.arg)
      BY <1>3 DEF N, Tip
    <3> QED
      BY <1>3, <3>1, <3>2, <3>3, <3>4 DEF Known
  <2> QED
    BY <2>1, <2>2
<1>10. OnBranches'
  BY <1>4 DEF Anchored, OnBranches
<1>11. (\E q \in Proc : run'[q] # Idle /\ Switching(run[q])') \/ head' = selected'
  BY <1>3, <1>4, <1>7 DEF Anchored
<1>12. \A b \in Branch : (\E q \in Proc : run'[q] # Idle /\ Pointing(run[q], b)') \/ Holds(refs[b], b)'
  BY <1>6, <1>8 DEF Anchored
<1> QED
  BY <1>9, <1>10, <1>11, <1>12 DEF Anchored

LEMMA InitKeepsCommits ==
  ASSUME Inv, Anchored, ~CommitLost, NEW p \in Proc, Step(p), run[p].program = "init"
  PROVE  Anchored'
<1>1. PICK m : m = run[p]
  OBVIOUS
<1>2. /\ Proceeds(p) /\ m # Idle /\ DOMAIN run = Proc /\ m.program = "init" /\ m.cmd = "init"
      /\ m.at \in 1 .. 3 /\ m.at \in Nat
  BY <1>1, Stepping
<1>3. OnBranches /\ (~Switching(m) => head = selected) /\ \A b \in Branch : Holds(refs[b], b)
  BY <1>1, <1>2, MoverKnows DEF Pointing
<1>4. refs' = refs /\ kept' = kept /\ (m.at = 1 => head' = head)
  BY <1>1, <1>2, Places DEF Proceeds, Stops, Ends, Passes, Stop, Finish, promises
<1>5. \A b \in Branch : Holds(refs[b], b)'
  BY <1>3, <1>4, BranchHoldsStill
<1>6. OnBranches'
  BY <1>3, <1>4 DEF OnBranches
<1>7. CASE Stops(p)
  <2>1. m.at = 1 /\ run'[p] = Idle /\ selected' = selected
    BY <1>1, <1>2, <1>7 DEF Stops, Stop, promises
  <2>2. head' = selected'
    BY <1>3, <1>4, <2>1 DEF Switching
  <2> QED
    BY <1>1, <1>2, <1>5, <1>6, <2>1, <2>2, MoverKeeps
<1>8. CASE Ends(p)
  <2>1. m.at = 3 /\ Finish(p)
    BY <1>1, <1>2, <1>8, Lengths DEF Ends
  <2>2. run'[p] = Idle /\ selected' = Main
    BY <1>1, <1>2, <2>1 DEF Finish
  <2>3. head' = Main
    BY <1>1, <1>2, <2>1, Doers DEF WriteHead
  <2> QED
    BY <1>1, <1>2, <1>5, <1>6, <2>2, <2>3, MoverKeeps
<1>9. CASE \E x : Passes(p, x)
  <2>1. PICK x : Passes(p, x)
    BY <1>9
  <2>2. run'[p] = x /\ x # Idle /\ selected' = selected /\ x.program = "init" /\ x.at = m.at + 1
    BY <1>1, <1>2, <2>1 DEF Passes, Turns, promises
  <2>3. Known(x)'
    BY <2>2 DEF Known
  <2>4. m.at \in {1, 2}
    <3>1. m.at # Len(Program[m.program])
      BY <1>1, <1>2, <2>1 DEF Passes, Turns
    <3> QED
      BY <1>2, <3>1, Lengths
  <2>5. Switching(x) \/ head' = selected'
    BY <1>2, <1>3, <1>4, <2>2, <2>4 DEF Switching
  <2> QED
    BY <1>1, <1>2, <1>5, <1>6, <2>2, <2>3, <2>5, MoverKeeps
<1> QED
  BY <1>2, <1>7, <1>8, <1>9 DEF Proceeds

LEMMA CheckoutKeepsCommits ==
  ASSUME Inv, Anchored, ~CommitLost, NEW p \in Proc, Step(p), run[p].program = "checkout"
  PROVE  Anchored'
<1>1. PICK m : m = run[p]
  OBVIOUS
<1>2. /\ Proceeds(p) /\ m # Idle /\ DOMAIN run = Proc /\ m.program = "checkout" /\ m.cmd = "checkout"
      /\ m.at \in 1 .. 8 /\ m.at \in Nat
  BY <1>1, Stepping
<1>3. /\ OnBranches /\ (~Switching(m) => head = selected) /\ \A b \in Branch : Holds(refs[b], b)
      /\ Known(m)
  BY <1>1, <1>2, MoverKnows DEF Pointing
<1>4. refs' = refs /\ kept' = kept /\ (m.at \notin {5, 6} => head' = head)
  BY <1>1, <1>2, Places DEF Proceeds, Stops, Ends, Passes, Stop, Finish, promises
<1>5. \A b \in Branch : Holds(refs[b], b)'
  BY <1>3, <1>4, BranchHoldsStill
<1>6. OnBranches'
  BY <1>3, <1>4 DEF OnBranches
<1>7. CASE Stops(p)
  <2>1. m.at = 2 /\ run'[p] = Idle /\ selected' = selected
    BY <1>1, <1>2, <1>7 DEF Stops, Stop, promises
  <2>2. head' = selected'
    BY <1>2, <1>3, <1>4, <2>1 DEF Switching
  <2> QED
    BY <1>1, <1>2, <1>5, <1>6, <2>1, <2>2, MoverKeeps
<1>8. CASE Ends(p)
  <2>1. m.at = 8 /\ Finish(p)
    BY <1>1, <1>2, <1>8, Lengths DEF Ends
  <2>2. run'[p] = Idle /\ selected' = m.arg
    BY <1>1, <1>2, <2>1 DEF Finish
  <2>3. head' = m.arg
    BY <1>2, <1>3, <1>4, <2>1 DEF Known
  <2> QED
    BY <1>1, <1>2, <1>5, <1>6, <2>2, <2>3, MoverKeeps
<1>9. CASE \E x : Passes(p, x)
  <2>1. PICK x : Passes(p, x)
    BY <1>9
  <2>2. /\ run'[p] = x /\ x # Idle /\ selected' = selected /\ x.program = "checkout"
        /\ x.at = m.at + 1 \/ (m.at = 8 /\ x.at = 8)
        /\ x.arg = m.arg
    BY <1>1, <1>2, <2>1, Lengths DEF Passes, Turns, Learnt, promises
  <2>3. Known(x)'
    <3>1. m.at = 6 => head' = m.arg
      BY <1>1, <1>2, Doers DEF WriteHead
    <3>2. m.at > 6 => head' = m.arg
      BY <1>2, <1>3, <1>4 DEF Known
    <3>3. x.at > 6 => head' = x.arg
      BY <1>2, <2>2, <3>1, <3>2
    <3> QED
      BY <2>2, <3>3 DEF Known
  <2>4. Switching(x) \/ head' = selected'
    BY <1>2, <1>3, <1>4, <2>2 DEF Switching
  <2> QED
    BY <1>1, <1>2, <1>5, <1>6, <2>2, <2>3, <2>4, MoverKeeps
<1> QED
  BY <1>2, <1>7, <1>8, <1>9 DEF Proceeds

\* What the steps on a branch's file leave in it.
LEMMA RefsAfter ==
  ASSUME Inv, NEW p \in Proc, OpenRef(p) \/ WriteRef(p), NEW b \in Branch
  PROVE  /\ b # Moved(run[p]) => refs'[b] = refs[b]
         /\ WriteRef(p) /\ b = Moved(run[p]) /\ Target(run[p]) # Nothing => refs'[b] = Target(run[p])
<1>1. CASE OpenRef(p)
  <2>1. b # Moved(run[p]) => refs'[b] = refs[b]
    BY <1>1 DEF OpenRef
  <2>2. ASSUME WriteRef(p) PROVE FALSE
    BY <1>1, <2>2 DEF OpenRef, WriteRef, At
  <2> QED
    BY <2>1, <2>2
<1>2. CASE WriteRef(p)
  BY <1>2 DEF WriteRef, Wrote
<1> QED
  BY <1>1, <1>2

LEMMA BranchKeepsCommits ==
  ASSUME Inv, Anchored, ~CommitLost, NEW p \in Proc, Step(p), run[p].program = "branch"
  PROVE  Anchored'
<1>1. PICK m : m = run[p]
  OBVIOUS
<1>2. /\ Proceeds(p) /\ m # Idle /\ DOMAIN run = Proc /\ m.program = "branch" /\ m.cmd = "branch"
      /\ m.at \in 1 .. 4 /\ m.at \in Nat /\ Moved(m) = m.arg
  BY <1>1, Stepping DEF Moved
<1>3. /\ OnBranches /\ head = selected
      /\ \A b \in Branch : m.at # 4 \/ b # m.arg => Holds(refs[b], b)
  BY <1>1, <1>2, MoverKnows DEF Pointing, Switching
<1>4. head' = head /\ (m.at \notin {3, 4} => refs' = refs)
  BY <1>1, <1>2, Places
<1>5. \A b \in Branch : b # m.arg => refs'[b] = refs[b]
  <2>1. m.at = 3 => OpenRef(p)
    BY <1>1, <1>2, Doers
  <2>2. m.at = 4 => WriteRef(p)
    BY <1>1, <1>2, Doers
  <2>3. m.at \in {3, 4} => \A b \in Branch : b # m.arg => refs'[b] = refs[b]
    BY <1>1, <1>2, <2>1, <2>2, RefsAfter
  <2> QED
    BY <1>4, <2>3
<1>6. CASE Ends(p)
  <2>1. m.at = 4 /\ Finish(p)
    BY <1>1, <1>2, <1>6, Lengths DEF Ends
  <2>2. run'[p] = Idle /\ selected' = selected /\ kept' = {k \in kept : k[2] # m.arg}
    BY <1>1, <1>2, <2>1 DEF Finish
  <2>3. OnBranches'
    BY <1>3, <2>2 DEF OnBranches
  <2>4. \A b \in Branch : Holds(refs[b], b)'
    <3> SUFFICES ASSUME NEW b \in Branch PROVE Holds(refs[b], b)'
      OBVIOUS
    <3>1. CASE b = m.arg
      BY <2>2, <3>1 DEF Holds
    <3>2. CASE b # m.arg
      BY <1>3, <1>5, <2>2, <3>2, BranchHoldsStill
    <3> QED
      BY <3>1, <3>2
  <2> QED
    BY <1>1, <1>2, <1>3, <1>4, <2>2, <2>3, <2>4, MoverKeeps
<1>7. CASE \E x : Passes(p, x)
  <2>1. PICK x : Passes(p, x)
    BY <1>7
  <2>2. /\ run'[p] = x /\ x # Idle /\ selected' = selected /\ kept' = kept /\ x.program = "branch"
        /\ x.at = m.at + 1 /\ m.at # 4 /\ x.arg = m.arg /\ x.cmd = m.cmd
    BY <1>1, <1>2, <2>1, Lengths DEF Passes, Turns, Learnt, promises
  <2>3. OnBranches' /\ Known(x)'
    BY <1>3, <2>2 DEF OnBranches, Known
  <2>4. \A b \in Branch : Pointing(x, b) \/ Holds(refs[b], b)'
    <3> SUFFICES ASSUME NEW b \in Branch PROVE Pointing(x, b) \/ Holds(refs[b], b)'
      OBVIOUS
    <3>1. CASE m.at = 3 /\ b = m.arg
      BY <1>2, <2>2, <3>1 DEF Pointing, Moved
    <3>2. CASE m.at # 3 \/ b # m.arg
      <4>1. refs'[b] = refs[b]
        BY <1>2, <1>4, <1>5, <2>2, <3>2
      <4> QED
        BY <1>3, <2>2, <4>1, BranchHoldsStill
    <3> QED
      BY <3>1, <3>2
  <2> QED
    BY <1>1, <1>2, <1>3, <1>4, <2>2, <2>3, <2>4, MoverKeeps
<1>8. ~Stops(p)
  BY <1>1, <1>2 DEF Stops
<1> QED
  BY <1>2, <1>6, <1>7, <1>8 DEF Proceeds

LEMMA MergeKeepsCommits ==
  ASSUME Inv, Anchored, ~CommitLost, NEW p \in Proc, Step(p), run[p].program \in {"merge", "diverge"}
  PROVE  Anchored'
<1>1. PICK m : m = run[p]
  OBVIOUS
<1>2. /\ Proceeds(p) /\ m # Idle /\ DOMAIN run = Proc /\ m.program \in {"merge", "diverge"}
      /\ m.cmd = "merge" /\ m.at \in Nat
  BY <1>1, Proceeding, Commanded DEF Commands
<1>3. /\ OnBranches /\ head = selected /\ \A b \in Branch : Holds(refs[b], b)
      /\ Known(m)
  BY <1>1, <1>2, MoverKnows DEF Pointing, Switching
<1>4. head' = head /\ refs' = refs
  BY <1>1, <1>2, Places
<1>5. selected' = selected /\ kept' = kept
  BY <1>1, <1>2 DEF Proceeds, Stops, Ends, Passes, Stop, Finish, promises
<1>6. OnBranches' /\ \A b \in Branch : Holds(refs[b], b)'
  BY <1>3, <1>4, <1>5, BranchHoldsStill DEF OnBranches
<1>7. run'[p] # Idle => Known(run[p])'
  <2> SUFFICES ASSUME run'[p] # Idle PROVE Known(run[p])'
    OBVIOUS
  <2>1. PICK x : Passes(p, x)
    BY <1>2 DEF Proceeds, Stops, Ends, Stop, Finish
  <2>2. run'[p] = x /\ Learnt(m, x) /\ Turns(m, x) /\ x.arg = m.arg
    BY <1>1, <1>2, <2>1 DEF Passes, Learnt
  <2>3. CASE x.program = "merge"
    <3>1. m.program = "merge" /\ x.at = m.at + 1
      BY <1>2, <2>2, <2>3 DEF Turns
    <3>2. x.at > 1 => x.name = head
      BY <1>1, <1>2, <1>3, <2>2, <3>1, BeforeStep DEF Known, Learnt, NamesHead
    <3>3. x.at > 2 => x.ours = Tip(head)
      <4>1. m.at > 1 => m.name = head
        BY <1>3, <3>1 DEF Known
      <4>2. m.at > 2 => m.ours = Tip(head)
        BY <1>3, <3>1 DEF Known
      <4> QED
        BY <1>2, <2>2, <3>1, <4>1, <4>2 DEF Learnt, ReadsRef
    <3>4. x.at = 4 => x.other = Tip(m.arg)
      BY <1>2, <2>2, <3>1 DEF Learnt, Resolves
    <3> QED
      BY <1>4, <2>2, <2>3, <3>1, <3>2, <3>3, <3>4 DEF Known, Tip
  <2>4. CASE x.program = "forward"
    <3>1. m.program = "merge" /\ m.at = 4 /\ x.at = 1 /\ m.ours \in Ancestors(m.other)
      BY <1>2, <2>2, <2>4 DEF Turns
    <3>2. x.other = m.other
      BY <2>2, <3>1 DEF Learnt, Resolves
    <3>3. m.ours = Tip(head) /\ m.other = Tip(m.arg)
      BY <1>3, <3>1 DEF Known
    <3>4. PICK h, o : h = head /\ o = m.other
      OBVIOUS
    <3>5. h \in Branch => Holds(o, h)'
      <4>1. SUFFICES ASSUME h \in Branch PROVE Holds(o, h)'
        OBVIOUS
      <4>2. PICK c : c = refs[h]
        OBVIOUS
      <4>3. Holds(c, h) /\ c \in Ancestors(o)
        BY <1>3, <3>1, <3>3, <3>4, <4>1, <4>2 DEF Tip
      <4>4. Holds(o, h)
        BY <4>3, HoldsAbove
      <4> QED
        BY <1>5, <4>4, HoldsStill
    <3>6. Tip(m.arg)' = Tip(m.arg)
      BY <1>4 DEF Tip
    <3> QED
      BY <1>4, <2>2, <2>4, <3>1, <3>2, <3>3, <3>4, <3>5, <3>6 DEF Known
  <2>5. CASE x.program = "diverge"
    BY <2>2, <2>5 DEF Known
  <2> QED
    BY <1>2, <2>2, <2>3, <2>4, <2>5 DEF Turns
<1> QED
  BY <1>1, <1>2, <1>3, <1>4, <1>5, <1>6, <1>7, MoverKeeps

LEMMA ForwardKeepsCommits ==
  ASSUME Inv, Anchored, ~CommitLost, NEW p \in Proc, Step(p), run[p].program = "forward"
  PROVE  Anchored'
<1>1. PICK m : m = run[p]
  OBVIOUS
<1>2. /\ Proceeds(p) /\ m # Idle /\ DOMAIN run = Proc /\ m.program = "forward"
      /\ m.cmd = "merge" /\ m.at \in 1 .. 5 /\ m.at \in Nat /\ Moved(m) = m.name
      /\ m.other \in 1 .. N
  BY <1>1, Proceeding, Commanded, BeforeStep, Lengths DEF Moved, True
<1>3. /\ OnBranches /\ head = selected /\ Known(m)
      /\ \A b \in Branch : m.at # 4 \/ b # m.name => Holds(refs[b], b)
  BY <1>1, <1>2, MoverKnows DEF Pointing, Switching
<1>4. head' = head /\ commits' = commits /\ (m.at \notin {3, 4} => refs' = refs)
  BY <1>1, <1>2, Places
<1>5. selected' = selected /\ kept' = kept
  BY <1>1, <1>2 DEF Proceeds, Stops, Ends, Passes, Stop, Finish, promises
<1>6. OnBranches'
  BY <1>3, <1>5 DEF OnBranches
<1>7. \A b \in Branch : b # m.name => refs'[b] = refs[b]
  <2>1. m.at = 3 => OpenRef(p)
    BY <1>1, <1>2, Doers
  <2>2. m.at = 4 => WriteRef(p)
    BY <1>1, <1>2, Doers
  <2>3. m.at \in {3, 4} => \A b \in Branch : b # m.name => refs'[b] = refs[b]
    BY <1>1, <1>2, <2>1, <2>2, RefsAfter
  <2> QED
    BY <1>4, <2>3
<1>8. \A b \in Branch : m.at \notin {3, 4} \/ b # m.name => Holds(refs[b], b)'
  <2> SUFFICES ASSUME NEW b \in Branch, m.at \notin {3, 4} \/ b # m.name
               PROVE  Holds(refs[b], b)'
    OBVIOUS
  <2>1. Holds(refs[b], b)
    BY <1>3
  <2>2. refs'[b] = refs[b]
    BY <1>4, <1>7
  <2> QED
    BY <1>5, <2>1, <2>2, BranchHoldsStill
<1>9. CASE Ends(p)
  <2>1. m.at = 5 /\ run'[p] = Idle
    BY <1>1, <1>2, <1>9, Lengths DEF Ends, Finish
  <2>2. \A b \in Branch : Holds(refs[b], b)'
    BY <1>8, <2>1
  <2> QED
    BY <1>1, <1>2, <1>3, <1>4, <1>5, <1>6, <2>1, <2>2, MoverKeeps
<1>10. CASE \E x : Passes(p, x)
  <2>1. PICK x : Passes(p, x)
    BY <1>10
  <2>2. run'[p] = x /\ x # Idle /\ Learnt(m, x) /\ Turns(m, x)
    BY <1>1, <1>2, <2>1 DEF Passes
  <2>3. /\ x.program = "forward" /\ x.at = m.at + 1 /\ x.arg = m.arg /\ x.cmd = m.cmd
        /\ x.other = m.other
        /\ x.name = IF m.at = 1 THEN head ELSE m.name
        /\ x.new = IF m.at = 2 THEN Tip(m.arg) ELSE m.new
    BY <1>2, <2>2 DEF Turns, Learnt, NamesHead, Resolves, ResolvesAgain
  <2>4. PICK h, o : h = head /\ o = m.other
    OBVIOUS
  <2>5. Known(x)'
    <3>1. x.at < 4 => x.other = Tip(x.arg)'
      <4>1. SUFFICES ASSUME x.at < 4 PROVE m.other = Tip(m.arg)'
        BY <2>3
      <4>2. m.other = Tip(m.arg) /\ refs' = refs
        BY <1>2, <1>3, <1>4, <2>3, <4>1 DEF Known
      <4> QED
        BY <4>2 DEF Tip
    <3>2. x.at < 5 /\ h \in Branch => Holds(o, h)'
      <4>1. SUFFICES ASSUME x.at < 5, h \in Branch PROVE Holds(o, h)'
        OBVIOUS
      <4>2. Holds(o, h)
        BY <1>2, <1>3, <2>3, <2>4, <4>1 DEF Known
      <4> QED
        BY <1>5, <4>2, HoldsStill
    <3>3. x.at > 1 => x.name = head
      BY <1>2, <1>3, <2>3 DEF Known
    <3>4. x.at > 2 => x.new = m.other
      BY <1>2, <1>3, <2>3 DEF Known
    <3> QED
      BY <1>4, <2>3, <2>4, <3>1, <3>2, <3>3, <3>4 DEF Known
  <2>6. \A b \in Branch : Pointing(x, b) \/ Holds(refs[b], b)'
    <3> SUFFICES ASSUME NEW b \in Branch PROVE Pointing(x, b) \/ Holds(refs[b], b)'
      OBVIOUS
    <3>1. CASE m.at \notin {3, 4} \/ b # m.name
      BY <1>8, <3>1
    <3>2. CASE m.at = 3 /\ b = m.name
      BY <1>2, <2>3, <3>2 DEF Pointing, Moved
    <3>3. CASE m.at = 4 /\ b = m.name
      <4>1. b = h /\ m.new = o
        BY <1>3, <1>2, <2>4, <3>3 DEF Known
      <4>2. Holds(o, b)
        BY <1>2, <1>3, <2>4, <3>3, <4>1 DEF Known
      <4>3. Holds(o, b)'
        BY <1>5, <4>2, HoldsStill
      <4>4. Target(m) = o /\ o # Nothing
        BY <1>2, <2>4, <4>1 DEF Target, Nothing
      <4>5. refs'[b] = o
        BY <1>1, <1>2, <3>3, <4>4, Doers, RefsAfter
      <4> QED
        BY <4>3, <4>5 DEF Holds
    <3> QED
      BY <3>1, <3>2, <3>3
  <2> QED
    BY <1>1, <1>2, <1>3, <1>4, <1>5, <1>6, <2>2, <2>5, <2>6, MoverKeeps
<1>11. ~Stops(p)
  BY <1>1, <1>2 DEF Stops
<1> QED
  BY <1>2, <1>9, <1>10, <1>11 DEF Proceeds

\* The commit that is stored is above that of the branch.
LEMMA NewHolds ==
  ASSUME Inv, NEW p \in Proc, Step(p), StoreCommit(p), kept' = kept,
         NEW h \in Branch, Holds(refs[h], h), run[p].ours = refs[h], NEW n, n = N + 1
  PROVE  Holds(n, h)'
<1>1. /\ N \in Nat /\ N' = N + 1
      /\ commits'[N + 1].parents = Ours(p) \o run[p].merge
  BY Appended
<1>2. PICK c, ds : c = refs[h] /\ ds = commits'
  OBVIOUS
<1>3. SUFFICES ASSUME NEW k \in kept, k[2] = h
               PROVE  k[1] \in Ancestors(n)'
  BY <1>3 DEF Holds
<1>4. k[1] \in Ancestors(c)
  BY <1>2, <1>3 DEF Holds
<1>5. k[1] \in Ancestors(c)'
  BY <1>4, HistoryGrows
<1>6. c \in 1 .. N
  BY <1>4 DEF Ancestors, N
<1>7. c \in Range(ds[n].parents)
  <2>1. Ours(p) = <<c>>
    BY <1>1, <1>2, <1>6 DEF Ours, Nothing
  <2>2. run[p].merge \in Seq(Nat) /\ <<c>> \in Seq(Nat)
    <3>1. run[p] \in Memory
      BY BeforeStep, Frames
    <3> QED
      BY <1>1, <1>6, <3>1 DEF Memory
  <2>3. PICK u, ps : u = run[p].merge /\ ps = <<c>> \o u
    OBVIOUS
  <2>4. Len(ps) = 1 + Len(u) /\ Len(u) \in Nat /\ ps[1] = c /\ ps \in Seq(Nat)
    BY <2>2, <2>3, ConcatProperties
  <2> QED
    BY <1>1, <1>2, <2>1, <2>3, <2>4 DEF Range
<1>8. c \in Below(ds, n)
  <2>1. Len(ds) = n /\ n \in 1 .. Len(ds) /\ c \in 1 .. Len(ds) /\ c # Nothing
    BY <1>1, <1>2, <1>6 DEF N, Nothing
  <2> QED
    BY <1>7, <2>1, ParentBelow
<1> QED
  BY <1>2, <1>5, <1>8, AncestorsBelow, BelowBelow

LEMMA CommitKeepsCommits ==
  ASSUME Inv, Anchored, ~CommitLost, NEW p \in Proc, Step(p), run[p].program = "commit"
  PROVE  Anchored'
<1>1. PICK m, h : m = run[p] /\ h = head
  OBVIOUS
<1>2. /\ Proceeds(p) /\ m # Idle /\ DOMAIN run = Proc /\ m.program = "commit"
      /\ m.cmd = "commit" /\ m.at \in 1 .. 13 /\ m.at \in Nat /\ Moved(m) = m.name /\ N \in Nat
  BY <1>1, Stepping DEF Moved
<1>3. /\ OnBranches /\ head = selected /\ Known(m)
      /\ \A b \in Branch : m.at # 13 \/ b # m.name => Holds(refs[b], b)
  BY <1>1, <1>2, MoverKnows DEF Pointing, Switching
<1>4. /\ head' = head /\ (m.at \notin {12, 13} => refs' = refs)
      /\ commits' = commits \/ (m.at = 9 /\ StoreCommit(p))
  BY <1>1, <1>2, Places
<1>5. /\ m.at > 2 => m.name = h
      /\ m.at \in 4 .. 12 => m.ours = Tip(h)
      /\ m.at > 9 => m.new \in 1 .. N /\ (h \in Branch => Holds(m.new, h))
      /\ m.at > 10 => h \in Branch
  BY <1>1, <1>2, <1>3 DEF Known
<1>6. \A b \in Branch : b # m.name => refs'[b] = refs[b]
  <2>1. m.at = 12 => OpenRef(p)
    BY <1>1, <1>2, Doers
  <2>2. m.at = 13 => WriteRef(p)
    BY <1>1, <1>2, Doers
  <2>3. m.at \in {12, 13} => \A b \in Branch : b # m.name => refs'[b] = refs[b]
    BY <1>1, <1>2, <2>1, <2>2, RefsAfter
  <2> QED
    BY <1>4, <2>3
<1>7. ASSUME NEW b \in Branch, m.at \notin {12, 13} \/ b # m.name, kept' = kept
      PROVE  Holds(refs[b], b)'
  <2>1. Holds(refs[b], b)
    BY <1>3, <1>7
  <2>2. refs'[b] = refs[b]
    BY <1>4, <1>6, <1>7
  <2> QED
    BY <1>7, <2>1, <2>2, BranchHoldsStill
<1>8. CASE Ends(p) /\ m.at = 13
  <2>1. Finish(p) /\ WriteRef(p) /\ m.name = h /\ h \in Branch /\ m.new \in 1 .. N
    BY <1>1, <1>2, <1>5, <1>8, Doers DEF Ends
  <2>2. run'[p] = Idle /\ selected' = selected /\ kept' = kept \cup {<<m.new, h>>}
    BY <1>1, <1>2, <1>3, <2>1 DEF Finish
  <2>3. OnBranches'
    BY <1>3, <2>1, <2>2 DEF OnBranches
  <2>4. Target(m) = m.new /\ m.new # Nothing
    BY <1>2, <2>1 DEF Target, Nothing
  <2>5. refs'[h] = m.new
    BY <1>1, <1>2, <2>1, <2>4, RefsAfter
  <2>6. commits' = commits
    BY <1>4, <1>8
  <2>7. m.new \in Ancestors(m.new)
    <3>1. PICK cs : cs = commits
      OBVIOUS
    <3> QED
      BY <2>1, <3>1, AncestorsBelow, BelowItself DEF N
  <2>8. ASSUME NEW b \in Branch, NEW k \in kept', k[2] = b
        PROVE  k[1] \in Ancestors(refs[b])'
    <3>1. CASE b = h
      <4>1. k[1] \in Ancestors(m.new)
        BY <1>2, <1>5, <1>8, <2>1, <2>2, <2>7, <2>8, <3>1 DEF Holds
      <4> QED
        BY <2>5, <2>6, <3>1, <4>1 DEF Ancestors
    <3>2. CASE b # h
      <4>1. Holds(refs[b], b) /\ refs'[b] = refs[b] /\ k \in kept
        BY <1>3, <1>6, <2>1, <2>2, <2>8, <3>2
      <4>2. k[1] \in Ancestors(refs[b])
        BY <2>8, <4>1 DEF Holds
      <4> QED
        BY <2>6, <4>1, <4>2 DEF Ancestors
    <3> QED
      BY <3>1, <3>2
  <2>9. \A b \in Branch : Holds(refs[b], b)'
    BY <2>8 DEF Holds
  <2> QED
    BY <1>1, <1>2, <1>3, <1>4, <2>2, <2>3, <2>9, MoverKeeps
<1>9. CASE Ends(p) /\ m.at # 13
  <2>1. m.at = 10 /\ head \notin Branch /\ Finish(p)
    BY <1>1, <1>2, <1>9, Lengths DEF Ends
  <2>2. run'[p] = Idle /\ selected' = selected /\ kept' = kept
    BY <1>1, <1>2, <1>3, <2>1 DEF Finish
  <2>3. OnBranches' /\ \A b \in Branch : Holds(refs[b], b)'
    BY <1>3, <1>7, <2>1, <2>2 DEF OnBranches
  <2> QED
    BY <1>1, <1>2, <1>3, <1>4, <2>2, <2>3, MoverKeeps
<1>10. CASE \E x : Passes(p, x)
  <2>1. PICK x : Passes(p, x)
    BY <1>10
  <2>2. /\ run'[p] = x /\ x # Idle /\ Learnt(m, x) /\ Turns(m, x)
        /\ selected' = selected /\ kept' = kept
    BY <1>1, <1>2, <2>1 DEF Passes, promises
  <2>3. /\ x.program = "commit" /\ x.cmd = m.cmd /\ m.at # 13
        /\ x.at = m.at + 1 \/ (m.at = 6 /\ x.at = 9)
        /\ m.at = 10 => h \in Branch
        /\ x.name = IF m.at \in {2, 11} THEN h ELSE m.name
        /\ x.ours = IF m.at = 3 THEN Tip(m.name) ELSE m.ours
        /\ x.new = IF m.at = 9 THEN N + 1 ELSE m.new
    <3>1. /\ x.program = "commit"
          /\ x.at = m.at + 1 \/ (m.at = 6 /\ x.at = 9)
          /\ m.at = 10 => h \in Branch
      BY <1>1, <1>2, <2>2 DEF Turns
    <3>2. m.at # 13
      <4>1. m.at = 6 \/ m.at # Len(Program["commit"])
        BY <1>1, <1>2, <2>2 DEF Turns
      <4> QED
        BY <4>1, Lengths
    <3>3. /\ x.cmd = m.cmd
          /\ x.name = IF m.at \in {2, 11} THEN h ELSE m.name
          /\ x.ours = IF m.at = 3 THEN Tip(m.name) ELSE m.ours
      BY <1>1, <1>2, <2>2 DEF Learnt, NamesHead, ReadsRef
    <3>4. x.new = IF m.at = 9 THEN N + 1 ELSE m.new
      BY <1>1, <1>2, <2>2 DEF Learnt, ResolvesAgain
    <3> QED
      BY <3>1, <3>2, <3>3, <3>4
  <2>4. x.at > 2 => x.name = h
    BY <1>2, <1>5, <2>3
  <2>5. x.at \in 4 .. 12 => x.ours = Tip(h)'
    <3>1. SUFFICES ASSUME x.at \in 4 .. 12 PROVE x.ours = Tip(h)'
      OBVIOUS
    <3>2. m.at \in 3 .. 11
      BY <1>2, <2>3, <3>1
    <3>3. x.ours = Tip(h)
      BY <1>2, <1>5, <2>3, <3>2
    <3>4. refs' = refs
      BY <1>4, <3>2
    <3> QED
      BY <3>3, <3>4 DEF Tip
  <2>6. x.at > 9 => x.new \in 1 .. N' /\ (h \in Branch => Holds(x.new, h)')
    <3>1. SUFFICES ASSUME x.at > 9 PROVE x.new \in 1 .. N' /\ (h \in Branch => Holds(x.new, h)')
      OBVIOUS
    <3>2. CASE m.at = 9
      <4>1. StoreCommit(p)
        BY <1>1, <1>2, <3>2, Doers
      <4>2. N' = N + 1 /\ x.new = N + 1
        BY <2>3, <3>2, <4>1, Appended
      <4>3. ASSUME h \in Branch PROVE Holds(x.new, h)'
        <5>1. Holds(refs[h], h) /\ m.ours = refs[h]
          BY <1>2, <1>3, <1>5, <3>2, <4>3 DEF Tip
        <5> QED
          BY <1>1, <2>2, <4>1, <4>2, <4>3, <5>1, NewHolds
      <4> QED
        BY <1>2, <4>2, <4>3
    <3>3. CASE m.at # 9
      <4>1. m.at > 9 /\ commits' = commits /\ x.new = m.new
        BY <1>2, <1>4, <2>3, <3>1, <3>3
      <4>2. m.new \in 1 .. N /\ (h \in Branch => Holds(m.new, h))
        BY <1>5, <4>1
      <4>3. h \in Branch => Holds(x.new, h)'
        BY <2>2, <4>1, <4>2, HoldsStill
      <4> QED
        BY <4>1, <4>2, <4>3 DEF N
    <3> QED
      BY <3>2, <3>3
  <2>7. x.at > 10 => h \in Branch
    BY <1>2, <1>5, <2>3
  <2>8. Known(x)'
    BY <1>1, <1>4, <2>3, <2>4, <2>5, <2>6, <2>7 DEF Known
  <2>9. \A b \in Branch : Pointing(x, b) \/ Holds(refs[b], b)'
    <3> SUFFICES ASSUME NEW b \in Branch PROVE Pointing(x, b) \/ Holds(refs[b], b)'
      OBVIOUS
    <3>1. CASE m.at \notin {12, 13} \/ b # m.name
      BY <1>7, <2>2, <3>1
    <3>2. CASE m.at = 12 /\ b = m.name
      BY <1>2, <2>3, <3>2 DEF Pointing, Moved
    <3> QED
      BY <2>3, <3>1, <3>2
  <2>10. OnBranches'
    BY <1>3, <2>2 DEF OnBranches
  <2> QED
    BY <1>1, <1>2, <1>3, <1>4, <2>2, <2>8, <2>9, <2>10, MoverKeeps
<1>11. ~Stops(p)
  BY <1>1, <1>2 DEF Stops
<1> QED
  BY <1>2, <1>8, <1>9, <1>10, <1>11 DEF Proceeds

LEMMA RestKeepsCommits ==
  ASSUME Inv, Anchored, ~CommitLost, ~CommitLost', Rests
  PROVE  Anchored'
<1>1. /\ UNCHANGED <<head, refs, commits, kept, selected>>
      /\ \A p \in Proc : run'[p] = run[p] \/ Killed(p) \/ Started(p)
  BY DEF Rests, promises, pointers
<1>2. ASSUME NEW p \in Proc, run[p] # Idle, Switching(run[p]) \/ \E b \in Branch : Pointing(run[p], b)
      PROVE  run'[p] = run[p]
  <2>1. PICK m : m = run[p]
    OBVIOUS
  <2>2. ~Started(p)
    BY <1>2 DEF Started
  <2>3. m.at \in 1 .. Len(Program[m.program]) /\ m.at \in Nat
    BY <1>2, <2>1, BeforeStep
  <2>4. \/ Program[m.program][m.at] \in {"write ref", "write HEAD"}
        \/ /\ m.program = "checkout"
           /\ Program[m.program][m.at] \in {"open index", "write index"}
    <3>1. CASE m.program = "checkout" /\ Switching(m)
      <4>1. m.at \in {6, 7, 8}
        BY <2>3, <3>1, Lengths DEF Switching
      <4>2. /\ Program["checkout"][6] = "write HEAD" /\ Program["checkout"][7] = "open index"
            /\ Program["checkout"][8] = "write index"
        BY Contents
      <4> QED
        BY <3>1, <4>1, <4>2
    <3>2. CASE m.program = "init" /\ m.at = 3
      <4>1. Program["init"][3] = "write HEAD"
        BY Contents
      <4> QED
        BY <3>2, <4>1
    <3>3. CASE m.program = "commit" /\ m.at = 13
      <4>1. Program["commit"][13] = "write ref"
        BY Contents
      <4> QED
        BY <3>3, <4>1
    <3>4. CASE m.program \in {"branch", "forward"} /\ m.at = 4
      <4>1. Program["branch"][4] = "write ref" /\ Program["forward"][4] = "write ref"
        BY Contents
      <4> QED
        BY <3>4, <4>1
    <3>5. \/ m.program = "checkout" /\ Switching(m)
          \/ m.program = "init" /\ m.at = 3
          \/ m.program = "commit" /\ m.at = 13
          \/ m.program \in {"branch", "forward"} /\ m.at = 4
      BY <1>2, <2>1 DEF Switching, Pointing
    <3> QED
      BY <3>1, <3>2, <3>3, <3>4, <3>5
  <2>5. m.program = "checkout" => m.cmd = "checkout"
    BY <1>2, <2>1, Commanded DEF Commands
  <2>6. ~Killed(p)
    <3>1. CASE Program[m.program][m.at] \in {"write ref", "write HEAD"}
      BY <2>1, <3>1 DEF Killed, CommitLost, KilledAt
    <3>2. CASE /\ m.program = "checkout"
               /\ Program[m.program][m.at] \in {"open index", "write index"}
      BY <2>1, <2>5, <3>2 DEF Killed, CommitLost
    <3> QED
      BY <2>4, <3>1, <3>2
  <2> QED
    BY <1>1, <2>2, <2>6
<1>3. \A c, b : Holds(c, b) => Holds(c, b)'
  BY <1>1 DEF Holds, Ancestors
<1>4. OnBranches'
  BY <1>1 DEF Anchored, OnBranches
<1>5. \/ \E p \in Proc : run'[p] # Idle /\ Switching(run[p])'
      \/ head' = selected'
  <2>1. CASE head = selected
    BY <1>1, <2>1
  <2>2. CASE head # selected
    <3>1. PICK p \in Proc : run[p] # Idle /\ Switching(run[p])
      BY <2>2 DEF Anchored
    <3>2. run'[p] = run[p]
      BY <1>2, <3>1
    <3> QED
      BY <3>1, <3>2 DEF Switching
  <2> QED
    BY <2>1, <2>2
<1>6. ASSUME NEW b \in Branch
      PROVE  (\E p \in Proc : run'[p] # Idle /\ Pointing(run[p], b)') \/ Holds(refs[b], b)'
  <2>1. CASE Holds(refs[b], b)
    BY <1>1, <2>1 DEF Holds, Ancestors
  <2>2. CASE ~Holds(refs[b], b)
    <3>1. PICK p \in Proc : run[p] # Idle /\ Pointing(run[p], b)
      BY <2>2 DEF Anchored
    <3>2. run'[p] = run[p]
      BY <1>2, <3>1
    <3> QED
      BY <3>1, <3>2 DEF Pointing, Moved
  <2> QED
    BY <2>1, <2>2
<1>7. \A p \in Proc : run'[p] # Idle => Known(run[p])'
  <2> SUFFICES ASSUME NEW p \in Proc, run'[p] # Idle PROVE Known(run[p])'
    OBVIOUS
  <2>1. CASE run'[p] = run[p]
    <3>1. Known(run[p])
      BY <2>1 DEF Anchored
    <3>2. PICK o, h : o = run[p] /\ h = head
      OBVIOUS
    <3>3. N' = N /\ Tip(h)' = Tip(h) /\ Tip(o.arg)' = Tip(o.arg)
      BY <1>1 DEF N, Tip
    <3> QED
      BY <1>1, <1>3, <2>1, <3>1, <3>2, <3>3 DEF Known
  <2>2. CASE Started(p)
    BY <2>2 DEF Started, Known, Commands
  <2> QED
    BY <1>1, <2>1, <2>2 DEF Killed
<1> QED
  BY <1>4, <1>5, <1>6, <1>7 DEF Anchored

LEMMA CommitsHeld == Init => Anchored
<1> SUFFICES ASSUME Init PROVE Anchored
  OBVIOUS
<1>1. PICK s \in Setups :
        /\ run = [p \in Proc |-> Idle] /\ head = selected /\ refs = s.refs
        /\ kept = {k \in Ids \X Branch : k[1] \in Ancestors(s.refs[k[2]])}
  BY DEF Init
<1>2. OnBranches /\ \A b \in Branch : Holds(refs[b], b)
  BY <1>1 DEF OnBranches, Holds
<1> QED
  BY <1>1, <1>2 DEF Anchored

LEMMA HeldKeeps == Inv /\ Anchored /\ [Next]_vars => Anchored'
<1> SUFFICES ASSUME Inv, Anchored, [Next]_vars PROVE Anchored'
  OBVIOUS
<1>1. CASE CommitLost'
  BY <1>1 DEF Anchored
<1>2. CASE ~CommitLost'
  <2>1. ~CommitLost
    BY <1>2, LossesStay
  <2>2. ASSUME NEW p \in Proc, Step(p) PROVE Anchored'
    <3>1. run[p].program \in Programs
      BY <2>2, Frames, BeforeStep
    <3> QED
      BY <2>1, <2>2, <3>1, AddKeepsCommits, InitKeepsCommits, CheckoutKeepsCommits,
         BranchKeepsCommits, MergeKeepsCommits, ForwardKeepsCommits, CommitKeepsCommits
         DEF Programs, Commands
  <2>3. CASE Rests
    BY <1>2, <2>1, <2>3, RestKeepsCommits
  <2> QED
    BY <2>2, <2>3, StepsOrRests
<1> QED
  BY <1>1, <1>2

\* A commit that was reported as made stays in the history of its branch,
\* unless a command is killed between the opening and the writing of a branch or
\* of HEAD, a checkout after it moved HEAD, or two of the commands that read or
\* write those meet.
THEOREM CommitsStay == Spec => []CommitsKept
<1>1. Anchored => CommitsKept
  <2> SUFFICES ASSUME Anchored, Quiet, ~CommitLost
               PROVE  \A k \in kept : k[1] \in Ancestors(refs[k[2]])
    BY DEF CommitLost, CommitsKept
  <2>1. OnBranches /\ \A b \in Branch : Holds(refs[b], b)
    BY DEF Anchored, Quiet
  <2> QED
    BY <2>1 DEF OnBranches, Holds
<1>2. Spec => []Anchored
  BY CommitsHeld, HeldKeeps, Invariant, PTL DEF Spec
<1> QED
  BY <1>1, <1>2, PTL
=============================================================================
