# A verified model of jit

jit is a small version control system in C++ (`src/main.cpp`, `src/src/`) with the
beginnings of a server in Go (`src/remote-repository/`). This directory holds TLA+
modules translated from that code, the TLC configurations that check them on small
instances, and proofs that TLAPS checks for every value of the constants.

    tlasany JitRepo.tla                                        parse
    tlc -workers 2 -config RepoNested.cfg MCJitRepo.tla        check one instance
    tlapm JitRepoProofs.tla                                    check the proofs (also
                                                               DataLemmas, JitCrashProofs,
                                                               JitCrashPromiseProofs,
                                                               DequeProofs, DiffProofs,
                                                               JitHubProofs, JitHubReposProofs)

Paths below are relative to the repository, which is `src/` in PROJECT.json: `main.cpp`
is `src/main.cpp` and `index.h` is `src/src/index.h`.

## The system

### The command line program

Every `jit` command is a process of its own. It reads what it needs from `.jit` and the
working directory, works, and writes back. There is no daemon, no lock, and no state but
the file system's.

| Component | State | Operations | What makes it correct |
|---|---|---|---|
| Commands (`main.cpp`) | none | init, add, commit, log, diff, status, checkout, branch, merge | no reference dangles; no commit is lost; a checkout restores what was committed; a merge leaves nothing out |
| Index (`index.h`) | `.jit/index`: path to blob hash | add, save, load, writeTree, readTree | what is saved is what is loaded; the tree holds the staged files |
| References (`refs.cpp`) | `.jit/HEAD`, `.jit/refs/*`, `.jit/MERGE_HEAD` | resolve, getHead, updateHead, updateRef, updateMergeHead, clearMergeHead | HEAD leads to a commit; a branch only advances |
| Object store (`objectstore.cpp`) | `.jit/objects/*`, named by hash | store, retrieve, retrieveLog, reconstruct | every hash that is referred to is stored |
| Objects (`gitobjects.h`) | blobs, trees, commits | serialize, hash | equal hash, equal object |
| Walks of merge and log (`main.cpp:441-461`, `objectstore.cpp:114-144`) | a deque of commits | one loop each | fast-forward exactly when ours is below the other commit; log lists the history of HEAD; they end |
| Deque (`deque.h`) | a ring of slots | push and pop at both ends, grow | it is a double-ended queue |
| Diff (`diff.cpp`) and conflict markers (`main.cpp:488-514`) | rows of furthest places | diff; the marker loop | the script spells both files and is shortest; both sides can be read back from the merged text |
| HashMap, Vector (`hashmap.h`, `vector.h`) | chains; a buffer | set, get, remove, iterate | a finite map; a sequence |
| Argument parser (`argparser.cpp`) | words and callbacks | parse | one callback per command |
| Helpers (`helpers.cpp`) | none | readFile, split, pathString, repoRoot | a path has one key |

Commands use the index, the references and the object store; the index writes blobs and
trees through the object store; merge uses the deque, diff and the helpers. They meet in
the files under `.jit` only. What is hard: long sequences of legal commands, because the
index and MERGE_HEAD are shared by all branches and outlive the command that wrote them;
data structures at the point where they grow; steps inside a command between which it may
be killed, or another command may run.

### The server

| Component | State | Operations | What makes it correct |
|---|---|---|---|
| Accounts, sessions (`internal/services/auth_service.go`, `internal/api/auth_handler.go`, `internal/database/token_store.go`, `user_store.go`, `internal/middleware`) | tables `users` and `refresh tokens`; tokens held by clients | register, login, logout, refresh, authenticate | a user is created once and with a token; a logout revokes every token given out before it |
| Repositories, access (`internal/api/repo_handler.go`, `internal/database/repo_store.go`, `internal/middleware`) | tables of repositories and contributors | create, grant, revoke, list, details, remote, push, pull, and the checks before them | what is private is served and shown only to those with access; access is given and taken by owners alone, once |
| Start-up and routing (`main.go`, `internal/app`, `internal/routes`, `internal/database/database.go`) | the pool of database connections | open, migrate, serve | a connection that a request takes goes back |
| Push, pull (`internal/services/push_service.go`, `pull_service.go`) | none: empty | none | nothing to check yet |

Requests run concurrently and meet in the database. A request below a repository passes
`Autheticate`, `AuthorizePrivacy`, and then `AuthorizeEditAccess` or `AuthorizeOwnership`,
each of which may ask the database, before its handler asks it again: what was checked may
have changed. Transactions wait for each other's rows, and those that are left open keep
their connections. The remote commands of the CLI have empty callbacks, so that the program
and the server do not interact in this version of the code.

## The modules

| Module | What it is |
|---|---|
| `TreeShape` | paths, directories, the staged files that a written tree reaches, and the directories it takes for those below another |
| `MergeWalk` | merge's walk from the other commit, on the real deque, as one function of the history |
| `JitRepo` | one repository: init, add, commit, checkout, branch, merge and status over the files of `.jit` and the working directory, one command a step |
| `JitRepoClaims` | a statement of the repository's README that the commands do not keep |
| `MCJitRepo`, `MCJitRepoFlat` | small repositories for TLC |
| `History` | the abstract specification: commits, branches, HEAD and a pending merge, without files |
| `JitRepoProofs` | theorems about `JitRepo` and `WriteTree`, with their proofs |
| `JitCrash`, `MCJitCrash` | the same commands split at their file operations, with kills between any two and two processes at once; small repositories for TLC |
| `JitCrashProofs` | theorems about `JitCrash`, with their proofs: types, references, stored objects |
| `JitCrashPromiseProofs` | theorems about what kills and overlaps may cost in `JitCrash`, with their proofs |
| `Deque`, `DequeUse`, `Queue` | the operations of `deque.h`; a program that calls them; the double-ended queue they are to be |
| `CommitWalks` | the loop in which merge looks for our commit, and the one in which log lists the history, one step per iteration, on the real deque |
| `DequeProofs` | theorems about the deque and about the two walks, with their proofs |
| `DataLemmas` | lemmas that several proofs use: least numbers, strict orders of finite sets, induction over numbers and sequences, recursive functions, the elements of a sequence, the walk of merge |
| `WriteTree`, `MCWriteTree` | how a written tree nests, with the string comparison the code does; files for TLC |
| `Diff` | Myers's search and the way back, one diagonal a step, and the text merge makes of a script |
| `DiffProofs` | theorems about `Diff`, with their proofs |
| `JitHub`, `MCJitHub` | the server's accounts and sessions: concurrent requests, their transactions and connections; users for TLC |
| `JitHubRepos`, `MCJitHubRepos` | the server's repositories and access: the checks, listings, grants and revokes of concurrent requests; requests for TLC |
| `Access` | the abstract specification: access is given and taken by owners, one deed at a time |
| `JitHubProofs`, `JitHubReposProofs` | theorems about the two modules of the server, with their proofs |

`JitRepo` uses the operators of `TreeShape` and `MergeWalk`, and implements `History`;
`JitHubRepos` implements `Access`. `CommitWalks` and `DequeUse` extend `Deque`.
`CommitWalks` has the walk of merge one step per iteration; `JitRepo` and `JitCrash`, where
merge is a step among others, have it as the function `Walked` of `MergeWalk`, which does the
same rounds on the same deque and so loses the same commits. `WriteTree` and `JitRepo` share
`TreeShape`: `WriteTree` shows that the tree the code writes has the files of `Written` under
their own paths, and nothing under another path but where `Siblings` holds. `JitRepo` is about
paths of which `Siblings` does not hold, and takes `Written` for a tree's files. `JitRepo` and `JitCrash` are two
grains of the same commands: the first has long sequences of whole commands, nested
directories and damaged index files, the second what happens inside a command and between
two. `JitHub` and `JitHubRepos` have the same database and the same rules for it; they share
no table that a request of the other changes.

### JitRepo and the code

| Variable | Code |
|---|---|
| `wd` | the files of the working directory (`NoFile`: there is none) |
| `index` | `.jit/index`, a map from keys to hashes as `IndexStore` holds it |
| `blobs`, `commits` | the blobs and commits of `.jit/objects` |
| `refs`, `head`, `mergeHead` | `.jit/refs`, `.jit/HEAD`, `.jit/MERGE_HEAD` |

| Action | Code |
|---|---|
| `Init` | `init` (main.cpp:28-35) in an empty directory |
| `Add`, `AddMissing` | `add` (37-47) of a file or directory, one without files too, and of a name that is neither; with the load before and the save after |
| `Commit` | `commit` (49-80): load, writeTree, store, parents from HEAD and MERGE_HEAD, updateRef, clearMergeHead |
| `Checkout` | `checkout` (372-393): reconstruct, readTree into the index that was loaded, save, updateHead |
| `MakeBranch` | `branch` (395-408) |
| `MergeFastForward`, `MergeDivergent` | the two ways through `merge` (410-517) |
| `Status` | `status` (293-370), used by a property; it changes nothing |
| `Edit`, `Delete` | the user |

What the model keeps of the data, and what it does not:

- The hash of an object is its content. Blobs are known by their text, commits by the
  position at which they were made. What happens when two contents have one 32-bit hash,
  or two commits are equal to the second and to the letter, is not modelled.
- A tree is the map from paths to blob hashes that its nested entries spell.
- Texts end with a newline: merge ends the texts it writes with one.
- `Load` is modelled by the words it reads. `Saved` has the words of the file that save
  writes, `ReadBack` takes them by twos, as `in >> path >> hash` does. A key whose file is gone
  is written as a line of one word, and a name with a space in it as a line of three: from there
  on load takes hashes for paths. `pathString` decides by the files that exist at that moment.
  `Parts` gives the words of every key, parted by single spaces. Such a word is the name of
  another file or names nothing (`Stray`), as hashes do: no file or directory has a name that is
  a hash, or one that is a word of another name without being in `Path`.
- `Path` is finite, and no two directories of it beside each other have names of which one
  begins with the other and is longer by two characters or more (`PathAssumption`): where they
  do, files are entered in the tree a second time, which only `WriteTree` has.
- Files the user deletes or names before they exist (`Volatile`) are considered only for
  paths at the root, where the keys that come out of `Load` are known without the code of
  `std::filesystem::relative`. An assumption on the constants says so.
- The file `refs/<hash>` that a fast-forward on a detached HEAD writes is left out: resolve
  never reads it. Branches have names that are not hashes and not `HEAD`.
- A command that throws or crashes before it writes is no step. A merge in which diff
  throws on two empty files stops in the middle of its loop: the order of the loop is that
  of a hash table, so any set of the other files may have been merged before it.

What the documents of the repository say otherwise has a `claim_*` run: README.md:75-76 has the
index track the files to be committed and convert them into trees, and a commit leaves out a
file with a space in its name (index.h:52) and one below a directory that has only
sub-directories (index.h:68-81). Other behaviour that the model reproduces and a reader may find
surprising: a divergent merge does not create a file that only the other side has, which the
comment at main.cpp:485 calls incoming, since `reconstruct` of a blob writes nothing (486); a
fast-forward leaves the index as it was, so status reports the merged files as modified
(main.cpp:449-452); merge goes on with a detached HEAD, where its message "head is detached"
suggests otherwise (428-434); `checkout HEAD` makes HEAD refer to itself, after which no command
can resolve it (387); a commit made before any file was added, or after the index has lost its
files, cannot be read back (objectstore.cpp:103-104); files of `s-o` are committed as `s/o` too
where both directories have files (`WriteTree` has it); `branch` moves a branch that exists
already (main.cpp:407); checkout leaves MERGE_HEAD alone, and leaves the files of the commit it
leaves where they are (objectstore.cpp:146-164).

### JitCrash and the code

A command is a process that runs a program: a sequence of named steps, in `Program`, each of
which reads or changes one file. `run[p]` has the program of process `p`, the step it is
about to take, and the values it has read so far. `Start` begins a command where `init`
refuses or `repoRoot` finds `.jit`; `Kill` ends one between any two steps; `Edit` is the
user, between commands.

| Steps | Code |
|---|---|
| `MakeJit`, `OpenHead`, `WriteHead` | `init` (main.cpp:28-35), `updateHead` (refs.cpp) |
| `LoadIndex`, `OpenIndex`, `WriteIndex` | `load` and `save` (index.h:36-54); `save` flushes each line |
| `OpenBlob`, `ReopenBlob`, `WriteBlob`, `OpenTree`, `WriteTree` | `ObjectStore::store` (objectstore.cpp:19-24), called by add and writeTree; add stores a file a second time with the text it has read (47-51) |
| `ReadHead`, `ReadRef`, `ReadMergeHead`, `RereadMergeHead`, `ClearMergeHead`, `StoreCommit`, `IsHeadBranch`, `OpenRef`, `WriteRef` | `commit` (main.cpp:49-80), in this order |
| `ResolveOther`, `Reconstruct`, `ReadTree` | `checkout` (372-393) |
| `Walk`, `ResolveAgain`, `MergeFile`, `OpenMergeHead`, `WriteMergeHead` | `merge` (410-517): `diverge` starts again for each file of the other side |

Two processes may run `init` at once, as both look for `.jit` before either has made it: the
later one fails to make a directory, or is content to find it (refs.cpp:13-16) and goes on to
HEAD. `Walk` is the walk on the real deque (`MergeWalk`); where a commit cannot be read, or the
deque hands out a null pointer, or the other side has no file that can be retrieved, merge ends
there and has done nothing.

An `ofstream` truncates when it is opened and writes when it is flushed or closed, so that
writing a file takes two steps, between which the file is empty. What the model leaves out:
retrieving an object and `reconstruct` are one step each; a commit is stored in one step,
since nobody knows its name before; two commits never get the same name; the names of
branches have one length, so that one written over another replaces it; files are at the
root and are not deleted. Two processes that write an index of several lines at their own
positions would mix them; the setups with two processes keep to indexes of one line while
both write.

The properties speak of promises: what a command that ended had reported. `kept`, `begun`,
`staged` and `selected` record them, `killed` and `together` what went wrong, and no step
depends on any of these. So `CommitsKept` says that a commit that was reported stays on its
branch unless one of the kills, or of the pairs of commands, that it names has happened: it
shows both what these cost and that nothing else does. What it shows of the code beyond what
one expects: a checkout killed after it moved HEAD leaves the user on another branch than was
reported, with the old index, and what is committed next goes there (main.cpp:387-391); a
`branch` beside a merge can make it write an empty MERGE_HEAD or an empty branch; two
commits at once of which one ends a merge, or a commit beside a merge that writes MERGE_HEAD
again, can make a commit with an empty line for a parent, which nothing can read
(main.cpp:70-74, refs.cpp:73-80); `init` that is killed before it wrote HEAD leaves a
`.jit` that a second `init` refuses to complete, and one that is still running sets HEAD
back to the first branch after a checkout beside it; and a merge over a merge that is
pending writes the new MERGE_HEAD for its first file, so that killed on the way to the
second it has replaced the old merge and reported none (main.cpp:487-516).

### JitHub and the code

A request is a value with an operation (`op`), an account (`who`), a place (`at`) and an
answer. Its place names the call it is about to make, or the statement or commit it is about
to run inside a transaction. `users`, `stored` and `revoked` are the committed rows of the
tables; a refresh token is known by the request that made it.

| Action | Code |
|---|---|
| `Arrive` | the routes, with `Autheticate` for logout and creating repositories |
| `CheckName`, `CheckEmail` | the checks of `Register` (auth_service.go:92-123) |
| `BeginUser`, `InsertUser`, `CommitUser` | `CreateUser` (user_store.go:61-86) |
| `FindUser` | `Login` up to the password (auth_service.go:52-70) |
| `InsertToken`, `CommitToken` | `StoreRefreshToken` (token_store.go:29-50), and the answer |
| `UpdateTokens`, `CommitRevoked` | `RevokeAllTokens` (token_store.go:68-101), and the answer |
| `Refresh` | `HandleRefresh`, which stops at `GetRefreshToken` (token_store.go:52-66) |
| `CreateRepo` | `CreateRepo` (repo_store.go:81-98) |
| `FailStatement` | an INSERT or UPDATE that fails for a reason of its own, and the return without Rollback behind it (user_store.go:75-77, token_store.go:41-43, 80-82) |

PostgreSQL is external and modelled by what its documentation promises: keys are enforced,
an INSERT waits for an uncommitted row with the same key, an UPDATE sees the rows committed
before it, a transaction keeps its connection until it ends, an aborted one keeps no locks,
and there are `MaxConns` connections. `database/sql` is used without a limit of its own, so
that the first call past `MaxConns` fails and does not wait. A commit may fail because its
connection breaks, and then it may or may not have been done. Passwords and the expiry of
access tokens are left out.

What the model shows beside its properties: a refresh never succeeds, because
`GetRefreshToken` scans four columns into one variable; every call that creates a repository
fails and costs a connection; and so does a registration that loses the race for its name, or
has a full name longer than its column. So does any statement of a transaction that fails for a
reason of its own (`FailStatement`), unless it is the connection that broke: PostgreSQL may
refuse or end every statement, and the methods return its error without a rollback. When the connections are used up, every request is
answered with an error until the server is restarted.

### JitHubRepos and the code

Since `CreateRepo` always fails, the repositories are those that an operator put into the
table, and `Repo` stays as it is. A request is known by what it asks for (`req`: the
operation, who asks, and about which user, repository and target), the place where it is,
and its answer. `access` is the table `RepositoryUsers`; `shown` is what a listing has
collected; `seen` has the access that was in the table at any time since the request
arrived, and `done` the requests whose change was committed: these two are for the
properties, and no step depends on them.

| Action | Code |
|---|---|
| `Arrive` | the routes (routes.go) up to the first query; `HandleGetProfile` panics on a nil handler |
| `AuthorizePrivacy`, `AuthorizeOwnership` | the middleware of these names (middleware.go), with `GetRepoPrivacy` (repo_store.go) |
| `AuthorizeEditAccess`, with `GetRepo`, `AddRemoteRepo`, `PushOrPull` | the middleware with `GetAccessStatusOnRepo`, and the handlers behind it |
| `GetRepoSecret` | the query of that name, and the answer of `HandleAddRemoteRepo` |
| `ReposOfOwner`, `ReposOfContributor`, `ReposForVisitor` | the three queries of `GetAllReposbyUsername` |
| `Begin`, `InsertAccess`, `CommitGrant` | `GrantAccessOnRepo` |
| `Begin`, `DeleteAccess`, `CommitRevoke` | `RevokeAccessOnRepo` |
| `FailStatement` | the returns behind an INSERT or DELETE that fails (repo_store.go:334-336, 363-365), as one with a NUL in a name does |

The database is as in `JitHub`, with statements of transactions that may fail. A query outside
a transaction fails when no connection is free, and only then; a listing may also fail while it reads rows. Its first query scans the owner's name over the
repository's, so a row tells no more than its owner, privacy and description.

What the model shows: `GetAccessStatusOnRepo` scans the row it finds into a string instead of
a pointer to one, and so answers an error to everybody who was granted access
(`claim_contributors_served`); the owner never asks for a row, and is served. A grant that
fails, a revoke that fails or finds nothing, and a listing that meets a repository without a
description each cost a connection. A commit that reports an error may have happened.

## What is checked

Twelve runs. `pass` runs check properties that hold; `claim_*` runs each check one
statement of the repository's documents and find it violated.

| Run | Instance | Shows |
|---|---|---|
| `repo_nested` | files `d/x`, with two texts, and `d/e/y`, 3 commits, 1 branch and detached HEADs, no deletions; 76430 states | `TypeOK`. `BlobsStored`: every hash is stored. `SnapshotsGrow`: no file drops out of the history. `CheckoutRoundTrip`: after a checkout its files are clean, and the next commit holds them again, perhaps with others |
| `repo_flat` | files at the root, 2 branches: one file with two texts and 3 commits; or two files that come and go, with 1 commit; or two such files of which one has a space in its name; 206732 states | `HistoryClosed`: no reference dangles and parents are older than children. `StagingKept`: while the listed files exist and have no spaces in their names, no command drops one of them or lists a hash for it that is not of its text. `TipsOnlyAdvance`: a branch moves to a descendant or by `branch`, with a walk that may lose commits. `MergeRecorded`: a pending merge is ended by a commit with both parents. `HistoryImplemented`: the repository implements `History` |
| `crash` | five repositories in eight setups: none yet, for one process and for two, an empty one, two branches of which one is ahead, a merge begun, and one begun whose branch has moved since; up to 3 commands, 1 kill, 2 processes; 1179401 states | `HistoryReadable`: nothing dangles, and only a commit beside another commit or a merge has an empty parent. `CommitsKept`, `MergeKept`, `FilesKept`: what was reported as committed, begun or added stays, but for the named kills and pairs. `ObjectsWhole`: what is listed is stored, and empty only where a write was cut short |
| `deque_two` | at most 2 elements held, 4 values; 401 states | `QueueImplemented`: the ring is a double-ended queue |
| `history_walks` | all histories of 5 commits the commands can make, with any of them unreadable that can be, merge and log; 329244 states | `WalkRight`: a fast-forward never leaves ours out, and with up to one merge commit below the answer is right. `LogRight`: log lists the history of HEAD, all of it with up to one merge commit. `WalkEnds` |
| `tree_files` | all subsets of 8 files; 256 states | `TreeHoldsWritten`: a file below directories that all hold files is in the tree under its path, what is in it is staged, and under another path only where names of sibling directories begin alike |
| `diff_short` | all pairs of files of up to 4 lines over 2 texts; 12494 states | `ScriptRight`: the script spells both files, and no pairing of their equal lines leaves fewer to change. `EitherSide`: keeping one side of each marked part gives that file. `DiffEnds` |
| `hub_sessions` | 3 concurrent requests, 2 connections, accounts that clash in name or address; 109526 states | `OneAccount`: two registrations never both get a name or address. `LogoutRevokes`: a logout revokes every token given out before it. `NeverAlreadyOut`: who has an access token has a stored token. `WhoLeaks`: connections are lost only by requests that end with an error, never by a refresh nor a login of nobody. `Answered` |
| `hub_repos` | 3 concurrent requests, 2 connections, an owner, a contributor, a stranger, a private repository, one without a description and one that is not there; 371981 states | `ServedHaveAccess`, `ListedHaveAccess`: nobody is served or shown what they had no access to while they asked. `WhoLeaks`: which failures cost a connection. `AccessImplemented`: grants and revokes implement `Access`. `Answered` |
| `claim_deque` | 3 elements held | the third push overwrites the first (deque.h:27) |
| `claim_staged_committed` | files `a b` and `d/e/y`, 1 commit | a commit does not have a file that is listed (index.h:52, 68): README.md:75-76 |
| `claim_contributors_served` | as `hub_repos`, with 4 connections | a contributor gets an error where access is needed (repo_store.go:410) |

Each checked property has a mutant in its module, a plausible bug in the code it is about,
under which TLC finds it violated.

### Bounds

- `MaxCommits` (3, or 1 where files come and go) bounds the commits. Three are enough for
  two lines that part and a divergent merge of them, for a fast-forward over two commits, and for a merge commit
  (merging an older commit counts as divergent, and leaves MERGE_HEAD); the damage a deleted
  file or a name with a space does to the index needs no history.
- `Rounds` in `MergeWalk`, one round for each set of commits up to the one the walk begins with,
  is enough: `WalksEnd`, which TLC evaluates, says so of every graph of three commits in
  `MCJitRepo`, and of five in `MCJitCrash`, where no merge begins with more. The proofs need no
  more of it than that the walk meets ours only below the other commit.
- Two branches: one that HEAD is on and one that it is not. In `repo_nested` commits off
  the only branch take the place of the second.
- `crash`: each setup has a budget of commands, kills and processes. Three commands and a
  kill: a command is killed, another goes on with what it left, and a third meets that. Two
  processes, with a kill and two commands, or without one and three commands, of which two
  at a time overlap. A second merge over a begun one goes over two files, the least number
  with which it can be killed between them. A begun merge with three commands, a kill and two
  processes at once has 3.3 million states and satisfies the properties too; beside the other
  setups it takes too long to be part of the run.
- Two texts, the empty text and the marker text: what diff and merge tell apart. The
  empty text is written to one file of `repo_nested`, so that merges of two empty files
  happen.
- Paths: one below the root and one below a directory that may be without a file of its
  own; two at the root, with plain names or with the name of one a word of the other's; one.
  `MCWriteTree` has the eight paths that tell the cases of `_writeTree` apart: nesting of depth three, a missing middle, a sibling that is a prefix.
- `Size = 5` in `CommitWalks` is the least number of commits with which a merge commit can
  have a merge commit below it and ours still be missed. The histories are all those
  `commit` can make: a commit that cannot be read, wherever it comes, is the parent of the next
  one only, and a merge commit has a second parent that is not above everything made so far,
  unless merge's walk could have missed it. `WalkRight` and `LogRight` are proved for
  any number of commits.
- `MaxHeld = 2` is where the deque stops to be a queue: it grows when it is full, and
  after that its start and end are off.
- Three requests and two connections in `hub_sessions`: a registration, a login and a logout
  at once; two registrations in a transaction, of which one waits, and a third request that
  finds no connection; leaks that use up the connections. One account has an address that is
  too long, the others share an address.
- Three requests and two connections in `hub_repos`: a listing or a served request between
  whose queries a grant and a revoke are committed; two grants or two revokes of one row that
  wait for each other; leaks that use up the connections.
- `MaxLines = 4` over two texts: scripts with several conflicts, adjacent ones, ones that
  begin with insertions, and files that share nothing. `ScriptRight`, `EitherSide` and
  `TreeHoldsWritten` are proved for files of any number of lines and any finite set of paths.

### Fairness and deadlock

Commands come from a user who may stop and may be killed: the specifications of `JitRepo`,
`JitCrash`, `DequeUse` and `WriteTree` assume no fairness,
and nothing is claimed to happen eventually. `CommitWalks` and `Diff` are loops of one
process that nothing interrupts, so they have weak fairness of their next step, and their
ends are checked as liveness. In `JitHub` and `JitHubRepos` each request has weak fairness
of its own steps:
a handler runs in a goroutine that the scheduler does not starve, and the database answers
each statement; a statement that waits for another transaction is not enabled meanwhile.
`Answered` is checked under that. Clients owe nothing: a request that has not arrived may
never arrive. Deadlock is checked in `deque_two`, where the program can
always push or pop. It is off elsewhere: loops end, requests have all been answered, all
files get staged, budgets are used up, and a repository
at its bound of commits may have no step left that changes anything.

## What is proved

`JitRepoProofs` is about `JitRepo` with any paths, texts, branches and number of commits,
from the assumptions named in `JitRepo`, which TLC evaluates on every instance: a file is
not also a directory, and no directory's name begins with that of one beside it; the words of a
key are keys or name nothing; lines of the index have distinct places with the blank one first;
names of branches are not hashes.

| Theorem | Property | Argument |
|---|---|---|
| `TypeCorrect` | `TypeOK` | inductive as it stands; the work is in `LoadType`, that load always yields a map from keys, however damaged the file |
| `NothingDangles` | `HistoryClosed` | inductive with `TypeOK`: `NewParents` says what the parents of a new commit are |
| `TipsAdvance` | `TipsOnlyAdvance` | from the two above and `MetBelow`: the walk of merge meets ours only below the other commit, whatever its deque loses |
| `MergesRecorded` | `MergeRecorded` | needs `MergeInv`: while a merge is pending, HEAD leads to a commit, so that the parents are two |
| `HistoryKeepsFiles`, `HashesResolve` | `SnapshotsGrow`, `BlobsStored` | when `Volatile = {}` and no name has a space in it (`NoSpaces`). Neither is inductive: a damaged index would shrink. `FilesInv` adds that every listed file exists, so load returns what was saved (`ListedReadBack`) |
| `StagingStays` | `StagingKept` | an index of existing files under names of one word is read back as it was saved (`LoadIdentity`): its words are pairs of a key and its hash, in the order of the lines (`SavedPaired`, by induction over them), and each key is read once; then action by action |
| `CheckoutRepeats` | `CheckoutRoundTrip` | when `Volatile = {}` and `NoSpaces`, from `FilesInv`: all files of an older commit are listed, so none is left out of the next tree |
| `Implements` | `HistoryImplemented` | initial states map to initial states, and each action to the abstract one of its kind or a stutter; `StoredParents` and `SameBelow`: an added commit changes nobody's ancestors; `MetBelow` again for fast-forwards |
| `TreesRight` | `TreeHoldsWritten` | of `WriteTree`, for any set of files: see below |

The tree of a directory is made from those of the directories that `_writeTree` goes on to,
and that these calls come to an end is a fact of its own: such a directory is deeper, or as
deep with a name that begins with the one before and is longer (`Beneath`, a strict order by
`RestAssumption`), and the index lists finitely many files (`StagedFinite`). So from any part
of the directories that is closed under these calls one more can be told (`OneMoreTold`, with
`Topmost`), and in the end all (`TreesExist`). `OwnEntered` then follows a file upwards from
its directory to the root. `OnlyStaged` and `OnlySpelt` go down the order: a tree has staged files
only, and where no name begins with a sibling's (`~Siblings`), each under the path from its
directory.

`JitCrashProofs` is about `JitCrash` with any files, branches, commands and number of
processes, commits and kills, from `SetupAssumption` (a repository to begin with is whole: its
references and parents are stored commits, what it lists is stored), `CrashAssumption` and
`IdleAssumption`, which TLC evaluates on the setups of the run `crash`.

| Theorem | Property | Argument |
|---|---|---|
| `TypeCorrect` | `TypeOK` | needs `Knowing` and `Bounded`: what is written to a reference is a commit that the process has read |
| `Readability` | `HistoryReadable` | `Bounded`, and `Pending`: a commit that has found a merge finds which, unless a commit or merge beside it has emptied MERGE_HEAD, to clear it or to write it, and then the two have met |
| `Wholeness` | `ObjectsWhole` | `Stored`, and `Tearing`: every empty file is about to be written by a process, or was when its writer was killed |

The inductive invariant is about what the processes know (`True`): what one has read stays
true, whatever the others do and whoever is killed, because objects are never removed and
commits only added (`TrueStays`). So a step is analysed for the process that takes it
alone (`Becomes`), by where its program has it (`Where`), and nothing is said of pairs of
processes but that they have met (`Meeting`). Each part is needed at once: the index that is
saved was loaded when its blobs were stored (`Stored` needs `True`), and what is loaded is
stored (`True` needs `Stored`).

`JitCrashPromiseProofs` is about the same module under one more assumption on the constants,
`GrownAssumption`: in a repository to begin with, the index lists every file of every commit,
and a commit has every file of its parents. `add` and `checkout` only ever add to the index,
and a commit's tree is what it lists (`SnapshotsGrow` says it of `JitRepo`). Its theorems say of any
number of commands, processes and kills what `crash` checks with three, two and one.

| Theorem | Property | Argument |
|---|---|---|
| `Keeping` | `FilesKept` | `Filed`: whoever is about to save the index knows everything in it that is staged or committed, since nothing that saves runs beside it; a commit under way lists what its parent has |
| `MergesStay` | `MergeKept` | `Merged`: between clearing MERGE_HEAD and its report, a commit has the merge that was begun among its parents; a merge under way has read what the branch still is |
| `CommitsStay` | `CommitsKept` | `Anchored`: what was reported on a branch is below the commit in its file, or one process is between opening and writing that file and is about to write a commit that has it below; likewise for HEAD and what was reported as checked out |

Each of the three invariants reads "a named kill or meeting has happened, or", and then says
of the one process that may touch the file where it is between two steps and what it knows.
`SaversAlone`, `MergersAlone` and `MoversAlone` turn a meeting that has not happened into the
fact that no second process of the kind is under way; `LossesStay` says that what has
happened stays so. `Proceeding` says for every program and place how a process goes on, and
`StepsOrRests` that whatever else happens leaves the repository as it is. `HistoryGrows`
carries `Ancestors` over the steps that add commits.

`DequeProofs` is about the deque, and about the two loops that use
it, with any elements and histories of any number of commits (`UseAssumption`,
`WalkAssumption`). It begins with what each operation leaves of a ring.

| Theorem | Property | Argument |
|---|---|---|
| `Implements` | `QueueImplemented` | if `MaxHeld <= 2`: the ring never grows past its first two slots (`NeverGrown`), and there each push and pop is one of the queue. The hypothesis is where the code stops being right: `claim_deque` shows it is not a queue with 3 |
| `WalksRight` | `WalkRight` | what is in the deque is below the other commit (`Inside`), whatever was lost. With one merge commit below it, `Fits`: two places are enough, since once the deque holds two no merge commit is left to be found; and `Seeking`: until merge answers, ours is below something that it has still to visit |
| `LogsRight` | `LogRight` | `Listing`: the parents of what is listed are listed or still to be visited, as long as the deque is small. A deque that grew counts two elements more than lie before its end (`Overwritten`): by the time log has taken those it believes that two are left, takes a slot that was never written, and crashes before it could call an incomplete list complete |

The invariant of the walks is `WalkInv`. `Fits` and `Seeking` depend on each other through
the deque being a queue, `Fits` on `TheMerge` and `PlainParents` (a merge commit has none
below its parents if it is the only one), and `Seeking` on `Through`: what is below a commit
is that commit or is below one of its parents.

`DiffProofs` is about `Diff` with files of any number of lines (`BoundAssumption`). That a
script is shortest is said without scripts: the two files pair equal lines in their order
(`Alignments`), a pairing of c lines leaves `max - 2 * c` lines to change, and no pairing
leaves fewer than the script changes. A marker is taken for one where a text is read, so the
last theorem has the hypothesis that no line of the files is a marker; without it the text
that merge writes can be read in two ways.

| Theorem | Property | Argument |
|---|---|---|
| `ScriptsRight` | `ScriptRight` | `DiffInv`, below |
| `DiffBounded` | none of a run's | the rounds do not run out before a script is found (`RoundsSuffice`), and every step takes from a number fixed by the sizes of the files (`StepsLeft`): the part of `DiffEnds` that needs no fairness |
| `SidesKept` | `EitherSide` | by induction over the script: what has been written and what has been read of it agree on the side that is on and on both texts so far (`Agrees`); moving the marker turns the side (`TurnedTo`) and adds nothing to either |

The inductive invariant `DiffInv` says of every round r that is over: each place in its row
can be reached with r changed lines (`Sound`), no place that can be reached lies beyond the row
(`Furthest`), and no diagonal of it has both files used up (`Open`). The round under way has
done this to the diagonals before k and left the rest of the row as the round before left it
(`Partly`), which matters because both rounds share one array and read each other's diagonals.
`FarFurthest` is the heart of the algorithm: a pairing that reaches a place with r changed
lines gives up its last pair or its last changed line, and so comes from a place that round
r - 1 has in its row. `Fewest` turns `Open` rounds into a lower bound of every pairing. On the
way back the script spells what lies behind the place that has been reached (`Spells`), and
changes a line for each round gone through (`Returning`); `Before` finds, from the rows alone,
by which line the search came.

`JitHubProofs` is about `JitHub` with any requests, accounts and connections.

| Theorem | Property | Argument |
|---|---|---|
| `TypeCorrect` | `TypeOK` | needs that what a logout has marked is stored (`Revoking`), since it is revoked at the commit |
| `NamesTakenOnce` | `OneAccount` | `Distinct`: rows that are committed, and rows in transactions that are about to be, do not clash. The checks of `Register` play no part in it: the keys do it alone |
| `LogoutsRevoke` | `LogoutRevokes` | `Revoking`: what a logout was given is stored for its user before it arrives, and is among the rows it has marked when it commits |
| `NobodyAlreadyOut` | `NeverAlreadyOut` | from the same: at least one token of the user is stored |
| `OnlyFailuresLeak` | `WhoLeaks` | `Placed`: where a request of each kind can be, and that it keeps its connection only when it is done, with an error; `Found`: a login that goes on is of a user who is registered |

The inductive invariant is the conjunction of `TypeOK`, `Placed`, `Distinct`, `Revoking`, `Found`
and the last three properties. None of these is inductive alone: each is made true at one step
by what other requests left in the tables at earlier ones.

`JitHubReposProofs` is about `JitHubRepos` with any requests, users, repositories and
connections, from `MenuAssumption` (who asks is registered) and `GrantedAssumption` (the table is
one of users and repositories).

| Theorem | Property | Argument |
|---|---|---|
| `TypeCorrect` | `TypeOK` | needs that whoever is about to commit a grant grants to a user who exists |
| `ServedHadAccess` | `ServedHaveAccess` | `Placed`: who is behind the check of ownership is the owner, although the check is earlier. `GetAccessStatusOnRepo` lets no one else through |
| `ListedHadAccess` | `ListedHaveAccess` | `Placed`: what is in the table now was seen by every request under way; `Listing`: what the first two queries brought |
| `OnlyFailuresLeak` | `WhoLeaks` | per request, from `Placed`: who is at a statement of a grant or revoke has passed the check of ownership |
| `Implements` | `AccessImplemented` | `Alone`: a grant about to be committed is the only one of its row, which is not in the table; a revoke is the only one of a row that is. So a commit that is done is one `Give` or `Take`, and every other step a stutter |

The invariant is one of each request (`Good`) and of pairs (`Alone`). A step is analysed
once by what it does to the tables (`Tables`) and once by where it takes its request
(`ServeMoves`); that the other requests stay good follows from these two alone.

Every invariant and every action property of the passing runs is proved, and so are the
refinements. Only model-checked is liveness (`WalkEnds`, `DiffEnds`, `Answered`): it rests on
fairness and ENABLED, which are beyond the proof system. Of `DiffEnds` the rest is proved
(`DiffBounded`).

Induction takes two forms in these proofs. The library's theorems on induction and on
recursive definitions take a predicate or an operator as a parameter, which the provers cannot
instantiate. `DataLemmas` states them with sets and functions in that place: `Induction` and
`SeqInduction` speak of the set of those a statement holds of, `Recursion` gives a function
that goes on from each number to the next as a function h says, and `SameRecursion` says there
is one. A recursive definition is unfolded by showing that such a function exists (`Picks`,
`ReadsOnSteps`, `WritesOnSteps`, `TreesExist`), and then the one chosen is such a function.

In `JitRepo` the walk of merge is the recursive function in `Walked`, on the deque that loses
commits. `WalkedBelow` in `DataLemmas` proves of it, by induction over its rounds, that whatever
is in the deque is below the other commit or was never written; so a fast-forward has ours below
(`MetBelow` in `JitRepoProofs`), which is all that `TipsAdvance` and `Implements` need. `WalksRight`
says the same of the loop in `CommitWalks`, and more.

## What is not modelled

- `HashMap` and `Vector`: single-threaded containers that the models use as finite maps and
  sequences. No caller depends on the order of a map, but for merge, whose order is left open.
- The argument parser and the command `diff`, which change nothing: one finds a
  callback, the other prints what `Diff` computes. The wording of messages and help.
- A current directory below the root, and deletions of files in nested directories together:
  keys then depend on the code of `std::filesystem::relative`.
- Hashes that collide, and the format of objects as text.
- The remote commands, and the services of push and pull, which are empty.
- `DeleteUser`, `RevokeToken`, `GetRepoByUsername` and `GetAllContributors`, which no route
  reaches; configuration, migrations and the expiry of tokens.

`PROJECT.json` lists every component and, under `hazards`, every place that is hard to test,
with the properties that cover it or the reason why none does.
