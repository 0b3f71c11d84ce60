----------------------------- MODULE GitRepository -----------------------------
(***************************************************************************)
(* A git repository read while it changes (GitRepository, crates/diff/git): *)
(* a snapshot is put together from many git commands and file reads, then   *)
(* everything is read again and the snapshot is taken only if nothing       *)
(* moved; meanwhile a reviewer's actions run their git commands and files   *)
(* are edited.                                                              *)
(*                                                                         *)
(* A command of git reads HEAD and the index at one moment and the files    *)
(* one after another.  A file is its content.  Renames, modes, binary and   *)
(* large files and the list of commits are left out, and so are snapshots   *)
(* of a commit, which never changes; actions name one path.  The last       *)
(* readings (a map of paths) are in the order of the paths.                 *)
(***************************************************************************)
EXTENDS Integers, Sequences, FiniteSets

CONSTANTS
  Contents, Absent,  \* of files; a file that is not there
  Unavailable,       \* a side of a file that could not be looked for
  PathCount,         \* paths are 1 to PathCount
  Beginnings,        \* repositories to begin with
  Actions,           \* actions of reviewers (RepositoryAction)
  Scopes,            \* the scopes that are loaded
  MaxTries,          \* tries before a load gives up: two for each of its retries
  MaxLoads,          \* bound: loads
  MaxFailures,       \* bound: readings that fail by themselves
  MaxDisturbances    \* bound: edits, actions and those failures

Paths == 1..PathCount
PossibleScopes == {"Unstaged", "Staged", "Both"}
ActionKinds == {"StagePaths", "UnstagePaths", "StageAll", "UnstageAll", "Commit", "Discard"}
Statuses == {"Added", "Deleted", "Modified", "Untracked"}

Tree == [Paths -> Contents \cup {Absent}]
Repository == [born: BOOLEAN, head: Tree, index: Tree, worktree: Tree]
Empty == [p \in Paths |-> Absent]

ASSUME ConstantsAssumption ==
  /\ Absent \notin Contents /\ Unavailable \notin Contents \cup {Absent} /\ PathCount \in Nat /\ MaxTries \in Nat \ {0}
  /\ MaxLoads \in Nat /\ MaxFailures \in Nat /\ MaxDisturbances \in Nat
  /\ Scopes \subseteq PossibleScopes
  /\ Beginnings \subseteq {r \in Repository : r.born \/ r.head = Empty}
  /\ Actions \subseteq [kind: ActionKinds, path: Paths, status: Statuses]

VARIABLES
  repository,  \* HEAD, and whether there is one; the index; the worktree
  load,        \* the load that runs
  snapshot,    \* what the last load returned
  operation,   \* the action that runs
  bounds       \* how many loads, changes and failures there were

vars == <<repository, load, snapshot, operation, bounds>>

-----------------------------------------------------------------------------
(* What a load reads, in its order.                                         *)

Whats == {"head", "diff", "diffed", "status", "stat", "listing", "untracked", "tree", "index", "captured", "matched"}
Unread == [what \in Whats |-> [p \in 0..PathCount |-> Absent]]

Once(round, what) == <<[round |-> round, what |-> what, path |-> 0]>>
Each(round, what) == [p \in Paths |-> [round |-> round, what |-> what, path |-> p]]
If(needed, reads) == IF needed THEN reads ELSE <<>>

\* load_snapshot_input and resolve_content_locations.
InputReads(round, scope) ==
  If(scope # "Unstaged", Once(round, "head"))
  \o Once(round, "diff") \o If(scope # "Staged", Each(round, "diffed"))
  \o Once(round, "status") \o Each(round, "stat")
  \o If(scope # "Staged", Once(round, "listing") \o Each(round, "untracked"))
  \o If(scope # "Unstaged", Once(round, "tree")) \o If(scope # "Both", Once(round, "index"))

Inputs ==
  [scope \in PossibleScopes |->
     InputReads("initial", scope) \o If(scope # "Staged", Each("initial", "captured")) \o InputReads("final", scope)]

Reads == [scope \in PossibleScopes |-> Inputs[scope] \o If(scope # "Staged", Each("final", "matched"))]

Found(read, r) ==
  CASE read.what = "head" -> r.born
    [] read.what \in {"diff", "status"} -> [head |-> r.head, index |-> r.index]
    [] read.what = "listing" -> {p \in Paths : r.index[p] = Absent /\ r.worktree[p] # Absent}
    [] read.what = "tree" -> r.head
    [] read.what = "index" -> r.index
    [] OTHER -> r.worktree[read.path]

-----------------------------------------------------------------------------
(* The document made of what was read.                                      *)

\* A column of the status, and what a diff says of a file.
Column(old, new) ==
  CASE old = new -> "None"
    [] old # new /\ old = Absent -> "Added"
    [] old # new /\ new = Absent -> "Deleted"
    [] OTHER -> "Modified"

Old(scope, s, p) ==
  IF scope = "Unstaged" THEN s["diff"][0].index[p] ELSE IF s["head"][0] THEN s["diff"][0].head[p] ELSE Absent

\* A file that is not in the index is not compared with the worktree.
New(scope, s, p) ==
  IF scope = "Staged" \/ s["diff"][0].index[p] = Absent THEN s["diff"][0].index[p] ELSE s["diffed"][p]

IndexColumn(s, p) == Column(s["status"][0].head[p], s["status"][0].index[p])
WorktreeColumn(s, p) == IF s["status"][0].index[p] = Absent THEN "None" ELSE Column(s["status"][0].index[p], s["stat"][p])
IsUntracked(s, p) == s["status"][0].index[p] = Absent /\ s["stat"][p] # Absent

Relevant(s, p) ==
  CASE WorktreeColumn(s, p) # "None" -> WorktreeColumn(s, p)
    [] WorktreeColumn(s, p) = "None" /\ IndexColumn(s, p) # "None" -> IndexColumn(s, p)
    [] OTHER -> IF IsUntracked(s, p) THEN "Untracked" ELSE "None"

\* from_git_outputs_with_untracked: the status says more of a file that the diff calls modified.
NoFile == [status |-> "None"]
Status(scope, s, p) ==
  LET column == Column(Old(scope, s, p), New(scope, s, p))
  IN IF column = "Modified" /\ Relevant(s, p) # "None" THEN Relevant(s, p) ELSE column

File(scope, s, p) ==
  CASE Status(scope, s, p) # "None" ->
         [status |-> Status(scope, s, p), patch |-> <<Old(scope, s, p), New(scope, s, p)>>]
    [] Status(scope, s, p) = "None" /\ scope # "Staged" /\ p \in s["listing"][0] ->
         [status |-> "Untracked", patch |-> <<Absent, s["untracked"][p]>>]
    [] OTHER -> NoFile

HasOld(file) == file.status \notin {"Added", "Untracked", "None"}
HasNew(file) == file.status \notin {"Deleted", "None"}

\* Where a side of a file is to be found: a blob is found by its content.
InWorktree(scope, s, p) == scope # "Staged" /\ HasNew(File(scope, s, p))
OldLocation(scope, s, p) ==
  CASE ~HasOld(File(scope, s, p)) -> Absent
    [] HasOld(File(scope, s, p)) /\ scope = "Unstaged" -> s["index"][0][p]
    [] OTHER -> IF s["head"][0] THEN s["tree"][0][p] ELSE Absent
NewLocation(scope, s, p) ==
  IF scope = "Staged" /\ HasNew(File(scope, s, p)) THEN s["index"][0][p] ELSE Absent

\* with_sources: the patch is that of the captured sides, and the diff's own when a side the file
\* has could not be read.
Captured(scope, s, p) ==
  LET file == File(scope, s, p)
      old == OldLocation(scope, s, p)
      new == IF InWorktree(scope, s, p) THEN s["captured"][p] ELSE NewLocation(scope, s, p)
      unread == (HasOld(file) /\ old \in {Absent, Unavailable}) \/ (HasNew(file) /\ new \in {Absent, Unavailable})
  IN IF file = NoFile \/ unread THEN file ELSE [file EXCEPT !.patch = <<old, new>>]

\* The parts that two readings must agree on.
SameDocument(scope, s, t) ==
  \A p \in Paths :
    /\ Old(scope, s, p) = Old(scope, t, p) /\ New(scope, s, p) = New(scope, t, p)
    /\ IndexColumn(s, p) = IndexColumn(t, p) /\ WorktreeColumn(s, p) = WorktreeColumn(t, p)
    /\ IsUntracked(s, p) = IsUntracked(t, p)
    /\ File(scope, s, p) = File(scope, t, p)
SameLocations(scope, s, t) ==
  \A p \in Paths :
    /\ OldLocation(scope, s, p) = OldLocation(scope, t, p)
    /\ NewLocation(scope, s, p) = NewLocation(scope, t, p)
MetadataStable(scope, s, t) == s["head"] = t["head"] /\ SameDocument(scope, s, t) /\ SameLocations(scope, s, t)

\* worktrees_match, of a file it has read.  Mutant: a file is compared only where it is gone.
GoneSince(scope, s, t, p) == InWorktree(scope, s, p) /\ s["captured"][p] # Absent /\ t["matched"][p] = Absent
Mismatch(scope, s, t, p) == InWorktree(scope, s, p) /\ s["captured"][p] # Absent /\ t["matched"][p] # s["captured"][p]

-----------------------------------------------------------------------------
(* Loading a snapshot.                                                      *)

\* History: the states the repository was in during this try, how often it changed during it and
\* during the load, how many readings did without an answer in them, and the tries that failed.
NewTry(l) == [l EXCEPT !.at = 1, !.seen = [round \in {"initial", "final"} |-> Unread],
                       !.moments = {repository}, !.changed = 0, !.missed = 0]
NotLoading ==
  [scope |-> "None", at |-> 1, seen |-> [round \in {"initial", "final"} |-> Unread],
   moments |-> {}, changed |-> 0, altered |-> 0, missed |-> 0, lost |-> 0, failed |-> 0]

NoSnapshot == [outcome |-> "none"]

Init ==
  /\ repository \in Beginnings
  /\ load = NotLoading
  /\ snapshot = NoSnapshot
  /\ operation = [commands |-> <<>>, outcome |-> "none", disturbed |-> FALSE]
  /\ bounds = [loads |-> 0, changes |-> 0, failures |-> 0]

Loading == load.scope # "None"
First == load.seen["initial"]
Second == load.seen["final"]
AllRead(reads) == load.at > Len(reads)

Moved ==
  \/ AllRead(Inputs[load.scope]) /\ ~MetadataStable(load.scope, First, Second)
  \/ \E p \in Paths :
       /\ load.at > Len(Inputs[load.scope]) + p
       /\ Mismatch(load.scope, First, Second, p)

\* A file was listed as untracked and is gone when it is read.
LastRead == Reads[load.scope][load.at - 1]
Gone ==
  /\ load.at > 1
  /\ LastRead.what = "untracked"
  /\ LastRead.path \in load.seen[LastRead.round]["listing"][0]
  /\ load.seen[LastRead.round]["untracked"][LastRead.path] = Absent

Load(scope) ==
  /\ ~Loading /\ bounds.loads < MaxLoads
  /\ load' = NewTry([NotLoading EXCEPT !.scope = scope])
  /\ bounds' = [bounds EXCEPT !.loads = @ + 1]
  /\ UNCHANGED <<repository, snapshot, operation>>

NextRead == Reads[load.scope][load.at]
Reading == Loading /\ ~AllRead(Reads[load.scope]) /\ ~Moved /\ ~Gone
ReadOn(read, value) == [load EXCEPT !.at = @ + 1, !.seen[read.round][read.what][read.path] = value]

Read ==
  /\ Reading
  /\ load' = ReadOn(NextRead, Found(NextRead, repository))
  /\ UNCHANGED <<repository, snapshot, operation, bounds>>

\* Whether there is anything to read: sides are looked for and captured of the files a document has.
Asked(read) ==
  LET s == load.seen[read.round]
      some == \E p \in Paths : File(load.scope, s, p) # NoFile
  IN CASE read.what = "untracked" -> read.path \in s["listing"][0]
       [] read.what = "tree" -> s["head"][0] /\ some
       [] read.what = "index" -> some
       [] read.what = "captured" -> InWorktree(load.scope, First, read.path)
       [] read.what = "matched" -> InWorktree(load.scope, First, read.path) /\ First["captured"][read.path] # Absent
       [] OTHER -> TRUE

MayDisturb == bounds.changes + bounds.failures < MaxDisturbances
Failure == bounds.failures < MaxFailures /\ MayDisturb /\ bounds' = [bounds EXCEPT !.failures = @ + 1]

\* A load does without the blobs and the texts that it cannot have.
Dispensable == {"tree", "index", "captured", "matched"}
Nothing(read) == IF read.what \in {"tree", "index"} THEN [p \in Paths |-> Unavailable] ELSE Absent

ReadMisses ==
  /\ Failure /\ Reading /\ NextRead.what \in Dispensable /\ Asked(NextRead)
  /\ load' = [ReadOn(NextRead, Nothing(NextRead)) EXCEPT !.missed = @ + 1, !.lost = @ + 1]
  /\ UNCHANGED <<repository, snapshot, operation>>

Return(returned) ==
  /\ snapshot' = returned /\ load' = NotLoading
  /\ UNCHANGED <<repository, operation>>

\* Another try reads everything anew.  Mutant: the metadata of the first try is kept.
KeepFirst == [load EXCEPT !.at = Len(InputReads("initial", load.scope)) + 1,
                          !.moments = {repository}, !.changed = 0, !.missed = 0]
Again == NewTry(load)
TryFails ==
  /\ Loading /\ Moved
  /\ IF load.failed + 1 < MaxTries
     THEN load' = [Again EXCEPT !.failed = @ + 1] /\ UNCHANGED <<repository, snapshot, operation>>
     ELSE Return([outcome |-> "unstable", altered |-> load.altered, lost |-> load.lost])
  /\ UNCHANGED bounds

Error(cause) == [outcome |-> "error", cause |-> cause, altered |-> load.altered]

\* A listed file cannot be read any more.
ReadFails == Loading /\ Gone /\ Return(Error("gone")) /\ UNCHANGED bounds

\* The command that reads blobs is started before the first side is captured.
Starting ==
  /\ NextRead.what = "captured" /\ NextRead.path = 1
  /\ \E p \in Paths : OldLocation(load.scope, First, p) \notin {Absent, Unavailable}

\* A command of git fails, or prints what cannot be parsed (a path or a line that is not UTF-8), or a
\* listed file cannot be read; also the commands after all readings, which ask for the commits.
CommandFails ==
  /\ Failure /\ Loading /\ ~Moved /\ ~Gone
  /\ ~AllRead(Reads[load.scope]) => Starting \/ (NextRead.what \notin Dispensable /\ Asked(NextRead))
  /\ Return(Error("failure"))

Succeed ==
  /\ Loading /\ AllRead(Reads[load.scope]) /\ ~Moved
  /\ UNCHANGED bounds
  /\ Return([outcome |-> "snapshot", scope |-> load.scope, moments |-> load.moments, changed |-> load.changed,
             missed |-> load.missed,
             files |-> [p \in Paths |-> Captured(load.scope, First, p)]])

-----------------------------------------------------------------------------
(* Changes.                                                                 *)

Becomes(r) ==
  /\ repository' = r
  /\ load' = IF ~Loading \/ r = repository THEN load
             ELSE [load EXCEPT !.moments = @ \cup {r}, !.changed = @ + 1, !.altered = @ + 1]

Change == MayDisturb /\ bounds' = [bounds EXCEPT !.changes = @ + 1]

\* Someone writes or removes a file.
Edit ==
  /\ Change
  /\ \E p \in Paths, content \in Contents \cup {Absent} :
       /\ content # repository.worktree[p]
       /\ Becomes([repository EXCEPT !.worktree[p] = content])
  /\ operation' = [operation EXCEPT !.disturbed = operation.commands # <<>>]
  /\ UNCHANGED snapshot

\* GitRepository::apply: the commands an action begins with.
Begun(action) ==
  CASE action.kind = "StagePaths" -> <<"tracked">>
    [] action.kind \in {"UnstagePaths", "UnstageAll"} -> <<"has head">>
    [] action.kind = "StageAll" -> <<"add all">>
    [] action.kind = "Commit" -> <<"commit">>
    [] action.kind = "Discard" -> IF action.status = "Untracked" THEN <<"clean">> ELSE <<"has head">>

Apply(action) ==
  /\ operation.commands = <<>> /\ Change
  /\ operation' = [action |-> action, before |-> repository, commands |-> Begun(action),
                   outcome |-> "running", disturbed |-> FALSE]
  /\ UNCHANGED <<repository, load, snapshot>>

\* Discarding in a repository without HEAD.  Mutant: the file is cleaned while it is still tracked.
CleanFirst == <<"clean", "rm">>
RemoveFirst == <<"rm", "clean">>

\* What is left to do after a command.
Fail == <<"fail">>
Decided(command, rest, action, r) ==
  CASE command = "tracked" -> IF r.index[action.path] # Absent THEN <<"add">> ELSE <<"exists">>
    [] command = "exists" -> IF r.worktree[action.path] # Absent THEN <<"add">> ELSE <<>>
    [] command = "has head" /\ action.kind = "UnstagePaths" -> IF r.born THEN <<"reset">> ELSE <<"rm">>
    [] command = "has head" /\ action.kind = "UnstageAll" -> IF r.born THEN <<"reset all">> ELSE <<"rm all">>
    [] command = "has head" /\ action.kind = "Discard" ->
         IF r.born THEN <<"restore">> ELSE IF action.status = "Added" THEN RemoveFirst ELSE Fail
    [] OTHER -> rest

\* Commands of git that change the repository, and when they refuse to.
Refused(command, p, r) ==
  CASE command = "add" -> r.index[p] = Absent /\ r.worktree[p] = Absent
    [] command = "commit" -> r.index = r.head
    [] command = "restore" -> r.index[p] = Absent /\ r.head[p] = Absent
    [] OTHER -> FALSE

Ran(command, p, r) ==
  CASE command = "add" -> [r EXCEPT !.index[p] = r.worktree[p]]
    [] command = "add all" -> [r EXCEPT !.index = r.worktree]
    [] command \in {"reset", "rm"} -> [r EXCEPT !.index[p] = r.head[p]]
    [] command \in {"reset all", "rm all"} -> [r EXCEPT !.index = r.head]
    [] command = "commit" -> [r EXCEPT !.head = r.index, !.born = TRUE]
    [] command = "clean" -> IF r.index[p] = Absent THEN [r EXCEPT !.worktree[p] = Absent] ELSE r
    [] command = "restore" -> [r EXCEPT !.index[p] = r.head[p], !.worktree[p] = r.head[p]]
    [] OTHER -> r

Run ==
  /\ operation.commands # <<>>
  /\ LET command == Head(operation.commands)
         p == operation.action.path
         left == IF Refused(command, p, repository) THEN Fail
                 ELSE Decided(command, Tail(operation.commands), operation.action, repository)
     IN /\ operation' = [operation EXCEPT
               !.commands = IF left = Fail THEN <<>> ELSE left,
               !.outcome = CASE left = Fail -> "failed" [] left = <<>> -> "done" [] OTHER -> "running"]
        /\ Becomes(IF left = Fail THEN repository ELSE Ran(command, p, repository))
  /\ UNCHANGED <<snapshot, bounds>>

-----------------------------------------------------------------------------

Stop == ~Loading /\ operation.commands = <<>> /\ UNCHANGED vars

Next ==
  \/ \E scope \in Scopes : Load(scope)
  \/ Read \/ ReadMisses \/ TryFails \/ ReadFails \/ CommandFails \/ Succeed
  \/ Edit \/ (\E action \in Actions : Apply(action)) \/ Run
  \/ Stop

Spec == Init /\ [][Next]_vars

-----------------------------------------------------------------------------
(* What a repository has to show, said without the commands that find it.   *)

\* The two sides of a file: a file that was taken out of the index is deleted for the scope that
\* compares with HEAD, although it is still there.
Sides(scope, r, p) ==
  LET worktree == IF scope = "Both" /\ r.index[p] = Absent /\ r.head[p] # Absent THEN Absent ELSE r.worktree[p]
  IN <<IF scope = "Unstaged" THEN r.index[p] ELSE r.head[p], IF scope = "Staged" THEN r.index[p] ELSE worktree>>
Changed(scope, r, p) == Sides(scope, r, p)[1] # Sides(scope, r, p)[2]

ShowsAs(file, scope, r, p) ==
  IF Changed(scope, r, p) THEN file # NoFile /\ file.patch = Sides(scope, r, p) ELSE file = NoFile

\* A staged change of a file whose worktree copy is deleted is shown as a deletion: its status
\* takes the worktree's column, and a deleted file has no new side.
DeletedBehindItsIndex(scope, r, p) ==
  scope = "Staged" /\ Absent \notin {r.head[p], r.index[p]} /\ r.worktree[p] = Absent

\* A snapshot that changed less than three times while it was read shows, of every file, the two
\* sides it had at one and the same moment: reading everything twice, and a file that is captured
\* a third time, misses no such change and no change back.  (Three changes can put a file back
\* before each reading of it, and a side that could not be read leaves the diff's patch.)
SnapshotIsOfOneMoment ==
  snapshot.outcome = "snapshot" /\ snapshot.changed < 3 /\ snapshot.missed = 0 =>
    \E r \in snapshot.moments : \A p \in Paths :
      \/ ShowsAs(snapshot.files[p], snapshot.scope, r, p)
      \/ DeletedBehindItsIndex(snapshot.scope, r, p)

\* A load gives up only when each of its tries met a change of its own or a reading that it did
\* without: a repository at rest that can be read is loaded at the first try, and what disturbed one
\* try does not disturb the next.  A listed file is gone only because of a change; any other error
\* at once is of a command or a file that failed by itself.
OnlyChangesFailLoads ==
  /\ snapshot.outcome = "unstable" => snapshot.altered + snapshot.lost >= MaxTries
  /\ snapshot.outcome = "error" => snapshot.cause = "failure" \/ snapshot.altered > 0

\* The status a repository shows of a file, and what an action promises when nobody else changes
\* the repository under it.
ShownAs(status, scope, r, p) ==
  /\ Changed(scope, r, p)
  /\ status = CASE r.index[p] = Absent /\ Sides(scope, r, p)[1] = Absent -> "Untracked"
              [] Sides(scope, r, p)[2] = Absent -> "Deleted"
              [] Sides(scope, r, p)[1] = Absent -> "Added"
              [] OTHER -> "Modified"

TookEffect(action, before, new) ==
  CASE action.kind = "StagePaths" -> ~Changed("Unstaged", new, action.path)
    [] action.kind = "UnstagePaths" -> ~Changed("Staged", new, action.path)
    [] action.kind = "StageAll" -> \A p \in Paths : ~Changed("Unstaged", new, p)
    [] action.kind \in {"UnstageAll", "Commit"} -> \A p \in Paths : ~Changed("Staged", new, p)
    [] action.kind = "Discard" ->
         \A scope \in PossibleScopes :
           ShownAs(action.status, scope, before, action.path) => ~Changed(scope, new, action.path)

\* An action that succeeds while nobody edits did what it is for: what was staged is no longer
\* shown unstaged, what was unstaged or committed no longer staged, and a change that is discarded
\* with the status a scope shows of it is gone from that scope; with and without a first commit,
\* for files that are new, deleted or changed twice.
ActionsTakeEffect ==
  [][operation.outcome = "running" /\ operation'.outcome = "done" /\ ~operation.disturbed =>
       TookEffect(operation.action, operation.before, repository')]_vars
=============================================================================
