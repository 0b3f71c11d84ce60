------------------------ MODULE GitRepositoryProofs ------------------------
(***************************************************************************)
(* What GitRepository promises, for any number of files, contents, changes, *)
(* loads and tries: that an undisturbed action takes effect, that a load    *)
(* fails only because of changes or of what cannot be read, and that a      *)
(* snapshot shows one moment of the repository.                             *)
(***************************************************************************)
EXTENDS GitRepository, SequenceTheorems, TLAPS

-----------------------------------------------------------------------------
(* The repository and the actions on it.                                    *)

\* A repository without a first commit has nothing in its HEAD.
RepositoryOK(r) == r \in Repository /\ (r.born \/ r.head = Empty)

LEMMA TreeTypes ==
  ASSUME NEW r, RepositoryOK(r)
  PROVE  /\ DOMAIN r = {"born", "head", "index", "worktree"} /\ r.born \in BOOLEAN
         /\ r.head \in Tree /\ r.index \in Tree /\ r.worktree \in Tree
         /\ Empty \in Tree /\ \A p \in Paths : Empty[p] = Absent /\ (~r.born => r.head[p] = Absent)
BY DEF RepositoryOK, Repository, Empty, Tree

\* The commands of git keep a repository one.
LEMMA RanStep ==
  ASSUME NEW r, RepositoryOK(r), NEW p \in Paths, NEW command
  PROVE  RepositoryOK(Ran(command, p, r))
<1> DEFINE t == Ran(command, p, r)
<1>0. /\ DOMAIN r = {"born", "head", "index", "worktree"} /\ r.born \in BOOLEAN
      /\ r.head \in Tree /\ r.index \in Tree /\ r.worktree \in Tree
      /\ r = [born |-> r.born, head |-> r.head, index |-> r.index, worktree |-> r.worktree]
  BY TreeTypes DEF RepositoryOK, Repository
<1>1. r.worktree[p] \in Contents \cup {Absent} /\ r.head[p] \in Contents \cup {Absent}
  BY <1>0 DEF Tree
<1>2. \A tree \in Tree, content \in Contents \cup {Absent} : [tree EXCEPT ![p] = content] \in Tree
  BY DEF Tree
<1>3. \A index \in Tree, worktree \in Tree, head \in Tree :
        RepositoryOK([r EXCEPT !.index = index]) /\ RepositoryOK([r EXCEPT !.worktree = worktree])
        /\ RepositoryOK([r EXCEPT !.index = index, !.worktree = worktree])
        /\ RepositoryOK([r EXCEPT !.head = head, !.born = TRUE])
  BY <1>0 DEF RepositoryOK, Repository
<1>4. /\ [r EXCEPT !.index[p] = r.worktree[p]] = [r EXCEPT !.index = [r.index EXCEPT ![p] = r.worktree[p]]]
      /\ [r EXCEPT !.index[p] = r.head[p]] = [r EXCEPT !.index = [r.index EXCEPT ![p] = r.head[p]]]
      /\ [r EXCEPT !.worktree[p] = Absent] = [r EXCEPT !.worktree = [r.worktree EXCEPT ![p] = Absent]]
      /\ [r EXCEPT !.index[p] = r.head[p], !.worktree[p] = r.head[p]]
           = [r EXCEPT !.index = [r.index EXCEPT ![p] = r.head[p]], !.worktree = [r.worktree EXCEPT ![p] = r.head[p]]]
  BY <1>0
<1> QED BY <1>0, <1>1, <1>2, <1>3, <1>4 DEF Ran

\* What is left of an action's commands, at any time.
Stages(action) ==
  CASE action.kind = "StagePaths" -> {<<"tracked">>, <<"exists">>, <<"add">>}
    [] action.kind = "UnstagePaths" -> {<<"has head">>, <<"reset">>, <<"rm">>}
    [] action.kind = "UnstageAll" -> {<<"has head">>, <<"reset all">>, <<"rm all">>}
    [] action.kind = "StageAll" -> {<<"add all">>}
    [] action.kind = "Commit" -> {<<"commit">>}
    [] action.kind = "Discard" -> {<<"clean">>, <<"has head">>, <<"restore">>, RemoveFirst}

\* What the commands that ran have found or made of the repository, when nobody else changed it.
Underway(action, before, commands, r) ==
  /\ commands = <<"exists">> => r.index[action.path] = Absent
  /\ commands = RemoveFirst => action.status = "Added" /\ ~r.born
  /\ IF commands = <<"clean">> /\ action.status # "Untracked"
     THEN r.index[action.path] = Absent /\ r.head[action.path] = Absent
     ELSE r = before

\* What is left after a command, and that it keeps what the commands are on the way to.
Left(commands, action, r) ==
  IF Refused(Head(commands), action.path, r) THEN Fail ELSE Decided(Head(commands), Tail(commands), action, r)

Proceeds(action, before, commands, r, left, new) ==
  /\ left \in Stages(action) \cup {Fail, <<>>}
  /\ left # Fail /\ Underway(action, before, commands, r) =>
       /\ left # <<>> => Underway(action, before, left, new)
       /\ left = <<>> => TookEffect(action, before, new)

\* Lists of commands differ where their commands do.
LEMMA CommandLists ==
  /\ \A c : Head(<<c>>) = c /\ Tail(<<c>>) = <<>> /\ <<c>> # <<>> /\ <<c>> # RemoveFirst
  /\ \A c, d : <<c>> = <<d>> => c = d
  /\ Fail = <<"fail">> /\ Head(RemoveFirst) = "rm" /\ Tail(RemoveFirst) = <<"clean">> /\ RemoveFirst # <<>>
<1>1. ASSUME NEW c
      PROVE  Head(<<c>>) = c /\ Tail(<<c>>) = <<>> /\ <<c>> # <<>> /\ <<c>> # RemoveFirst /\ \A d : <<c>> = <<d>> => c = d
  BY DEF RemoveFirst
<1>2. Head(RemoveFirst) = "rm" /\ Tail(RemoveFirst) = <<"clean">> /\ RemoveFirst # <<>>
  BY DEF RemoveFirst
<1> QED BY <1>1, <1>2 DEF Fail

\* What a command leaves of the file it is for.
LEMMA RanAdd ==
  ASSUME NEW r, RepositoryOK(r), NEW p \in Paths
  PROVE  Ran("add", p, r).index[p] = Ran("add", p, r).worktree[p]
<1>1. DOMAIN r = {"born", "head", "index", "worktree"} /\ p \in DOMAIN r.index
  BY TreeTypes DEF Tree
<1>2. Ran("add", p, r) = [r EXCEPT !.index[p] = r.worktree[p]]
  BY DEF Ran
<1> QED BY <1>1, <1>2

LEMMA RanAddAll ==
  ASSUME NEW r, RepositoryOK(r), NEW p \in Paths
  PROVE  Ran("add all", p, r).index = Ran("add all", p, r).worktree
<1>1. DOMAIN r = {"born", "head", "index", "worktree"}
  BY TreeTypes
<1>2. Ran("add all", p, r) = [r EXCEPT !.index = r.worktree]
  BY DEF Ran
<1> QED BY <1>1, <1>2

LEMMA RanReset ==
  ASSUME NEW r, RepositoryOK(r), NEW p \in Paths, NEW command \in {"reset", "rm"}
  PROVE  Ran(command, p, r).index[p] = r.head[p] /\ Ran(command, p, r).head = r.head
<1>1. DOMAIN r = {"born", "head", "index", "worktree"} /\ p \in DOMAIN r.index
  BY TreeTypes DEF Tree
<1>2. Ran(command, p, r) = [r EXCEPT !.index[p] = r.head[p]]
  BY DEF Ran
<1> QED BY <1>1, <1>2

LEMMA RanResetAll ==
  ASSUME NEW r, RepositoryOK(r), NEW p \in Paths, NEW command \in {"reset all", "rm all", "commit"}
  PROVE  Ran(command, p, r).index = Ran(command, p, r).head
<1>1. DOMAIN r = {"born", "head", "index", "worktree"}
  BY TreeTypes
<1>2. Ran(command, p, r) \in {[r EXCEPT !.index = r.head], [r EXCEPT !.head = r.index, !.born = TRUE]}
  BY DEF Ran
<1> QED BY <1>1, <1>2

LEMMA RanClean ==
  ASSUME NEW r, RepositoryOK(r), NEW p \in Paths
  PROVE  /\ Ran("clean", p, r).index = r.index /\ Ran("clean", p, r).head = r.head
         /\ r.index[p] = Absent => Ran("clean", p, r).worktree[p] = Absent
<1>1. DOMAIN r = {"born", "head", "index", "worktree"} /\ p \in DOMAIN r.worktree
  BY TreeTypes DEF Tree
<1>2. Ran("clean", p, r) = IF r.index[p] = Absent THEN [r EXCEPT !.worktree[p] = Absent] ELSE r
  BY DEF Ran
<1> QED BY <1>1, <1>2

LEMMA RanRestore ==
  ASSUME NEW r, RepositoryOK(r), NEW p \in Paths
  PROVE  /\ Ran("restore", p, r).index[p] = r.head[p] /\ Ran("restore", p, r).worktree[p] = r.head[p]
         /\ Ran("restore", p, r).head = r.head
<1>1. /\ DOMAIN r = {"born", "head", "index", "worktree"}
      /\ p \in DOMAIN r.index /\ p \in DOMAIN r.worktree
  BY TreeTypes DEF Tree
<1>2. Ran("restore", p, r) = [r EXCEPT !.index[p] = r.head[p], !.worktree[p] = r.head[p]]
  BY DEF Ran
<1> QED BY <1>1, <1>2

LEMMA RanNothing ==
  ASSUME NEW r, NEW p, NEW command \in {"tracked", "exists", "has head"}
  PROVE  Ran(command, p, r) = r
BY DEF Ran

LEMMA StagePathsStep ==
  ASSUME NEW action \in Actions, action.kind = "StagePaths", NEW before, NEW r, RepositoryOK(r),
         NEW commands \in Stages(action)
  PROVE  Proceeds(action, before, commands, r, Left(commands, action, r), Ran(Head(commands), action.path, r))
<1> DEFINE p == action.path
           left == Left(commands, action, r)
           new == Ran(Head(commands), p, r)
<1>0. p \in Paths
  BY ConstantsAssumption DEF ConstantsAssumption
<1>1. commands \in {<<"tracked">>, <<"exists">>, <<"add">>} /\ {<<"tracked">>, <<"exists">>, <<"add">>} = Stages(action)
  BY DEF Stages
<1>2. CASE commands = <<"tracked">>
  <2>1. new = r /\ left = IF r.index[p] # Absent THEN <<"add">> ELSE <<"exists">>
    <3>1. Head(commands) = "tracked" /\ Tail(commands) = <<>>
      BY <1>2, CommandLists
    <3>2. new = r
      BY <1>0, <3>1, RanNothing
    <3>3. left = IF r.index[p] # Absent THEN <<"add">> ELSE <<"exists">>
      BY <3>1 DEF Left, Refused, Decided
    <3> QED BY <3>2, <3>3
  <2> QED BY <1>1, <1>2, <2>1, CommandLists DEF Underway, Proceeds
<1>3. CASE commands = <<"exists">>
  <2>1. new = r /\ left = IF r.worktree[p] # Absent THEN <<"add">> ELSE <<>>
    <3>1. Head(commands) = "exists" /\ Tail(commands) = <<>>
      BY <1>3, CommandLists
    <3>2. new = r
      BY <1>0, <3>1, RanNothing
    <3>3. left = IF r.worktree[p] # Absent THEN <<"add">> ELSE <<>>
      BY <3>1 DEF Left, Refused, Decided
    <3> QED BY <3>2, <3>3
  <2>2. r.index[p] = Absent /\ r.worktree[p] = Absent => TookEffect(action, before, r)
    BY DEF TookEffect, Changed, Sides
  <2> QED BY <1>1, <1>3, <2>1, <2>2, CommandLists DEF Underway, Proceeds
<1>4. CASE commands = <<"add">>
  <2>1. new.index[p] = new.worktree[p] /\ left \in {Fail, <<>>}
    <3>1. Head(commands) = "add" /\ Tail(commands) = <<>>
      BY <1>4, CommandLists
    <3>2. new.index[p] = new.worktree[p]
      BY <1>0, <3>1, RanAdd
    <3>3. left \in {Fail, <<>>}
      BY <3>1 DEF Left, Refused, Decided
    <3> QED BY <3>2, <3>3
  <2>2. TookEffect(action, before, new)
    BY <2>1 DEF TookEffect, Changed, Sides
  <2> QED BY <2>1, <2>2 DEF Proceeds
<1> QED BY <1>1, <1>2, <1>3, <1>4

LEMMA UnstagePathsStep ==
  ASSUME NEW action \in Actions, action.kind = "UnstagePaths", NEW before, NEW r, RepositoryOK(r),
         NEW commands \in Stages(action)
  PROVE  Proceeds(action, before, commands, r, Left(commands, action, r), Ran(Head(commands), action.path, r))
<1> DEFINE p == action.path
           left == Left(commands, action, r)
           new == Ran(Head(commands), p, r)
<1>0. p \in Paths
  BY ConstantsAssumption DEF ConstantsAssumption
<1>1. commands \in {<<"has head">>, <<"reset">>, <<"rm">>} /\ {<<"has head">>, <<"reset">>, <<"rm">>} = Stages(action)
  BY DEF Stages
<1>2. CASE commands = <<"has head">>
  <2>1. new = r /\ left = IF r.born THEN <<"reset">> ELSE <<"rm">>
    <3>1. Head(commands) = "has head" /\ Tail(commands) = <<>>
      BY <1>2, CommandLists
    <3>2. new = r
      BY <1>0, <3>1, RanNothing
    <3>3. left = IF r.born THEN <<"reset">> ELSE <<"rm">>
      BY <3>1 DEF Left, Refused, Decided
    <3> QED BY <3>2, <3>3
  <2> QED BY <1>1, <1>2, <2>1, CommandLists DEF Underway, Proceeds
<1>3. CASE commands \in {<<"reset">>, <<"rm">>}
  <2>1. Head(commands) \in {"reset", "rm"} /\ Tail(commands) = <<>>
    BY <1>3, CommandLists
  <2>2. new.index[p] = r.head[p] /\ new.head = r.head /\ left \in {Fail, <<>>}
    <3>2. new.index[p] = r.head[p] /\ new.head = r.head
      BY <1>0, <2>1, RanReset
    <3>3. left \in {Fail, <<>>}
      BY <2>1 DEF Left, Refused, Decided
    <3> QED BY <3>2, <3>3
  <2>3. TookEffect(action, before, new)
    BY <2>2 DEF TookEffect, Changed, Sides
  <2> QED BY <2>2, <2>3 DEF Proceeds
<1> QED BY <1>1, <1>2, <1>3

LEMMA UnstageAllStep ==
  ASSUME NEW action \in Actions, action.kind = "UnstageAll", NEW before, NEW r, RepositoryOK(r),
         NEW commands \in Stages(action)
  PROVE  Proceeds(action, before, commands, r, Left(commands, action, r), Ran(Head(commands), action.path, r))
<1> DEFINE p == action.path
           left == Left(commands, action, r)
           new == Ran(Head(commands), p, r)
<1>0. p \in Paths
  BY ConstantsAssumption DEF ConstantsAssumption
<1>1. /\ commands \in {<<"has head">>, <<"reset all">>, <<"rm all">>}
      /\ {<<"has head">>, <<"reset all">>, <<"rm all">>} = Stages(action)
  BY DEF Stages
<1>2. CASE commands = <<"has head">>
  <2>1. new = r /\ left = IF r.born THEN <<"reset all">> ELSE <<"rm all">>
    <3>1. Head(commands) = "has head" /\ Tail(commands) = <<>>
      BY <1>2, CommandLists
    <3>2. new = r
      BY <1>0, <3>1, RanNothing
    <3>3. left = IF r.born THEN <<"reset all">> ELSE <<"rm all">>
      BY <3>1 DEF Left, Refused, Decided
    <3> QED BY <3>2, <3>3
  <2> QED BY <1>1, <1>2, <2>1, CommandLists DEF Underway, Proceeds
<1>3. CASE commands \in {<<"reset all">>, <<"rm all">>}
  <2>1. Head(commands) \in {"reset all", "rm all"} /\ Tail(commands) = <<>>
    BY <1>3, CommandLists
  <2>2. new.index = new.head /\ left \in {Fail, <<>>}
    <3>2. new.index = new.head
      BY <1>0, <2>1, RanResetAll
    <3>3. left \in {Fail, <<>>}
      BY <2>1 DEF Left, Refused, Decided
    <3> QED BY <3>2, <3>3
  <2>3. TookEffect(action, before, new)
    BY <2>2 DEF TookEffect, Changed, Sides
  <2> QED BY <2>2, <2>3 DEF Proceeds
<1> QED BY <1>1, <1>2, <1>3

LEMMA StageAllStep ==
  ASSUME NEW action \in Actions, action.kind \in {"StageAll", "Commit"}, NEW before, NEW r, RepositoryOK(r),
         NEW commands \in Stages(action)
  PROVE  Proceeds(action, before, commands, r, Left(commands, action, r), Ran(Head(commands), action.path, r))
<1> DEFINE p == action.path
           left == Left(commands, action, r)
           new == Ran(Head(commands), p, r)
<1>0. p \in Paths
  BY ConstantsAssumption DEF ConstantsAssumption
<1>1. CASE action.kind = "StageAll"
  <2>1. Head(commands) = "add all" /\ Tail(commands) = <<>>
    BY <1>1, CommandLists DEF Stages
  <2>2. new.index = new.worktree /\ left \in {Fail, <<>>}
    <3>2. new.index = new.worktree
      BY <1>0, <2>1, RanAddAll
    <3>3. left \in {Fail, <<>>}
      BY <2>1 DEF Left, Refused, Decided
    <3> QED BY <3>2, <3>3
  <2>3. TookEffect(action, before, new)
    BY <1>1, <2>2 DEF TookEffect, Changed, Sides
  <2> QED BY <2>2, <2>3 DEF Proceeds
<1>2. CASE action.kind = "Commit"
  <2>1. Head(commands) = "commit" /\ Tail(commands) = <<>>
    BY <1>2, CommandLists DEF Stages
  <2>2. new.index = new.head /\ left \in {Fail, <<>>}
    <3>2. new.index = new.head
      BY <1>0, <2>1, RanResetAll
    <3>3. left \in {Fail, <<>>}
      BY <2>1 DEF Left, Refused, Decided
    <3> QED BY <3>2, <3>3
  <2>3. TookEffect(action, before, new)
    BY <1>2, <2>2 DEF TookEffect, Changed, Sides
  <2> QED BY <2>2, <2>3 DEF Proceeds
<1> QED BY <1>1, <1>2

\* A discarded change is gone from every scope that shows it with the status it is discarded with.
LEMMA DiscardStep ==
  ASSUME NEW action \in Actions, action.kind = "Discard", NEW before, NEW r, RepositoryOK(r),
         NEW commands \in Stages(action)
  PROVE  Proceeds(action, before, commands, r, Left(commands, action, r), Ran(Head(commands), action.path, r))
<1> DEFINE p == action.path
           left == Left(commands, action, r)
           new == Ran(Head(commands), p, r)
<1>0. p \in Paths /\ (~r.born => r.head[p] = Absent)
  BY TreeTypes, ConstantsAssumption DEF ConstantsAssumption
<1>1. /\ commands \in {<<"clean">>, <<"has head">>, <<"restore">>, RemoveFirst}
      /\ {<<"clean">>, <<"has head">>, <<"restore">>, RemoveFirst} = Stages(action)
  BY DEF Stages
<1>2. CASE commands = <<"clean">>
  <2>1. new.index = r.index /\ new.head = r.head /\ (r.index[p] = Absent => new.worktree[p] = Absent) /\ left = <<>>
    <3>1. Head(commands) = "clean" /\ Tail(commands) = <<>>
      BY <1>2, CommandLists
    <3>2. new.index = r.index /\ new.head = r.head /\ (r.index[p] = Absent => new.worktree[p] = Absent)
      BY <1>0, <3>1, RanClean
    <3>3. left = <<>>
      BY <3>1 DEF Left, Refused, Decided
    <3> QED BY <3>2, <3>3
  <2>2. ASSUME Underway(action, before, commands, r)
        PROVE  TookEffect(action, before, new)
    <3>1. CASE action.status # "Untracked"
      <4>1. new.index[p] = Absent /\ new.head[p] = Absent /\ new.worktree[p] = Absent
        BY <1>2, <2>1, <2>2, <3>1 DEF Underway
      <4>2. \A scope \in PossibleScopes : ~Changed(scope, new, p)
        BY <4>1 DEF Changed, Sides
      <4> QED BY <4>2 DEF TookEffect
    <3>2. CASE action.status = "Untracked"
      <4>1. r = before
        BY <1>2, <2>2, <3>2 DEF Underway
      <4>2. ASSUME NEW scope \in PossibleScopes, ShownAs("Untracked", scope, r, p)
            PROVE  ~Changed(scope, new, p)
        <5>1. r.index[p] = Absent /\ Sides(scope, r, p)[1] = Absent
          BY <4>2 DEF ShownAs
        <5>2. scope = "Unstaged" \/ r.head[p] = Absent
          BY <5>1 DEF Sides
        <5>3. new.index[p] = Absent /\ new.worktree[p] = Absent /\ (scope = "Unstaged" \/ new.head[p] = Absent)
          BY <2>1, <5>1, <5>2
        <5> QED BY <5>3 DEF Changed, Sides
      <4> QED BY <3>2, <4>1, <4>2 DEF TookEffect
    <3> QED BY <3>1, <3>2
  <2> QED BY <2>1, <2>2 DEF Proceeds
<1>3. CASE commands = <<"has head">>
  <2>1. new = r /\ left = IF r.born THEN <<"restore">> ELSE IF action.status = "Added" THEN RemoveFirst ELSE Fail
    <3>1. Head(commands) = "has head" /\ Tail(commands) = <<>>
      BY <1>3, CommandLists
    <3>2. new = r
      BY <1>0, <3>1, RanNothing
    <3>3. left = IF r.born THEN <<"restore">> ELSE IF action.status = "Added" THEN RemoveFirst ELSE Fail
      BY <3>1 DEF Left, Refused, Decided
    <3> QED BY <3>2, <3>3
  <2>2. <<"has head">> # <<"clean">> /\ <<"restore">> # <<"clean">> /\ <<"restore">> # <<"exists">>
        /\ RemoveFirst # <<"clean">> /\ RemoveFirst # <<"exists">> /\ <<"restore">> # RemoveFirst
        /\ <<"restore">> # <<>> /\ RemoveFirst # <<>>
    BY CommandLists
  <2>3. left \in Stages(action) \cup {Fail}
    BY <1>1, <2>1
  <2>4. Underway(action, before, commands, r) => r = before
    BY <1>3, <2>2 DEF Underway
  <2>5. ASSUME r = before, left # Fail
        PROVE  Underway(action, before, left, r)
    BY <2>1, <2>2, <2>5 DEF Underway
  <2>6. left # <<>> \/ left = Fail
    BY <2>1, <2>2
  <2> QED BY <2>1, <2>3, <2>4, <2>5, <2>6, CommandLists DEF Proceeds
<1>4. CASE commands = <<"restore">>
  <2>1. new.index[p] = r.head[p] /\ new.worktree[p] = r.head[p] /\ new.head = r.head /\ left \in {Fail, <<>>}
    <3>1. Head(commands) = "restore" /\ Tail(commands) = <<>>
      BY <1>4, CommandLists
    <3>2. new.index[p] = r.head[p] /\ new.worktree[p] = r.head[p] /\ new.head = r.head
      BY <1>0, <3>1, RanRestore
    <3>3. left \in {Fail, <<>>}
      BY <3>1 DEF Left, Refused, Decided
    <3> QED BY <3>2, <3>3
  <2>2. \A scope \in PossibleScopes : ~Changed(scope, new, p)
    BY <2>1 DEF Changed, Sides
  <2>3. TookEffect(action, before, new)
    BY <2>2 DEF TookEffect
  <2> QED BY <2>1, <2>3 DEF Proceeds
<1>5. CASE commands = RemoveFirst
  <2>1. Head(commands) = "rm" /\ Tail(commands) = <<"clean">>
    BY <1>5, CommandLists
  <2>2. new.index[p] = r.head[p] /\ new.head = r.head /\ left = <<"clean">>
    <3>2. new.index[p] = r.head[p] /\ new.head = r.head
      BY <1>0, <2>1, RanReset
    <3>3. left = <<"clean">>
      BY <2>1 DEF Left, Refused, Decided
    <3> QED BY <3>2, <3>3
  <2>3. <<"clean">> # <<"exists">> /\ <<"clean">> # RemoveFirst /\ <<"clean">> # <<>>
    BY CommandLists
  <2>4. ASSUME Underway(action, before, commands, r)
        PROVE  Underway(action, before, left, new)
    <3>1. action.status = "Added" /\ ~r.born
      BY <1>5, <2>4 DEF Underway
    <3> QED BY <1>0, <2>2, <2>3, <3>1 DEF Underway
  <2> QED BY <1>1, <2>2, <2>3, <2>4 DEF Proceeds
<1> QED BY <1>1, <1>2, <1>3, <1>4, <1>5

LEMMA CommandStep ==
  ASSUME NEW action \in Actions, NEW before, NEW r, RepositoryOK(r), NEW commands \in Stages(action)
  PROVE  Proceeds(action, before, commands, r, Left(commands, action, r), Ran(Head(commands), action.path, r))
<1>1. action.kind \in ActionKinds
  BY ConstantsAssumption DEF ConstantsAssumption
<1> QED BY <1>1, StagePathsStep, UnstagePathsStep, UnstageAllStep, StageAllStep, DiscardStep DEF ActionKinds

\* The commands of the action that runs, and what they have come to while nobody disturbed them.
OperationInv ==
  /\ RepositoryOK(repository)
  /\ {"commands", "outcome", "disturbed"} \subseteq DOMAIN operation
  /\ operation.outcome = "running" => operation.commands # <<>>
  /\ operation.commands # <<>> =>
       /\ DOMAIN operation = {"action", "before", "commands", "outcome", "disturbed"}
       /\ operation.action \in Actions /\ operation.commands \in Stages(operation.action)
       /\ ~operation.disturbed => Underway(operation.action, operation.before, operation.commands, repository)

LEMMA OperationInit == Init => OperationInv
<1>1. SUFFICES ASSUME Init PROVE OperationInv
  OBVIOUS
<1>2. RepositoryOK(repository)
  BY <1>1, ConstantsAssumption DEF Init, ConstantsAssumption, RepositoryOK
<1>3. operation = [commands |-> <<>>, outcome |-> "none", disturbed |-> FALSE]
  BY <1>1 DEF Init
<1> QED BY <1>2, <1>3 DEF OperationInv

LEMMA BegunStages ==
  ASSUME NEW action \in Actions, NEW r
  PROVE  /\ Begun(action) \in Stages(action) /\ Begun(action) # <<>>
         /\ Underway(action, r, Begun(action), r)
<1>1. action.kind \in ActionKinds
  BY ConstantsAssumption DEF ConstantsAssumption
<1>2. /\ Begun(action) \in {<<"tracked">>, <<"has head">>, <<"add all">>, <<"commit">>, <<"clean">>}
      /\ Begun(action) = <<"clean">> => action.status = "Untracked"
  BY <1>1, CommandLists DEF Begun, ActionKinds
<1>3. Begun(action) # <<>> /\ Begun(action) # <<"exists">> /\ Begun(action) # RemoveFirst
  BY <1>2, CommandLists
<1>4. Begun(action) \in Stages(action)
  BY <1>1 DEF Begun, Stages, ActionKinds
<1> QED BY <1>2, <1>3, <1>4 DEF Underway

LEMMA EditOperation ==
  ASSUME OperationInv, Edit
  PROVE  OperationInv'
<1> DEFINE disturbed == operation.commands # <<>>
<1>1. operation' = [operation EXCEPT !.disturbed = disturbed]
  BY DEF Edit
<1>2. PICK p \in Paths, content \in Contents \cup {Absent} : repository' = [repository EXCEPT !.worktree[p] = content]
  BY DEF Edit, Becomes
<1>3. RepositoryOK(repository')
  <2>1. /\ DOMAIN repository = {"born", "head", "index", "worktree"} /\ repository.born \in BOOLEAN
        /\ repository.head \in Tree /\ repository.index \in Tree /\ repository.worktree \in Tree
        /\ repository.born \/ repository.head = Empty
    BY TreeTypes DEF OperationInv, RepositoryOK
  <2>2. [repository.worktree EXCEPT ![p] = content] \in Tree
    BY <2>1 DEF Tree
  <2>3. repository' = [born |-> repository.born, head |-> repository.head, index |-> repository.index,
                       worktree |-> [repository.worktree EXCEPT ![p] = content]]
    <3>1. repository \in Repository
      BY DEF OperationInv, RepositoryOK
    <3> QED BY <1>2, <3>1 DEF Repository
  <2> QED BY <2>1, <2>2, <2>3 DEF RepositoryOK, Repository
<1>4. DOMAIN operation' = DOMAIN operation
  BY <1>1
<1>5. operation'.commands = operation.commands /\ operation'.outcome = operation.outcome
      /\ operation'.disturbed = disturbed
  BY <1>1 DEF OperationInv
<1>6. operation.commands # <<>> => operation'.action = operation.action /\ operation'.before = operation.before
  BY <1>1 DEF OperationInv
<1> QED BY <1>3, <1>4, <1>5, <1>6 DEF OperationInv

LEMMA ApplyOperation ==
  ASSUME OperationInv, NEW action \in Actions, Apply(action)
  PROVE  OperationInv'
<1>1. operation' = [action |-> action, before |-> repository, commands |-> Begun(action),
                    outcome |-> "running", disturbed |-> FALSE]
  BY DEF Apply
<1>2. /\ DOMAIN operation' = {"action", "before", "commands", "outcome", "disturbed"}
      /\ operation'.action = action /\ operation'.before = repository /\ operation'.commands = Begun(action)
  BY <1>1
<1>3. repository' = repository
  BY DEF Apply
<1> QED BY <1>2, <1>3, BegunStages DEF OperationInv

\* A command that runs, said with what it leaves to do.
LEMMA RunStep ==
  ASSUME OperationInv, Run
  PROVE  LET left == Left(operation.commands, operation.action, repository)
             new == Ran(Head(operation.commands), operation.action.path, repository)
         IN /\ DOMAIN operation' = DOMAIN operation
            /\ operation'.action = operation.action /\ operation'.before = operation.before
            /\ operation'.disturbed = operation.disturbed
            /\ operation'.commands = IF left = Fail THEN <<>> ELSE left
            /\ operation'.outcome =
                 IF left = Fail THEN "failed" ELSE IF left = <<>> THEN "done" ELSE "running"
            /\ repository' = IF left = Fail THEN repository ELSE new
<1> DEFINE left == Left(operation.commands, operation.action, repository)
           commands == IF left = Fail THEN <<>> ELSE left
           outcome == CASE left = Fail -> "failed" [] left = <<>> -> "done" [] OTHER -> "running"
<1>1. operation.commands # <<>>
  BY DEF Run
<1>2. DOMAIN operation = {"action", "before", "commands", "outcome", "disturbed"}
  BY <1>1 DEF OperationInv
<1>3. operation' = [operation EXCEPT !.commands = commands, !.outcome = outcome]
  BY DEF Run, Left
<1>4. /\ DOMAIN operation' = DOMAIN operation
      /\ operation'.action = operation.action /\ operation'.before = operation.before
      /\ operation'.disturbed = operation.disturbed
      /\ operation'.commands = commands /\ operation'.outcome = outcome
  <2> HIDE DEF commands, outcome
  <2> QED BY <1>2, <1>3
<1>5. left = Fail => left # <<>>
  BY CommandLists
<1>6. outcome = IF left = Fail THEN "failed" ELSE IF left = <<>> THEN "done" ELSE "running"
  <2> HIDE DEF left
  <2> QED BY <1>5
<1>7. repository' = IF left = Fail THEN repository
                    ELSE Ran(Head(operation.commands), operation.action.path, repository)
  BY DEF Run, Left, Becomes
<1> QED BY <1>4, <1>6, <1>7

LEMMA RunOperation ==
  ASSUME OperationInv, Run
  PROVE  /\ OperationInv'
         /\ operation'.outcome = "done" /\ ~operation.disturbed =>
              TookEffect(operation.action, operation.before, repository')
<1> DEFINE left == Left(operation.commands, operation.action, repository)
           new == Ran(Head(operation.commands), operation.action.path, repository)
<1>1. /\ operation.commands # <<>> /\ operation.action \in Actions /\ operation.commands \in Stages(operation.action)
      /\ ~operation.disturbed => Underway(operation.action, operation.before, operation.commands, repository)
      /\ RepositoryOK(repository)
      /\ DOMAIN operation = {"action", "before", "commands", "outcome", "disturbed"}
  BY DEF OperationInv, Run
<1>2. operation.action.path \in Paths
  BY <1>1, ConstantsAssumption DEF ConstantsAssumption
<1>3. Proceeds(operation.action, operation.before, operation.commands, repository, left, new)
  BY <1>1, CommandStep
<1>4. RepositoryOK(new)
  BY <1>1, <1>2, RanStep
<1>5. /\ DOMAIN operation' = DOMAIN operation
      /\ operation'.action = operation.action /\ operation'.before = operation.before
      /\ operation'.disturbed = operation.disturbed
      /\ operation'.commands = IF left = Fail THEN <<>> ELSE left
      /\ operation'.outcome = IF left = Fail THEN "failed" ELSE IF left = <<>> THEN "done" ELSE "running"
      /\ repository' = IF left = Fail THEN repository ELSE new
  BY RunStep
<1> HIDE DEF left, new
<1>6. RepositoryOK(repository')
  BY <1>1, <1>4, <1>5
<1>7. CASE left = Fail
  BY <1>1, <1>5, <1>6, <1>7 DEF OperationInv
<1>8. CASE left = <<>> /\ left # Fail
  <2>1. operation'.commands = <<>> /\ operation'.outcome = "done"
    BY <1>5, <1>8
  <2>2. OperationInv'
    BY <1>1, <1>5, <1>6, <2>1 DEF OperationInv
  <2>3. ~operation.disturbed => TookEffect(operation.action, operation.before, repository')
    BY <1>1, <1>3, <1>5, <1>8 DEF Proceeds
  <2> QED BY <2>2, <2>3
<1>9. CASE left # <<>> /\ left # Fail
  <2>1. operation'.commands = left /\ operation'.outcome = "running"
    BY <1>5, <1>9
  <2>2. left \in Stages(operation.action)
        /\ (~operation.disturbed => Underway(operation.action, operation.before, left, new))
    BY <1>1, <1>3, <1>9 DEF Proceeds
  <2>3. OperationInv'
    BY <1>1, <1>5, <1>6, <1>9, <2>1, <2>2 DEF OperationInv
  <2> QED BY <2>1, <2>3
<1> QED BY <1>7, <1>8, <1>9

\* The steps of a load leave the repository and the action alone.
LEMMA LoadLeavesOperation ==
  ASSUME (\E scope \in Scopes : Load(scope)) \/ Read \/ ReadMisses \/ TryFails \/ ReadFails \/ CommandFails
         \/ Succeed \/ Stop \/ UNCHANGED vars
  PROVE  UNCHANGED <<repository, operation>>
BY DEF Load, Read, ReadMisses, TryFails, ReadFails, CommandFails, Succeed, Stop, Return, vars

LEMMA OperationStep ==
  ASSUME OperationInv, [Next]_vars
  PROVE  /\ OperationInv'
         /\ operation.outcome = "running" /\ operation'.outcome = "done" /\ ~operation.disturbed =>
              TookEffect(operation.action, operation.before, repository')
<1>1. CASE UNCHANGED <<repository, operation>>
  BY <1>1 DEF OperationInv
<1>2. CASE Edit
  <2>1. operation'.outcome = operation.outcome
    BY <1>2 DEF Edit, OperationInv
  <2> QED BY <1>2, <2>1, EditOperation
<1>3. CASE \E action \in Actions : Apply(action)
  <2>1. operation'.outcome = "running"
    BY <1>3 DEF Apply
  <2> QED BY <1>3, <2>1, ApplyOperation
<1>4. CASE Run
  BY <1>4, RunOperation
<1> QED BY <1>1, <1>2, <1>3, <1>4, LoadLeavesOperation DEF Next

\* The git commands that stage_paths, unstage_paths, discard_changes and their likes run one by one
\* find the repository as their action needs it: at every step, what an undisturbed action has left
\* to run is a list its code has, and what it ran is on the way to what the action promises.
THEOREM OperationInvariance == Spec => []OperationInv
<1>1. OperationInv /\ [Next]_vars => OperationInv'
  BY OperationStep
<1> QED BY OperationInit, <1>1, PTL DEF Spec

\* An action on the repository that answers Ok, and that nobody disturbed between its commands, has
\* done what its name says, whatever files and contents there are.
THEOREM ActionsTakeEffectHolds == Spec => ActionsTakeEffect
<1> DEFINE Step == operation.outcome = "running" /\ operation'.outcome = "done" /\ ~operation.disturbed =>
                     TookEffect(operation.action, operation.before, repository')
<1>1. OperationInv /\ [Next]_vars => [Step]_vars
  BY OperationStep
<1>2. [][Step]_vars <=> ActionsTakeEffect
  BY DEF ActionsTakeEffect
<1> QED BY OperationInvariance, <1>1, <1>2, PTL DEF Spec

-----------------------------------------------------------------------------
(* What a load reads: every reading once, in this order.                    *)

Rounds == {"initial", "final"}
Cells == [round: Rounds, what: Whats, path: 0..PathCount]
Cell(round, what, path) == [round |-> round, what |-> what, path |-> path]

\* The place of a reading among those of a load.
Stage(cell) ==
  (IF cell.round = "initial" THEN 0 ELSE 11)
  + CASE cell.what = "head" -> 0 [] cell.what = "diff" -> 1 [] cell.what = "diffed" -> 2
      [] cell.what = "status" -> 3 [] cell.what = "stat" -> 4 [] cell.what = "listing" -> 5
      [] cell.what = "untracked" -> 6 [] cell.what = "tree" -> 7 [] cell.what = "index" -> 8
      [] cell.what = "captured" -> 9 [] OTHER -> 10
Before(a, b) == Stage(a) < Stage(b) \/ (Stage(a) = Stage(b) /\ a.path < b.path)

\* Readings of these stages, in their order.
Ordered(s, from, to) ==
  /\ s \in Seq(Cells)
  /\ \A i \in 1..Len(s) : Stage(s[i]) \in from..to
  /\ \A i, j \in 1..Len(s) : i < j => Before(s[i], s[j])
Occurs(s, cell) == \E i \in 1..Len(s) : s[i] = cell

LEMMA StageType == \A cell \in Cells : Stage(cell) \in Int /\ 0 <= Stage(cell) /\ Stage(cell) <= 21
BY DEF Stage, Cells, Rounds, Whats

LEMMA Concatenated ==
  ASSUME NEW s \in Seq(Cells), NEW t \in Seq(Cells)
  PROVE  /\ s \o t \in Seq(Cells) /\ Len(s \o t) = Len(s) + Len(t)
         /\ Len(s) \in Nat /\ Len(t) \in Nat
         /\ \A i \in 1..Len(s) : (s \o t)[i] = s[i]
         /\ \A i \in 1..Len(t) : (s \o t)[Len(s) + i] = t[i]
         /\ \A i \in 1..Len(s \o t) : i \notin 1..Len(s) => i - Len(s) \in 1..Len(t) /\ (s \o t)[i] = t[i - Len(s)]
OBVIOUS

LEMMA OrderedConcat ==
  ASSUME NEW s, NEW t, NEW a \in Int, NEW b \in Int, NEW c \in Int, NEW d \in Int,
         Ordered(s, a, b), Ordered(t, c, d), b < c, a <= c, b <= d
  PROVE  Ordered(s \o t, a, d)
<1> DEFINE u == s \o t
<1>0. s \in Seq(Cells) /\ t \in Seq(Cells)
  BY DEF Ordered
<1>1. /\ u \in Seq(Cells) /\ Len(u) = Len(s) + Len(t) /\ Len(s) \in Nat /\ Len(t) \in Nat
      /\ \A i \in 1..Len(s) : u[i] = s[i]
      /\ \A i \in 1..Len(u) : i \notin 1..Len(s) => i - Len(s) \in 1..Len(t) /\ u[i] = t[i - Len(s)]
  BY <1>0, Concatenated
<1> HIDE DEF u
<1>2. ASSUME NEW i \in 1..Len(u) PROVE Stage(u[i]) \in a..d
  <2>1. CASE i \in 1..Len(s)
    <3>1. Stage(s[i]) \in a..b
      BY <2>1 DEF Ordered
    <3> QED BY <1>1, <2>1, <3>1
  <2>2. CASE i \notin 1..Len(s)
    <3>1. i - Len(s) \in 1..Len(t) /\ u[i] = t[i - Len(s)]
      BY <1>1, <2>2
    <3>2. Stage(t[i - Len(s)]) \in c..d
      BY <3>1 DEF Ordered
    <3> QED BY <3>1, <3>2
  <2> QED BY <2>1, <2>2
<1>3. ASSUME NEW i \in 1..Len(u), NEW j \in 1..Len(u), i < j
      PROVE  Before(u[i], u[j])
  <2>1. CASE j \in 1..Len(s)
    <3>1. i \in 1..Len(s)
      BY <1>3, <2>1
    <3> QED BY <1>1, <1>3, <2>1, <3>1 DEF Ordered
  <2>2. CASE i \notin 1..Len(s)
    <3>1. j \notin 1..Len(s)
      BY <1>1, <1>3, <2>2
    <3>2. i - Len(s) < j - Len(s)
      BY <1>1, <1>3
    <3> QED BY <1>1, <1>3, <2>2, <3>1, <3>2 DEF Ordered
  <2>3. CASE i \in 1..Len(s) /\ j \notin 1..Len(s)
    <3>1. Stage(u[i]) \in a..b /\ Stage(u[j]) \in c..d
      BY <1>1, <2>3 DEF Ordered
    <3> QED BY <3>1 DEF Before
  <2> QED BY <2>1, <2>2, <2>3
<1>4. Ordered(u, a, d)
  BY ONLY <1>1, <1>2, <1>3 DEF Ordered
<1> QED BY <1>4 DEF u

LEMMA OccursConcat ==
  ASSUME NEW s \in Seq(Cells), NEW t \in Seq(Cells), NEW cell
  PROVE  Occurs(s \o t, cell) <=> Occurs(s, cell) \/ Occurs(t, cell)
<1> DEFINE u == s \o t
<1>1. /\ Len(u) = Len(s) + Len(t) /\ Len(s) \in Nat /\ Len(t) \in Nat
      /\ \A i \in 1..Len(s) : u[i] = s[i]
      /\ \A i \in 1..Len(t) : u[Len(s) + i] = t[i]
      /\ \A i \in 1..Len(u) : i \notin 1..Len(s) => i - Len(s) \in 1..Len(t) /\ u[i] = t[i - Len(s)]
  BY Concatenated
<1> HIDE DEF u
<1>2. ASSUME Occurs(u, cell) PROVE Occurs(s, cell) \/ Occurs(t, cell)
  BY <1>1, <1>2 DEF Occurs
<1>3. ASSUME Occurs(s, cell) PROVE Occurs(u, cell)
  BY <1>1, <1>3 DEF Occurs
<1>4. ASSUME Occurs(t, cell) PROVE Occurs(u, cell)
  <2>1. PICK i \in 1..Len(t) : t[i] = cell
    BY <1>4 DEF Occurs
  <2>2. Len(s) + i \in 1..Len(u)
    BY <1>1
  <2> QED BY <1>1, <2>1, <2>2 DEF Occurs
<1> QED BY <1>2, <1>3, <1>4 DEF u

LEMMA OnceReads ==
  ASSUME NEW round \in Rounds, NEW what \in Whats, NEW n, n = Stage(Cell(round, what, 0))
  PROVE  /\ Ordered(Once(round, what), n, n)
         /\ \A cell : Occurs(Once(round, what), cell) <=> cell = Cell(round, what, 0)
<1>1. 0 \in 0..PathCount
  BY ConstantsAssumption DEF ConstantsAssumption
<1>2. Cell(round, what, 0) \in Cells
  BY <1>1 DEF Cell, Cells
<1>3. Once(round, what) = <<Cell(round, what, 0)>>
  BY DEF Once, Cell
<1>4. n \in Int
  BY <1>2, StageType
<1> QED BY <1>2, <1>3, <1>4 DEF Ordered, Occurs

LEMMA EachReads ==
  ASSUME NEW round \in Rounds, NEW what \in Whats, NEW n, n = Stage(Cell(round, what, 0))
  PROVE  /\ Ordered(Each(round, what), n, n)
         /\ \A cell : Occurs(Each(round, what), cell) <=> \E p \in Paths : cell = Cell(round, what, p)
<1>1. PathCount \in Nat /\ 0 \in 0..PathCount /\ \A p \in Paths : p \in 0..PathCount
  BY ConstantsAssumption DEF ConstantsAssumption, Paths
<1>2. \A p \in 0..PathCount : Cell(round, what, p) \in Cells
  BY <1>1 DEF Cell, Cells
<1>3. Each(round, what) = [p \in 1..PathCount |-> Cell(round, what, p)]
  BY DEF Each, Cell, Paths
<1>4. /\ Each(round, what) \in Seq(Cells) /\ Len(Each(round, what)) = PathCount
      /\ \A p \in 1..PathCount : Each(round, what)[p] = Cell(round, what, p)
  BY <1>1, <1>2, <1>3
<1>5. \A p \in 0..PathCount : Stage(Cell(round, what, p)) = n /\ Cell(round, what, p).path = p
  BY DEF Stage, Cell
<1>6. n \in Int
  BY <1>1, <1>2, StageType
<1>7. Ordered(Each(round, what), n, n)
  BY <1>1, <1>4, <1>5, <1>6 DEF Ordered, Before
<1> QED BY <1>4, <1>7 DEF Occurs, Paths

LEMMA NoReads ==
  ASSUME NEW a, NEW b
  PROVE  Ordered(<<>>, a, b) /\ \A cell : ~Occurs(<<>>, cell)
BY DEF Ordered, Occurs

\* What a round reads, for a scope.
Wanted(scope, what, path) ==
  CASE what \in {"diff", "status"} -> path = 0
    [] what \in {"head", "tree"} -> path = 0 /\ scope # "Unstaged"
    [] what = "listing" -> path = 0 /\ scope # "Staged"
    [] what = "index" -> path = 0 /\ scope # "Both"
    [] what = "stat" -> path \in Paths
    [] what \in {"diffed", "untracked"} -> path \in Paths /\ scope # "Staged"
    [] OTHER -> FALSE
LEMMA CellFields ==
  ASSUME NEW round, NEW what, NEW path
  PROVE  /\ Cell(round, what, path).round = round /\ Cell(round, what, path).what = what
         /\ Cell(round, what, path).path = path
BY DEF Cell

LEMMA InputReadsAre ==
  ASSUME NEW round \in Rounds, NEW scope \in PossibleScopes, NEW n, n = IF round = "initial" THEN 0 ELSE 11
  PROVE  /\ Ordered(InputReads(round, scope), n, n + 8)
         /\ \A cell : Occurs(InputReads(round, scope), cell) <=>
              \E what \in Whats \ {"captured", "matched"}, path \in 0..PathCount :
                cell = Cell(round, what, path) /\ Wanted(scope, what, path)
<1> DEFINE head == If(scope # "Unstaged", Once(round, "head"))
           diff == Once(round, "diff")
           diffed == If(scope # "Staged", Each(round, "diffed"))
           status == Once(round, "status")
           stat == Each(round, "stat")
           listing == Once(round, "listing")
           untracked == Each(round, "untracked")
           files == If(scope # "Staged", listing \o untracked)
           tree == If(scope # "Unstaged", Once(round, "tree"))
           index == If(scope # "Both", Once(round, "index"))
<1> USE DEF Whats
<1>0. n \in Int /\ (n = 0 \/ n = 11)
  OBVIOUS
<1>1. /\ Stage(Cell(round, "head", 0)) = n /\ Stage(Cell(round, "diff", 0)) = n + 1
      /\ Stage(Cell(round, "diffed", 0)) = n + 2 /\ Stage(Cell(round, "status", 0)) = n + 3
      /\ Stage(Cell(round, "stat", 0)) = n + 4 /\ Stage(Cell(round, "listing", 0)) = n + 5
      /\ Stage(Cell(round, "untracked", 0)) = n + 6 /\ Stage(Cell(round, "tree", 0)) = n + 7
      /\ Stage(Cell(round, "index", 0)) = n + 8
  BY CellFields DEF Stage, Rounds
<1>2. /\ Ordered(Once(round, "head"), n, n) /\ Ordered(diff, n + 1, n + 1) /\ Ordered(Each(round, "diffed"), n + 2, n + 2)
      /\ Ordered(status, n + 3, n + 3) /\ Ordered(stat, n + 4, n + 4) /\ Ordered(listing, n + 5, n + 5)
      /\ Ordered(untracked, n + 6, n + 6) /\ Ordered(Once(round, "tree"), n + 7, n + 7)
      /\ Ordered(Once(round, "index"), n + 8, n + 8)
  BY <1>1, OnceReads, EachReads
<1>3. /\ \A cell : Occurs(Once(round, "head"), cell) <=> cell = Cell(round, "head", 0)
      /\ \A cell : Occurs(diff, cell) <=> cell = Cell(round, "diff", 0)
      /\ \A cell : Occurs(status, cell) <=> cell = Cell(round, "status", 0)
      /\ \A cell : Occurs(listing, cell) <=> cell = Cell(round, "listing", 0)
      /\ \A cell : Occurs(Once(round, "tree"), cell) <=> cell = Cell(round, "tree", 0)
      /\ \A cell : Occurs(Once(round, "index"), cell) <=> cell = Cell(round, "index", 0)
  BY OnceReads
<1>4. /\ \A cell : Occurs(Each(round, "diffed"), cell) <=> \E p \in Paths : cell = Cell(round, "diffed", p)
      /\ \A cell : Occurs(stat, cell) <=> \E p \in Paths : cell = Cell(round, "stat", p)
      /\ \A cell : Occurs(untracked, cell) <=> \E p \in Paths : cell = Cell(round, "untracked", p)
  BY EachReads
<1> HIDE DEF listing, untracked
<1>5. Ordered(listing \o untracked, n + 5, n + 6)
  BY <1>0, <1>2, OrderedConcat
<1>6. \A cell : Occurs(listing \o untracked, cell) <=> Occurs(listing, cell) \/ Occurs(untracked, cell)
  <2>1. listing \in Seq(Cells) /\ untracked \in Seq(Cells)
    BY <1>2 DEF Ordered
  <2> QED BY <2>1, OccursConcat
<1>7. /\ Ordered(head, n, n) /\ Ordered(diffed, n + 2, n + 2) /\ Ordered(files, n + 5, n + 6)
      /\ Ordered(tree, n + 7, n + 7) /\ Ordered(index, n + 8, n + 8)
  <2>1. Ordered(head, n, n)
    BY <1>0, <1>2, NoReads DEF If
  <2>2. Ordered(diffed, n + 2, n + 2)
    BY <1>0, <1>2, NoReads DEF If
  <2>3. Ordered(files, n + 5, n + 6)
    BY <1>0, <1>5, NoReads DEF If
  <2>4. Ordered(tree, n + 7, n + 7)
    BY <1>0, <1>2, NoReads DEF If
  <2>5. Ordered(index, n + 8, n + 8)
    BY <1>0, <1>2, NoReads DEF If
  <2> QED BY <2>1, <2>2, <2>3, <2>4, <2>5
<1>8. /\ \A cell : Occurs(head, cell) <=> scope # "Unstaged" /\ cell = Cell(round, "head", 0)
      /\ \A cell : Occurs(diffed, cell) <=> scope # "Staged" /\ \E p \in Paths : cell = Cell(round, "diffed", p)
      /\ \A cell : Occurs(files, cell) <=>
           scope # "Staged" /\ (cell = Cell(round, "listing", 0) \/ \E p \in Paths : cell = Cell(round, "untracked", p))
      /\ \A cell : Occurs(tree, cell) <=> scope # "Unstaged" /\ cell = Cell(round, "tree", 0)
      /\ \A cell : Occurs(index, cell) <=> scope # "Both" /\ cell = Cell(round, "index", 0)
  <2>1. \A cell : Occurs(head, cell) <=> scope # "Unstaged" /\ Occurs(Once(round, "head"), cell)
    BY <1>0, <1>2, NoReads DEF If
  <2>2. \A cell : Occurs(diffed, cell) <=> scope # "Staged" /\ Occurs(Each(round, "diffed"), cell)
    BY <1>0, <1>2, NoReads DEF If
  <2>3. \A cell : Occurs(files, cell) <=> scope # "Staged" /\ Occurs(listing \o untracked, cell)
    BY <1>0, <1>5, NoReads DEF If
  <2>4. \A cell : Occurs(tree, cell) <=> scope # "Unstaged" /\ Occurs(Once(round, "tree"), cell)
    BY <1>0, <1>2, NoReads DEF If
  <2>5. \A cell : Occurs(index, cell) <=> scope # "Both" /\ Occurs(Once(round, "index"), cell)
    BY <1>0, <1>2, NoReads DEF If
  <2> QED BY <1>3, <1>4, <1>6, <2>1, <2>2, <2>3, <2>4, <2>5
<1> HIDE DEF head, diff, diffed, status, stat, files, tree, index
<1> DEFINE s1 == head \o diff
           s2 == s1 \o diffed
           s3 == s2 \o status
           s4 == s3 \o stat
           s5 == s4 \o files
           s6 == s5 \o tree
           s7 == s6 \o index
<1>9. s7 = InputReads(round, scope)
  BY DEF InputReads, head, diff, diffed, status, stat, files, listing, untracked, tree, index
<1> HIDE DEF s7
<1>10. Ordered(s1, n, n + 1)
  BY <1>0, <1>2, <1>7, OrderedConcat
<1> HIDE DEF s1
<1>11. Ordered(s2, n, n + 2)
  BY <1>0, <1>7, <1>10, OrderedConcat
<1> HIDE DEF s2
<1>12. Ordered(s3, n, n + 3)
  BY <1>0, <1>2, <1>11, OrderedConcat
<1> HIDE DEF s3
<1>13. Ordered(s4, n, n + 4)
  BY <1>0, <1>2, <1>12, OrderedConcat
<1> HIDE DEF s4
<1>14. Ordered(s5, n, n + 6)
  BY <1>0, <1>7, <1>13, OrderedConcat
<1> HIDE DEF s5
<1>15. Ordered(s6, n, n + 7)
  BY <1>0, <1>7, <1>14, OrderedConcat
<1> HIDE DEF s6
<1>16. Ordered(s7, n, n + 8)
  BY <1>0, <1>7, <1>15, OrderedConcat DEF s7
<1>17. /\ head \in Seq(Cells) /\ diff \in Seq(Cells) /\ diffed \in Seq(Cells) /\ status \in Seq(Cells)
       /\ stat \in Seq(Cells) /\ files \in Seq(Cells) /\ tree \in Seq(Cells) /\ index \in Seq(Cells)
       /\ s1 \in Seq(Cells) /\ s2 \in Seq(Cells) /\ s3 \in Seq(Cells) /\ s4 \in Seq(Cells) /\ s5 \in Seq(Cells)
       /\ s6 \in Seq(Cells)
  BY <1>2, <1>7, <1>10, <1>11, <1>12, <1>13, <1>14, <1>15 DEF Ordered
<1>18. /\ \A cell : Occurs(s1, cell) <=> Occurs(head, cell) \/ Occurs(diff, cell)
       /\ \A cell : Occurs(s2, cell) <=> Occurs(s1, cell) \/ Occurs(diffed, cell)
       /\ \A cell : Occurs(s3, cell) <=> Occurs(s2, cell) \/ Occurs(status, cell)
       /\ \A cell : Occurs(s4, cell) <=> Occurs(s3, cell) \/ Occurs(stat, cell)
       /\ \A cell : Occurs(s5, cell) <=> Occurs(s4, cell) \/ Occurs(files, cell)
       /\ \A cell : Occurs(s6, cell) <=> Occurs(s5, cell) \/ Occurs(tree, cell)
       /\ \A cell : Occurs(s7, cell) <=> Occurs(s6, cell) \/ Occurs(index, cell)
  BY <1>17, OccursConcat DEF s1, s2, s3, s4, s5, s6, s7
<1>19. ASSUME NEW cell
       PROVE  Occurs(s7, cell) <=>
                \E what \in Whats \ {"captured", "matched"}, path \in 0..PathCount :
                  cell = Cell(round, what, path) /\ Wanted(scope, what, path)
  <2>1. 0 \in 0..PathCount /\ \A p \in Paths : p \in 0..PathCount /\ p # 0
    BY ConstantsAssumption DEF ConstantsAssumption, Paths
  <2>2. Occurs(s7, cell) <=>
          \/ Occurs(head, cell) \/ Occurs(diff, cell) \/ Occurs(diffed, cell) \/ Occurs(status, cell)
          \/ Occurs(stat, cell) \/ Occurs(files, cell) \/ Occurs(tree, cell) \/ Occurs(index, cell)
    BY <1>18
  <2>3. Occurs(s7, cell) <=>
          \/ cell = Cell(round, "diff", 0) \/ cell = Cell(round, "status", 0)
          \/ \E p \in Paths : cell = Cell(round, "stat", p)
          \/ scope # "Unstaged" /\ (cell = Cell(round, "head", 0) \/ cell = Cell(round, "tree", 0))
          \/ scope # "Staged" /\ cell = Cell(round, "listing", 0)
          \/ scope # "Staged" /\ \E p \in Paths : cell = Cell(round, "diffed", p) \/ cell = Cell(round, "untracked", p)
          \/ scope # "Both" /\ cell = Cell(round, "index", 0)
    BY <1>3, <1>4, <1>8, <2>2 DEF diff, status, stat
  <2> QED BY <2>1, <2>3 DEF Wanted
<1> QED BY <1>9, <1>16, <1>19

LEMMA InputsAre ==
  ASSUME NEW scope \in PossibleScopes
  PROVE  /\ Ordered(Inputs[scope], 0, 19)
         /\ \A cell : Occurs(Inputs[scope], cell) <=>
              \/ \E round \in Rounds, what \in Whats \ {"captured", "matched"}, path \in 0..PathCount :
                   cell = Cell(round, what, path) /\ Wanted(scope, what, path)
              \/ scope # "Staged" /\ \E p \in Paths : cell = Cell("initial", "captured", p)
<1> DEFINE initial == InputReads("initial", scope)
           each == Each("initial", "captured")
           captured == If(scope # "Staged", each)
           final == InputReads("final", scope)
           s1 == initial \o captured
           s2 == s1 \o final
<1>1. Inputs[scope] = s2
  BY DEF Inputs
<1>2. Ordered(initial, 0, 8) /\ Ordered(final, 11, 19)
  BY InputReadsAre DEF Rounds
<1>3. /\ \A cell : Occurs(initial, cell) <=>
            \E what \in Whats \ {"captured", "matched"}, path \in 0..PathCount :
              cell = Cell("initial", what, path) /\ Wanted(scope, what, path)
      /\ \A cell : Occurs(final, cell) <=>
            \E what \in Whats \ {"captured", "matched"}, path \in 0..PathCount :
              cell = Cell("final", what, path) /\ Wanted(scope, what, path)
  BY InputReadsAre DEF Rounds
<1>4. Stage(Cell("initial", "captured", 0)) = 9 /\ "captured" \in Whats
  BY CellFields DEF Stage, Whats
<1>5. /\ Ordered(each, 9, 9)
      /\ \A cell : Occurs(each, cell) <=> \E p \in Paths : cell = Cell("initial", "captured", p)
  BY <1>4, EachReads DEF Rounds
<1> HIDE DEF each, initial, final
<1>6. /\ Ordered(captured, 9, 9)
      /\ \A cell : Occurs(captured, cell) <=> scope # "Staged" /\ Occurs(each, cell)
  BY <1>5, NoReads DEF If
<1> HIDE DEF captured
<1>7. Ordered(s1, 0, 9)
  BY <1>2, <1>6, OrderedConcat
<1> HIDE DEF s1
<1>8. Ordered(s2, 0, 19)
  BY <1>2, <1>7, OrderedConcat
<1>9. initial \in Seq(Cells) /\ captured \in Seq(Cells) /\ final \in Seq(Cells) /\ s1 \in Seq(Cells)
  BY <1>2, <1>6, <1>7 DEF Ordered
<1>10. /\ \A cell : Occurs(s1, cell) <=> Occurs(initial, cell) \/ Occurs(captured, cell)
       /\ \A cell : Occurs(s2, cell) <=> Occurs(s1, cell) \/ Occurs(final, cell)
  BY <1>9, OccursConcat DEF s1
<1> HIDE DEF s2
<1>11. ASSUME NEW cell
       PROVE  Occurs(s2, cell) <=>
                \/ \E round \in Rounds, what \in Whats \ {"captured", "matched"}, path \in 0..PathCount :
                     cell = Cell(round, what, path) /\ Wanted(scope, what, path)
                \/ scope # "Staged" /\ \E p \in Paths : cell = Cell("initial", "captured", p)
  <2>1. Occurs(s2, cell) <=> Occurs(initial, cell) \/ Occurs(captured, cell) \/ Occurs(final, cell)
    BY <1>10
  <2>2. Occurs(captured, cell) <=> scope # "Staged" /\ \E p \in Paths : cell = Cell("initial", "captured", p)
    BY <1>5, <1>6
  <2> QED BY <1>3, <2>1, <2>2 DEF Rounds
<1> QED BY <1>1, <1>8, <1>11

LEMMA ReadsAre ==
  ASSUME NEW scope \in PossibleScopes
  PROVE  /\ Ordered(Reads[scope], 0, 21)
         /\ Len(Inputs[scope]) \in Nat /\ Len(Reads[scope]) \in Nat /\ Len(Inputs[scope]) <= Len(Reads[scope])
         /\ \A i \in 1..Len(Inputs[scope]) : Reads[scope][i] = Inputs[scope][i]
         /\ scope # "Staged" =>
              \A p \in Paths : /\ Len(Inputs[scope]) + p \in 1..Len(Reads[scope])
                               /\ Reads[scope][Len(Inputs[scope]) + p] = Cell("final", "matched", p)
         /\ \A cell : Occurs(Reads[scope], cell) <=>
              Occurs(Inputs[scope], cell) \/ (scope # "Staged" /\ \E p \in Paths : cell = Cell("final", "matched", p))
<1> DEFINE inputs == Inputs[scope]
           each == Each("final", "matched")
           matched == If(scope # "Staged", each)
           reads == inputs \o matched
<1>1. Reads[scope] = reads
  BY DEF Reads
<1>2. Ordered(inputs, 0, 19)
  BY InputsAre
<1>4. Stage(Cell("final", "matched", 0)) = 21 /\ "matched" \in Whats
  BY CellFields DEF Stage, Whats
<1>5. /\ Ordered(each, 21, 21)
      /\ \A cell : Occurs(each, cell) <=> \E p \in Paths : cell = Cell("final", "matched", p)
  BY <1>4, EachReads DEF Rounds
<1>6. /\ PathCount \in Nat /\ Len(each) = PathCount /\ \A p \in Paths : each[p] = Cell("final", "matched", p)
  BY ConstantsAssumption DEF ConstantsAssumption, Each, Cell, Paths
<1> HIDE DEF each, inputs
<1>7. /\ Ordered(matched, 21, 21)
      /\ \A cell : Occurs(matched, cell) <=> scope # "Staged" /\ Occurs(each, cell)
      /\ scope # "Staged" => matched = each
  BY <1>5, NoReads DEF If
<1> HIDE DEF matched
<1>8. Ordered(reads, 0, 21)
  BY <1>2, <1>7, OrderedConcat
<1>9. inputs \in Seq(Cells) /\ matched \in Seq(Cells)
  BY <1>2, <1>7 DEF Ordered
<1>10. /\ Len(reads) = Len(inputs) + Len(matched) /\ Len(inputs) \in Nat /\ Len(matched) \in Nat
       /\ \A i \in 1..Len(inputs) : reads[i] = inputs[i]
       /\ \A i \in 1..Len(matched) : reads[Len(inputs) + i] = matched[i]
  BY <1>9, Concatenated
<1>11. \A cell : Occurs(reads, cell) <=> Occurs(inputs, cell) \/ Occurs(matched, cell)
  BY <1>9, OccursConcat
<1> HIDE DEF reads
<1>12. ASSUME scope # "Staged", NEW p \in Paths
       PROVE  Len(inputs) + p \in 1..Len(reads) /\ reads[Len(inputs) + p] = Cell("final", "matched", p)
  <2>1. p \in 1..Len(matched)
    BY <1>6, <1>7, <1>12 DEF Paths
  <2> QED BY <1>6, <1>7, <1>10, <1>12, <2>1
<1>13. /\ Len(inputs) \in Nat /\ Len(reads) \in Nat /\ Len(inputs) <= Len(reads)
  BY <1>10
<1>14. \A cell : Occurs(reads, cell) <=>
         Occurs(inputs, cell) \/ (scope # "Staged" /\ \E p \in Paths : cell = Cell("final", "matched", p))
  BY <1>5, <1>7, <1>11
<1> QED BY <1>1, <1>8, <1>10, <1>12, <1>13, <1>14 DEF inputs

\* Nothing is read twice, and nothing of the second round before the first is over.
LEMMA ReadOrder ==
  ASSUME NEW scope \in PossibleScopes, NEW i \in 1..Len(Reads[scope]), NEW j \in 1..Len(Reads[scope])
  PROVE  /\ Reads[scope][i] \in Cells
         /\ Reads[scope][i] = Reads[scope][j] => i = j
         /\ Stage(Reads[scope][i]) < Stage(Reads[scope][j]) => i < j
         /\ Reads[scope][i].round = "initial" /\ Reads[scope][j].round = "final" => i < j
         /\ /\ Reads[scope][i].round = Reads[scope][j].round
            /\ Reads[scope][i].what = "listing" /\ Reads[scope][j].what = "untracked"
            => i < j
<1> DEFINE a == Reads[scope][i]
           b == Reads[scope][j]
<1>1. a \in Cells /\ b \in Cells
  BY ReadsAre, ElementOfSeq DEF Ordered
<1>2. (i < j => Before(a, b)) /\ (j < i => Before(b, a))
  BY ReadsAre DEF Ordered
<1>3. i = j \/ i < j \/ j < i
  BY ReadsAre
<1> HIDE DEF a, b
<1>4. Stage(a) \in Int /\ Stage(b) \in Int /\ a.path \in Int /\ b.path \in Int
  <2>1. \A cell \in Cells : Stage(cell) \in Int
    BY StageType
  <2>2. \A cell \in Cells : cell.path \in Int
    BY ConstantsAssumption DEF ConstantsAssumption, Cells
  <2> QED BY <1>1, <2>1, <2>2
<1>5. ~(Before(a, b) /\ a = b)
  <2>1. ASSUME NEW m \in Int, NEW n \in Int PROVE m < n => m # n
    OBVIOUS
  <2> QED BY <1>4, <2>1, Zenon DEF Before
<1>6. a.round = "initial" /\ b.round = "final" => Stage(a) < Stage(b)
  BY <1>1 DEF Stage, Cells, Whats
<1>7. a.round = b.round /\ a.what = "listing" /\ b.what = "untracked" => Stage(a) < Stage(b)
  BY <1>1 DEF Stage, Cells, Rounds
<1>8. Before(b, a) => ~(Stage(a) < Stage(b))
  <2>1. ASSUME NEW m \in Int, NEW n \in Int PROVE m < n => ~(n < m) /\ m # n
    OBVIOUS
  <2> QED BY <1>4, <2>1, Zenon DEF Before
<1>9. a = b => i = j
  BY <1>2, <1>3, <1>5
<1>10. Stage(a) < Stage(b) => i < j
  <2>1. Stage(a) < Stage(b) => a # b
    BY <1>4
  <2>2. i = j => a = b
    BY DEF a, b
  <2> QED BY <1>2, <1>3, <1>8, <2>1, <2>2
<1> QED BY <1>1, <1>6, <1>7, <1>9, <1>10 DEF a, b

-----------------------------------------------------------------------------
(* What a load has read, and of which repository.                           *)

Trees == [head: Tree, index: Tree]
NoBlobs == [p \in Paths |-> Unavailable]
Values == BOOLEAN \cup Contents \cup {Absent, NoBlobs} \cup Tree \cup (SUBSET Paths) \cup Trees
Seen == [Rounds -> [Whats -> [0..PathCount -> Values]]]
Value(seen, cell) == seen[cell.round][cell.what][cell.path]

HasRead(l, cell) == \E i \in 1..l.at - 1 : Reads[l.scope][i] = cell
\* What was read before k is of the old repository, and what was read since is of the new one.
ReadAs(l, old, k, new) ==
  \A i \in 1..l.at - 1 :
    Value(l.seen, Reads[l.scope][i]) = Found(Reads[l.scope][i], IF i < k THEN old ELSE new)

\* What a load cannot do without was read of this repository, and all of it if nothing was missed.
ReadQuietly(l, r) ==
  \A i \in 1..l.at - 1 : l.missed = 0 \/ Reads[l.scope][i].what \notin Dispensable =>
    Value(l.seen, Reads[l.scope][i]) = Found(Reads[l.scope][i], r)

\* The same of two changes, at j and at k.
ReadAcross(l, first, j, second, k, new) ==
  \A i \in 1..l.at - 1 :
    Value(l.seen, Reads[l.scope][i]) =
      Found(Reads[l.scope][i], IF i < j THEN first ELSE IF i < k THEN second ELSE new)

\* What one change does to a file: it is left alone, edited, staged or unstaged, committed
\* or restored.
Kept(r, t, p) ==
  t.born = r.born /\ t.head[p] = r.head[p] /\ t.index[p] = r.index[p] /\ t.worktree[p] = r.worktree[p]
Edited(r, t, p) == t.born = r.born /\ t.head[p] = r.head[p] /\ t.index[p] = r.index[p]
Staged(r, t, p) ==
  /\ t.born = r.born /\ t.head[p] = r.head[p] /\ t.worktree[p] = r.worktree[p]
  /\ t.index[p] = r.index[p] \/ t.index[p] = r.head[p] \/ t.index[p] = r.worktree[p]
Committed(r, t, p) ==
  t.born /\ t.head[p] = r.index[p] /\ t.index[p] = r.index[p] /\ t.worktree[p] = r.worktree[p]
Restored(r, t, p) ==
  t.born = r.born /\ t.head[p] = r.head[p] /\ t.index[p] = r.head[p] /\ t.worktree[p] = r.head[p]

\* And to the repository: edits and restorations are of one file.
Follows(r, t) ==
  \/ \E p \in Paths : (Edited(r, t, p) \/ Restored(r, t, p)) /\ \A q \in Paths \ {p} : Kept(r, t, q)
  \/ \A p \in Paths : Staged(r, t, p)
  \/ \A p \in Paths : Committed(r, t, p)

LoadFields == {"scope", "at", "seen", "moments", "changed", "altered", "missed", "lost", "failed"}
LoadTyped(l) ==
  /\ DOMAIN l = LoadFields
  /\ l.scope \in Scopes \cup {"None"} /\ l.seen \in Seen
  /\ l.at \in Int /\ l.changed \in Nat /\ l.altered \in Nat /\ l.failed \in Nat
  /\ l.missed \in Nat /\ l.lost \in Nat

\* A try that met no change has read this repository, one that met one change and missed nothing the
\* old one first and this one since, and one that met two of them one after the other.
TryOf(l, r) ==
  /\ 1 <= l.at /\ l.at <= Len(Reads[l.scope]) + 1
  /\ r \in l.moments /\ \A m \in l.moments : RepositoryOK(m)
  /\ l.changed = 0 => /\ ReadQuietly(l, r)
                      /\ \A cell \in Cells : ~HasRead(l, cell) => Value(l.seen, cell) = Absent
  /\ l.missed = 0 /\ l.changed = 1 =>
       \E old \in l.moments, k \in Int : k <= l.at /\ ReadAs(l, old, k, r) /\ Follows(old, r)
  /\ l.missed = 0 /\ l.changed = 2 =>
       \E first, second \in l.moments, j, k \in Int :
         /\ j <= k /\ k <= l.at /\ ReadAcross(l, first, j, second, k, r)
         /\ Follows(first, second) /\ Follows(second, r)

\* Each try that failed met a change or a reading of its own.
Counted(l) == l.altered >= l.changed /\ l.altered + l.lost >= l.failed + l.changed + l.missed

LoadInv ==
  /\ LoadTyped(load)
  /\ Loading => Counted(load) /\ TryOf(load, repository)

LEMMA ScopesArePossible == Scopes \subseteq PossibleScopes /\ "None" \notin Scopes /\ MaxTries \in Nat /\ MaxTries >= 1
BY ConstantsAssumption DEF ConstantsAssumption, PossibleScopes

LEMMA FoundIsValue ==
  ASSUME NEW cell \in Cells, NEW r, RepositoryOK(r), cell.path = 0 \/ cell.path \in Paths,
         cell.what \in {"diffed", "stat", "untracked", "captured", "matched"} => cell.path \in Paths
  PROVE  Found(cell, r) \in Values
<1>1. /\ r.born \in BOOLEAN /\ r.head \in Tree /\ r.index \in Tree /\ r.worktree \in Tree
  BY TreeTypes
<1>2. CASE cell.what = "head"
  BY <1>1, <1>2 DEF Found, Values
<1>3. CASE cell.what \in {"diff", "status"}
  <2>1. Found(cell, r) = [head |-> r.head, index |-> r.index]
    BY <1>3 DEF Found
  <2>2. Found(cell, r) \in Trees
    BY <1>1, <2>1 DEF Trees
  <2>3. Trees \subseteq Values
    BY Zenon DEF Values
  <2> QED BY <2>2, <2>3
<1>4. CASE cell.what = "listing"
  <2>1. Found(cell, r) \in SUBSET Paths
    BY <1>4 DEF Found
  <2> QED BY <2>1 DEF Values
<1>5. CASE cell.what = "tree"
  BY <1>1, <1>5 DEF Found, Values
<1>6. CASE cell.what = "index"
  BY <1>1, <1>6 DEF Found, Values
<1>7. CASE cell.what \in {"diffed", "stat", "untracked", "captured", "matched"}
  <2>1. Found(cell, r) = r.worktree[cell.path]
    BY <1>7 DEF Found
  <2>2. Found(cell, r) \in Contents \cup {Absent}
    BY <1>1, <1>7, <2>1 DEF Tree
  <2>3. Contents \cup {Absent} \subseteq Values
    BY Zenon DEF Values
  <2> QED BY <2>2, <2>3
<1> QED BY <1>2, <1>3, <1>4, <1>5, <1>6, <1>7 DEF Cells, Whats

\* A reading of a load finds a value.
LEMMA ReadFinds ==
  ASSUME NEW scope \in PossibleScopes, NEW i \in 1..Len(Reads[scope]), NEW r, RepositoryOK(r)
  PROVE  Reads[scope][i] \in Cells /\ Found(Reads[scope][i], r) \in Values
<1> DEFINE cell == Reads[scope][i]
<1>1. cell \in Cells
  BY ReadOrder
<1>2. Occurs(Reads[scope], cell)
  BY DEF Occurs
<1> HIDE DEF cell
<1>3. \/ \E round \in Rounds, what \in Whats \ {"captured", "matched"}, path \in 0..PathCount :
           cell = Cell(round, what, path) /\ Wanted(scope, what, path)
      \/ \E p \in Paths : cell = Cell("initial", "captured", p)
      \/ \E p \in Paths : cell = Cell("final", "matched", p)
  <2>1. Occurs(Inputs[scope], cell) \/ \E p \in Paths : cell = Cell("final", "matched", p)
    BY <1>2, ReadsAre
  <2>2. \A c : Occurs(Inputs[scope], c) =>
          \/ \E round \in Rounds, what \in Whats \ {"captured", "matched"}, path \in 0..PathCount :
               c = Cell(round, what, path) /\ Wanted(scope, what, path)
          \/ \E p \in Paths : c = Cell("initial", "captured", p)
    BY InputsAre
  <2> QED BY <2>1, <2>2
<1>4. cell.what \in {"diffed", "stat", "untracked", "captured", "matched"} => cell.path \in Paths
  <2>1. CASE \E round \in Rounds, what \in Whats \ {"captured", "matched"}, path \in 0..PathCount :
               cell = Cell(round, what, path) /\ Wanted(scope, what, path)
    <3>1. cell.what \in Whats \ {"captured", "matched"} /\ Wanted(scope, cell.what, cell.path)
      BY <2>1, CellFields
    <3> QED BY <3>1 DEF Wanted
  <2> QED BY <1>3, <2>1, CellFields
<1>5. cell.path = 0 \/ cell.path \in Paths
  BY <1>1, ConstantsAssumption DEF ConstantsAssumption, Cells, Paths
<1>6. Found(cell, r) \in Values
  BY <1>1, <1>4, <1>5, FoundIsValue
<1> QED BY <1>1, <1>6 DEF cell

LEMMA UnreadIsSeen ==
  LET seen == [round \in {"initial", "final"} |-> Unread]
  IN seen \in Seen /\ \A cell \in Cells : Value(seen, cell) = Absent
BY DEF Seen, Unread, Values, Value, Cells, Rounds

LEMMA LoadInit == Init => LoadInv
BY UnreadIsSeen DEF Init, NotLoading, LoadInv, LoadTyped, LoadFields, Loading

\* A new try has read nothing.
LEMMA NewTryStep ==
  ASSUME NEW l, LoadTyped(l), l.scope \in Scopes, RepositoryOK(repository)
  PROVE  /\ LoadTyped(NewTry(l)) /\ TryOf(NewTry(l), repository)
         /\ NewTry(l).scope = l.scope /\ NewTry(l).changed = 0 /\ NewTry(l).altered = l.altered
         /\ NewTry(l).failed = l.failed /\ NewTry(l).missed = 0 /\ NewTry(l).lost = l.lost
<1> DEFINE unread == [round \in {"initial", "final"} |-> Unread]
           t == NewTry(l)
<1>1. unread \in Seen /\ \A cell \in Cells : Value(unread, cell) = Absent
  BY UnreadIsSeen
<1>2. t = [l EXCEPT !.at = 1, !.seen = unread, !.moments = {repository}, !.changed = 0, !.missed = 0]
  BY DEF NewTry
<1> HIDE DEF unread, t
<1>3. DOMAIN l = LoadFields
  BY DEF LoadTyped
<1>4. /\ DOMAIN t = LoadFields /\ t.scope = l.scope /\ t.at = 1 /\ t.seen = unread /\ t.moments = {repository}
      /\ t.changed = 0 /\ t.altered = l.altered /\ t.failed = l.failed /\ t.missed = 0 /\ t.lost = l.lost
  BY <1>2, <1>3 DEF LoadFields
<1>5. LoadTyped(t)
  BY <1>1, <1>4 DEF LoadTyped
<1>6. Len(Reads[l.scope]) \in Nat
  BY ReadsAre, ScopesArePossible
<1>7. TryOf(t, repository)
  BY <1>1, <1>4, <1>6 DEF TryOf, ReadQuietly
<1> QED BY <1>4, <1>5, <1>7 DEF t

\* What was read of the inputs once they were all read.
LEMMA InputsRead ==
  ASSUME NEW l, l.scope \in PossibleScopes, l.at \in Int, l.at > Len(Inputs[l.scope]),
         l.at <= Len(Reads[l.scope]) + 1,
         NEW round \in Rounds, NEW what \in Whats \ {"captured", "matched"}, NEW path \in 0..PathCount
  PROVE  HasRead(l, Cell(round, what, path)) <=> Wanted(l.scope, what, path)
<1> DEFINE cell == Cell(round, what, path)
           inputs == Inputs[l.scope]
           reads == Reads[l.scope]
<1>1. /\ Len(inputs) \in Nat /\ Len(reads) \in Nat /\ Len(inputs) <= Len(reads)
      /\ \A i \in 1..Len(inputs) : reads[i] = inputs[i]
      /\ \A c : Occurs(reads, c) <=>
           Occurs(inputs, c) \/ (l.scope # "Staged" /\ \E p \in Paths : c = Cell("final", "matched", p))
  BY ReadsAre
<1>2. \A c : Occurs(inputs, c) <=>
        \/ \E r \in Rounds, w \in Whats \ {"captured", "matched"}, p \in 0..PathCount :
             c = Cell(r, w, p) /\ Wanted(l.scope, w, p)
        \/ l.scope # "Staged" /\ \E p \in Paths : c = Cell("initial", "captured", p)
  BY InputsAre
<1>3. Occurs(inputs, cell) <=> Wanted(l.scope, what, path)
  BY <1>2, CellFields
<1>4. Occurs(reads, cell) => Occurs(inputs, cell)
  BY <1>1, CellFields
<1> HIDE DEF cell, inputs, reads
<1>5. HasRead(l, cell) => Occurs(reads, cell)
  BY <1>1 DEF HasRead, Occurs, reads
<1>6. Occurs(inputs, cell) => HasRead(l, cell)
  <2>1. ASSUME NEW i \in 1..Len(inputs), inputs[i] = cell
        PROVE  HasRead(l, cell)
    <3>1. i \in 1..l.at - 1 /\ reads[i] = cell
      BY <1>1, <2>1 DEF inputs
    <3> QED BY <3>1 DEF HasRead, reads
  <2> QED BY <2>1 DEF Occurs
<1> QED BY <1>3, <1>4, <1>5, <1>6 DEF cell

\* Two readings that agree in what the document is made of agree in the document.
LEMMA SameReadingsSameDocument ==
  ASSUME NEW scope, NEW s, NEW t, \A what \in Whats \ {"captured", "matched"} : s[what] = t[what]
  PROVE  MetadataStable(scope, s, t)
<1>1. /\ s["head"] = t["head"] /\ s["diff"] = t["diff"] /\ s["diffed"] = t["diffed"] /\ s["status"] = t["status"]
      /\ s["stat"] = t["stat"] /\ s["listing"] = t["listing"] /\ s["untracked"] = t["untracked"]
      /\ s["tree"] = t["tree"] /\ s["index"] = t["index"]
  BY DEF Whats
<1>2. ASSUME NEW p
      PROVE  /\ Old(scope, s, p) = Old(scope, t, p) /\ New(scope, s, p) = New(scope, t, p)
             /\ IndexColumn(s, p) = IndexColumn(t, p) /\ WorktreeColumn(s, p) = WorktreeColumn(t, p)
             /\ IsUntracked(s, p) = IsUntracked(t, p)
  BY <1>1 DEF Old, New, IndexColumn, WorktreeColumn, IsUntracked
<1>3. ASSUME NEW p
      PROVE  Relevant(s, p) = Relevant(t, p)
  BY <1>2 DEF Relevant
<1>4. ASSUME NEW p
      PROVE  Status(scope, s, p) = Status(scope, t, p)
  BY <1>2, <1>3 DEF Status
<1>5. ASSUME NEW p
      PROVE  File(scope, s, p) = File(scope, t, p)
  BY <1>1, <1>2, <1>4 DEF File
<1>6. ASSUME NEW p
      PROVE  OldLocation(scope, s, p) = OldLocation(scope, t, p) /\ NewLocation(scope, s, p) = NewLocation(scope, t, p)
  BY <1>1, <1>5 DEF OldLocation, NewLocation
<1> QED BY <1>1, <1>2, <1>5, <1>6 DEF MetadataStable, SameDocument, SameLocations

\* What a try that met no change and missed nothing has read.
LEMMA QuietReadings ==
  ASSUME NEW l, NEW r, TryOf(l, r), l.changed = 0, l.missed = 0
  PROVE  /\ \A i \in 1..l.at - 1 : Value(l.seen, Reads[l.scope][i]) = Found(Reads[l.scope][i], r)
         /\ \A cell \in Cells : Value(l.seen, cell) = IF HasRead(l, cell) THEN Found(cell, r) ELSE Absent
<1>1. ReadQuietly(l, r) /\ \A cell \in Cells : ~HasRead(l, cell) => Value(l.seen, cell) = Absent
  BY DEF TryOf
<1>2. \A i \in 1..l.at - 1 : Value(l.seen, Reads[l.scope][i]) = Found(Reads[l.scope][i], r)
  BY <1>1 DEF ReadQuietly
<1>3. \A cell \in Cells : HasRead(l, cell) => Value(l.seen, cell) = Found(cell, r)
  BY <1>2 DEF HasRead
<1> QED BY <1>1, <1>2, <1>3

LEMMA SameFunction ==
  ASSUME NEW D, NEW V, NEW f \in [D -> V], NEW g \in [D -> V], \A x \in D : f[x] = g[x]
  PROVE  f = g
OBVIOUS

LEMMA QuietIsStable ==
  ASSUME LoadInv, Loading, load.changed = 0, load.missed = 0, AllRead(Inputs[load.scope])
  PROVE  MetadataStable(load.scope, First, Second)
<1>1. /\ load.scope \in PossibleScopes /\ load.at \in Int /\ load.seen \in Seen
      /\ load.at > Len(Inputs[load.scope]) /\ load.at <= Len(Reads[load.scope]) + 1
      /\ TryOf(load, repository)
  BY ScopesArePossible DEF LoadInv, LoadTyped, TryOf, AllRead, Loading
<1>2. ASSUME NEW what \in Whats \ {"captured", "matched"}, NEW path \in 0..PathCount
      PROVE  First[what][path] = Second[what][path]
  <2> DEFINE a == Cell("initial", what, path)
             b == Cell("final", what, path)
  <2>1. a \in Cells /\ b \in Cells
    BY DEF Cell, Cells, Rounds
  <2>2. HasRead(load, a) <=> HasRead(load, b)
    BY <1>1, InputsRead, SMTT(30) DEF Rounds
  <2>3. Found(a, repository) = Found(b, repository)
    BY CellFields DEF Found
  <2>4. Value(load.seen, a) = Value(load.seen, b)
    BY <1>1, <2>1, <2>2, <2>3, QuietReadings
  <2>5. Value(load.seen, a) = First[what][path] /\ Value(load.seen, b) = Second[what][path]
    BY CellFields DEF Value, First, Second
  <2> QED BY <2>4, <2>5
<1>3. \A what \in Whats \ {"captured", "matched"} : First[what] = Second[what]
  <2>1. \A what \in Whats : First[what] \in [0..PathCount -> Values] /\ Second[what] \in [0..PathCount -> Values]
    BY <1>1 DEF Seen, First, Second, Rounds
  <2>2. ASSUME NEW what \in Whats \ {"captured", "matched"} PROVE First[what] = Second[what]
    <3> DEFINE D == 0..PathCount
               f == First[what]
               g == Second[what]
    <3>1. f \in [D -> Values] /\ g \in [D -> Values] /\ \A x \in D : f[x] = g[x]
      BY <1>2, <2>1
    <3> HIDE DEF D, f, g
    <3>2. f = g
      BY <3>1, SameFunction
    <3> QED BY <3>2 DEF f, g
  <2> QED BY <2>2
<1> QED BY <1>3, SameReadingsSameDocument

LEMMA QuietDoesNotMove ==
  ASSUME LoadInv, Loading, load.changed = 0, load.missed = 0
  PROVE  ~Moved
<1>1. /\ load.scope \in PossibleScopes /\ load.at \in Int /\ load.seen \in Seen
      /\ load.at <= Len(Reads[load.scope]) + 1
      /\ TryOf(load, repository)
  BY ScopesArePossible DEF LoadInv, LoadTyped, TryOf, Loading
<1>2. ASSUME NEW p \in Paths, load.at > Len(Inputs[load.scope]) + p, load.scope # "Staged"
      PROVE  First["captured"][p] = Second["matched"][p]
  <2> DEFINE a == Cell("initial", "captured", p)
             b == Cell("final", "matched", p)
             n == Len(Inputs[load.scope])
  <2>1. /\ n \in Nat /\ Len(Reads[load.scope]) \in Nat /\ n <= Len(Reads[load.scope])
        /\ \A i \in 1..n : Reads[load.scope][i] = Inputs[load.scope][i]
        /\ n + p \in 1..Len(Reads[load.scope]) /\ Reads[load.scope][n + p] = b
    BY <1>1, <1>2, ReadsAre
  <2>2. p \in Int /\ p >= 1
    BY ConstantsAssumption DEF ConstantsAssumption, Paths
  <2>3. HasRead(load, b)
    <3>1. n + p \in 1..load.at - 1
      BY <1>1, <1>2, <2>1, <2>2
    <3> QED BY <2>1, <3>1 DEF HasRead
  <2>4. Occurs(Inputs[load.scope], a)
    BY <1>1, <1>2, InputsAre
  <2>5. HasRead(load, a)
    <3>1. PICK i \in 1..n : Inputs[load.scope][i] = a
      BY <2>4 DEF Occurs
    <3>2. i \in 1..load.at - 1 /\ Reads[load.scope][i] = a
      BY <1>1, <1>2, <2>1, <2>2, <3>1
    <3> QED BY <3>2 DEF HasRead
  <2>6. a \in Cells /\ b \in Cells
    BY ConstantsAssumption DEF ConstantsAssumption, Cell, Cells, Rounds, Whats, Paths
  <2>7. Found(a, repository) = Found(b, repository)
    BY CellFields DEF Found
  <2>8. Value(load.seen, a) = Value(load.seen, b)
    BY <1>1, <2>3, <2>5, <2>6, <2>7, QuietReadings
  <2> QED BY <2>8, CellFields DEF Value, First, Second
<1>3. ASSUME NEW p \in Paths, load.at > Len(Inputs[load.scope]) + p
      PROVE  ~Mismatch(load.scope, First, Second, p)
  BY <1>2, <1>3 DEF Mismatch, InWorktree
<1>4. AllRead(Inputs[load.scope]) => MetadataStable(load.scope, First, Second)
  BY QuietIsStable
<1> QED BY <1>3, <1>4 DEF Moved

\* A file that was listed is there when it is read, whatever else was missed.
LEMMA QuietIsNotGone ==
  ASSUME LoadInv, Loading, load.changed = 0
  PROVE  ~Gone
<1> SUFFICES ASSUME Gone PROVE FALSE
  OBVIOUS
<1> DEFINE scope == load.scope
           reads == Reads[scope]
           j == load.at - 1
           last == reads[j]
           listing == Cell(last.round, "listing", 0)
<1>1. /\ scope \in PossibleScopes /\ load.at \in Int /\ load.seen \in Seen
      /\ load.at <= Len(reads) + 1 /\ load.at > 1
      /\ TryOf(load, repository)
  BY ScopesArePossible DEF LoadInv, LoadTyped, TryOf, Loading, Gone
<1>2. /\ last.what = "untracked" /\ last.path \in load.seen[last.round]["listing"][0]
      /\ load.seen[last.round]["untracked"][last.path] = Absent
  BY DEF Gone, LastRead
<1>3. Len(reads) \in Nat /\ Ordered(reads, 0, 21)
  BY <1>1, ReadsAre
<1>4. j \in 1..Len(reads) /\ j \in 1..load.at - 1
  BY <1>1, <1>3
<1>5. last \in Cells
  BY <1>1, <1>4, ReadOrder
<1>6. Occurs(reads, last)
  BY <1>4 DEF Occurs
<1> HIDE DEF last, reads
<1>7. last.round \in Rounds /\ last.path \in 0..PathCount
  BY <1>5 DEF Cells
<1>8. scope # "Staged"
  <2>1. \/ \E round \in Rounds, what \in Whats \ {"captured", "matched"}, path \in 0..PathCount :
             last = Cell(round, what, path) /\ Wanted(scope, what, path)
        \/ \E p \in Paths : last = Cell("initial", "captured", p)
        \/ \E p \in Paths : last = Cell("final", "matched", p)
    <3>0. \A c : Occurs(reads, c) => Occurs(Inputs[scope], c) \/ \E p \in Paths : c = Cell("final", "matched", p)
      <4>1. ASSUME NEW n \in PossibleScopes, NEW c, Occurs(Reads[n], c)
            PROVE  Occurs(Inputs[n], c) \/ \E p \in Paths : c = Cell("final", "matched", p)
        BY <4>1, ReadsAre
      <4> QED BY <1>1, <4>1 DEF reads
    <3>1. Occurs(Inputs[scope], last) \/ \E p \in Paths : last = Cell("final", "matched", p)
      BY <1>6, <3>0
    <3>2. \A c : Occurs(Inputs[scope], c) =>
            \/ \E round \in Rounds, what \in Whats \ {"captured", "matched"}, path \in 0..PathCount :
                 c = Cell(round, what, path) /\ Wanted(scope, what, path)
            \/ \E p \in Paths : c = Cell("initial", "captured", p)
      BY <1>1, InputsAre
    <3> QED BY <3>1, <3>2
  <2>2. Wanted(scope, "untracked", last.path)
    BY <1>2, <2>1, CellFields
  <2> QED BY <2>2 DEF Wanted
<1>9. Occurs(reads, listing)
  <2>1. Wanted(scope, "listing", 0) /\ 0 \in 0..PathCount /\ "listing" \in Whats \ {"captured", "matched"}
    BY <1>8, ConstantsAssumption DEF ConstantsAssumption, Wanted, Whats
  <2>2. Occurs(Inputs[scope], listing)
    BY <1>1, <1>7, <2>1, InputsAre
  <2> QED BY <1>1, <2>2, ReadsAre DEF reads
<1>10. PICK i \in 1..Len(reads) : reads[i] = listing
  BY <1>9 DEF Occurs
<1>11. i < j
  <2>1. reads[i].round = reads[j].round /\ reads[i].what = "listing" /\ reads[j].what = "untracked"
    BY <1>2, <1>10, CellFields DEF last
  <2>2. ASSUME NEW m \in 1..Len(reads), NEW k \in 1..Len(reads), reads[m].round = reads[k].round,
               reads[m].what = "listing", reads[k].what = "untracked"
        PROVE  m < k
    BY ONLY <1>1, <2>2, ReadOrder DEF reads
  <2> QED BY <1>4, <2>1, <2>2
<1>12. i \in 1..load.at - 1
  BY <1>1, <1>3, <1>4, <1>11
<1>13. /\ Value(load.seen, listing) = Found(listing, repository)
       /\ Value(load.seen, last) = Found(last, repository)
  <2>1. \A n \in 1..load.at - 1 : reads[n].what \in {"listing", "untracked"} =>
          Value(load.seen, reads[n]) = Found(reads[n], repository)
    BY <1>1 DEF TryOf, ReadQuietly, Dispensable, reads
  <2>2. listing.what = "listing"
    BY CellFields
  <2> QED BY <1>2, <1>4, <1>10, <1>12, <2>1, <2>2 DEF last
<1>14. last.path \in Found(listing, repository) /\ Found(last, repository) = Absent
  BY <1>2, <1>13, CellFields DEF Value
<1>15. Found(listing, repository) = {p \in Paths : repository.index[p] = Absent /\ repository.worktree[p] # Absent}
  BY CellFields DEF Found
<1>16. Found(last, repository) = repository.worktree[last.path]
  BY <1>2 DEF Found
<1> QED BY <1>14, <1>15, <1>16

\* A reading is put where no other one is.
LEMMA PutReading ==
  ASSUME NEW seen \in Seen, NEW cell \in Cells, NEW v \in Values
  PROVE  LET new == [seen EXCEPT ![cell.round][cell.what][cell.path] = v]
         IN /\ new \in Seen /\ Value(new, cell) = v
            /\ \A c \in Cells : c # cell => Value(new, c) = Value(seen, c)
<1> DEFINE new == [seen EXCEPT ![cell.round][cell.what][cell.path] = v]
           D == 0..PathCount
<1>1. cell.round \in Rounds /\ cell.what \in Whats /\ cell.path \in D
  BY DEF Cells
<1>2. \A c \in Cells : c.round = cell.round /\ c.what = cell.what /\ c.path = cell.path => c = cell
  BY DEF Cells
<1>3. \A c \in Cells : c.round \in Rounds /\ c.what \in Whats /\ c.path \in D
  BY DEF Cells
<1>4. seen \in [Rounds -> [Whats -> [D -> Values]]]
  BY DEF Seen
<1> HIDE DEF D
<1>5. new \in [Rounds -> [Whats -> [D -> Values]]]
  BY <1>1, <1>4
<1>6. Value(new, cell) = v
  BY <1>1, <1>4 DEF Value
<1>7. ASSUME NEW c \in Cells, c # cell
      PROVE  Value(new, c) = Value(seen, c)
  BY <1>1, <1>2, <1>3, <1>4, <1>7 DEF Value
<1> QED BY <1>5, <1>6, <1>7 DEF Seen, D

LEMMA LoadStep ==
  ASSUME LoadInv, RepositoryOK(repository), NEW scope \in Scopes, Load(scope)
  PROVE  LoadInv'
<1> DEFINE l == [NotLoading EXCEPT !.scope = scope]
<1>1. load' = NewTry(l) /\ repository' = repository
  BY DEF Load
<1>2. /\ l = [scope |-> scope, at |-> 1, seen |-> [round \in {"initial", "final"} |-> Unread],
              moments |-> {}, changed |-> 0, altered |-> 0, missed |-> 0, lost |-> 0, failed |-> 0]
  BY DEF NotLoading
<1>3. LoadTyped(l) /\ l.scope = scope /\ l.altered = 0 /\ l.failed = 0 /\ l.lost = 0
  BY <1>2, UnreadIsSeen DEF LoadTyped, LoadFields
<1> HIDE DEF l
<1>4. /\ LoadTyped(load') /\ TryOf(load', repository)
      /\ load'.changed = 0 /\ load'.altered = 0 /\ load'.failed = 0 /\ load'.missed = 0 /\ load'.lost = 0
  BY <1>1, <1>3, NewTryStep
<1> QED BY <1>1, <1>4 DEF LoadInv, Counted

\* What a reading leaves of those before it, and where it is put.
LEMMA ReadOnStep ==
  ASSUME LoadInv, RepositoryOK(repository), Reading, NEW v \in Values
  PROVE  LET t == ReadOn(NextRead, v)
         IN /\ NextRead \in Cells /\ LoadTyped(t)
            /\ t.scope = load.scope /\ t.at = load.at + 1 /\ t.moments = load.moments /\ t.failed = load.failed
            /\ t.changed = load.changed /\ t.altered = load.altered /\ t.missed = load.missed /\ t.lost = load.lost
            /\ t.scope \in Scopes /\ 1 <= t.at /\ t.at <= Len(Reads[t.scope]) + 1
            /\ Reads[t.scope][load.at] = NextRead /\ Value(t.seen, NextRead) = v
            /\ \A i \in 1..load.at - 1 :
                 Value(t.seen, Reads[t.scope][i]) = Value(load.seen, Reads[load.scope][i])
            /\ \A c \in Cells : ~HasRead(t, c) => ~HasRead(load, c) /\ Value(t.seen, c) = Value(load.seen, c)
<1> DEFINE scope == load.scope
           reads == Reads[scope]
           cell == reads[load.at]
           seen == [load.seen EXCEPT ![cell.round][cell.what][cell.path] = v]
           t == ReadOn(NextRead, v)
<1>1. Loading /\ ~AllRead(reads) /\ NextRead = cell
  BY DEF Reading, NextRead
<1>2. /\ DOMAIN load = LoadFields /\ scope \in PossibleScopes /\ scope \in Scopes /\ load.at \in Int /\ load.seen \in Seen
      /\ 1 <= load.at /\ LoadTyped(load)
  BY <1>1, ScopesArePossible DEF LoadInv, LoadTyped, TryOf, Loading
<1>3. Len(reads) \in Nat
  BY <1>2, ReadsAre
<1>4. load.at \in 1..Len(reads)
  <2>1. ~(load.at > Len(reads))
    BY <1>1, Zenon DEF AllRead
  <2> QED BY <1>2, <1>3, <2>1
<1>5. cell \in Cells
  BY <1>2, <1>4, ReadFinds
<1>6. \A i \in 1..Len(reads) : reads[i] \in Cells /\ (reads[i] = cell => i = load.at)
  BY <1>2, <1>4, ReadOrder
<1>t. t = [load EXCEPT !.at = load.at + 1, !.seen = seen]
  BY <1>1 DEF ReadOn
<1> HIDE DEF t, reads, cell
<1>7. seen \in Seen /\ Value(seen, cell) = v /\ \A c \in Cells : c # cell => Value(seen, c) = Value(load.seen, c)
  BY <1>2, <1>5, PutReading
<1> HIDE DEF seen
<1>8. /\ DOMAIN t = LoadFields /\ t.scope = scope /\ t.at = load.at + 1 /\ t.seen = seen
      /\ t.moments = load.moments /\ t.changed = load.changed /\ t.altered = load.altered
      /\ t.failed = load.failed /\ t.missed = load.missed /\ t.lost = load.lost
  BY <1>t, <1>2 DEF LoadFields
<1>9. LoadTyped(t)
  BY <1>2, <1>7, <1>8 DEF LoadTyped
<1>10. 1 <= t.at /\ t.at <= Len(Reads[t.scope]) + 1
  BY <1>2, <1>3, <1>4, <1>8 DEF reads
<1>11. Reads[t.scope][load.at] = NextRead
  BY <1>1, <1>8 DEF cell, reads
<1>12. ASSUME NEW i \in 1..load.at - 1
       PROVE  Value(t.seen, Reads[t.scope][i]) = Value(load.seen, Reads[load.scope][i])
  <2>1. i \in 1..Len(reads) /\ i # load.at
    BY <1>2, <1>3, <1>4
  <2>2. reads[i] \in Cells /\ reads[i] # cell
    BY <1>6, <2>1
  <2> QED BY <1>7, <1>8, <2>2 DEF reads
<1>13. ASSUME NEW c \in Cells, ~HasRead(t, c)
       PROVE  ~HasRead(load, c) /\ Value(t.seen, c) = Value(load.seen, c)
  <2>1. c # cell
    <3>1. load.at \in 1..t.at - 1
      BY <1>2, <1>8
    <3>2. reads[load.at] = cell
      BY DEF cell
    <3> QED BY <1>8, <1>13, <3>1, <3>2 DEF HasRead, reads
  <2>2. ~HasRead(load, c)
    BY <1>2, <1>8, <1>13 DEF HasRead
  <2> QED BY <1>7, <1>8, <2>1, <2>2
<1> QED BY <1>1, <1>2, <1>5, <1>7, <1>8, <1>9, <1>10, <1>11, <1>12, <1>13 DEF t

\* What a try keeps when it reads on.
LEMMA ReadStep ==
  ASSUME LoadInv, RepositoryOK(repository), Read
  PROVE  LoadInv'
<1> DEFINE cell == NextRead
           v == Found(cell, repository)
           t == ReadOn(cell, v)
<1>1. Loading /\ Reading /\ repository' = repository /\ load' = t
  BY DEF Read, Reading
<1>2. load.at \in Int /\ TryOf(load, repository) /\ Counted(load) /\ load.changed \in Nat
  BY <1>1 DEF LoadInv, LoadTyped
<1>3. v \in Values
  <2>1. load.scope \in PossibleScopes /\ load.at >= 1
    BY <1>1, <1>2, ScopesArePossible DEF LoadInv, LoadTyped, TryOf, Loading
  <2>2. Len(Reads[load.scope]) \in Nat
    BY <2>1, ReadsAre
  <2>3. ~(load.at > Len(Reads[load.scope]))
    BY <1>1, Zenon DEF AllRead, Reading
  <2>4. load.at \in 1..Len(Reads[load.scope])
    BY <1>2, <2>1, <2>2, <2>3
  <2> QED BY <2>1, <2>4, ReadFinds DEF NextRead
<1> HIDE DEF v
<1>4. /\ LoadTyped(t) /\ t.scope = load.scope /\ t.at = load.at + 1 /\ t.moments = load.moments
      /\ t.failed = load.failed /\ t.changed = load.changed /\ t.altered = load.altered
      /\ t.missed = load.missed /\ t.lost = load.lost
      /\ t.scope \in Scopes /\ 1 <= t.at /\ t.at <= Len(Reads[t.scope]) + 1
      /\ Reads[t.scope][load.at] = cell /\ Value(t.seen, cell) = v
      /\ \A i \in 1..load.at - 1 : Value(t.seen, Reads[t.scope][i]) = Value(load.seen, Reads[load.scope][i])
      /\ \A c \in Cells : ~HasRead(t, c) => ~HasRead(load, c) /\ Value(t.seen, c) = Value(load.seen, c)
  BY <1>1, <1>3, ReadOnStep
<1> HIDE DEF t, cell
<1>5. \A i \in 1..t.at - 1 : i = load.at \/ i \in 1..load.at - 1
  BY <1>2, <1>4
<1>6. ASSUME NEW first, NEW j \in Int, NEW second, NEW k \in Int, j <= k, k <= load.at,
             ReadAcross(load, first, j, second, k, repository)
      PROVE  ReadAcross(t, first, j, second, k, repository)
  <2>1. ASSUME NEW i \in 1..t.at - 1
        PROVE  Value(t.seen, Reads[t.scope][i]) =
                 Found(Reads[t.scope][i], IF i < j THEN first ELSE IF i < k THEN second ELSE repository)
    <3>1. CASE i = load.at
      <4>1. ~(i < j) /\ ~(i < k)
        BY <1>2, <1>6, <3>1
      <4> QED BY <1>4, <3>1, <4>1 DEF v
    <3>2. CASE i \in 1..load.at - 1
      BY <1>4, <1>6, <3>2 DEF ReadAcross
    <3> QED BY <1>5, <3>1, <3>2
  <2> QED BY <2>1 DEF ReadAcross
<1>7. TryOf(t, repository)
  <2>1. repository \in t.moments /\ \A m \in t.moments : RepositoryOK(m)
    BY <1>2, <1>4 DEF TryOf
  <2>2. ASSUME NEW old, NEW k \in Int, k <= load.at, ReadAs(load, old, k, repository)
        PROVE  ReadAs(t, old, k, repository)
    <3>1. ReadAcross(load, old, k, old, k, repository)
      BY <2>2 DEF ReadAs, ReadAcross
    <3>2. ReadAcross(t, old, k, old, k, repository)
      BY <1>6, <2>2, <3>1
    <3> QED BY <3>2 DEF ReadAs, ReadAcross
  <2>3. ASSUME t.changed = 0
        PROVE  ReadQuietly(t, repository) /\ \A c \in Cells : ~HasRead(t, c) => Value(t.seen, c) = Absent
    <3>1. ReadQuietly(load, repository) /\ \A c \in Cells : ~HasRead(load, c) => Value(load.seen, c) = Absent
      BY <1>2, <1>4, <2>3 DEF TryOf
    <3>2. ReadQuietly(t, repository)
      BY <1>4, <1>5, <3>1 DEF ReadQuietly, v
    <3> QED BY <1>4, <3>1, <3>2
  <2>4. ASSUME t.missed = 0, t.changed = 1
        PROVE  \E old \in t.moments, k \in Int : k <= t.at /\ ReadAs(t, old, k, repository) /\ Follows(old, repository)
    <3>1. PICK old \in load.moments, k \in Int :
            k <= load.at /\ ReadAs(load, old, k, repository) /\ Follows(old, repository)
      BY <1>2, <1>4, <2>4 DEF TryOf
    <3>2. k <= t.at /\ ReadAs(t, old, k, repository)
      BY <1>2, <1>4, <2>2, <3>1
    <3> QED BY <1>4, <3>1, <3>2
  <2>5. ASSUME t.missed = 0, t.changed = 2
        PROVE  \E first, second \in t.moments, j, k \in Int :
                 /\ j <= k /\ k <= t.at /\ ReadAcross(t, first, j, second, k, repository)
                 /\ Follows(first, second) /\ Follows(second, repository)
    <3>1. PICK first \in load.moments, second \in load.moments, j \in Int, k \in Int :
            /\ j <= k /\ k <= load.at /\ ReadAcross(load, first, j, second, k, repository)
            /\ Follows(first, second) /\ Follows(second, repository)
      BY <1>2, <1>4, <2>5 DEF TryOf
    <3>2. k <= t.at /\ ReadAcross(t, first, j, second, k, repository)
      BY <1>2, <1>4, <1>6, <3>1
    <3> QED BY <1>4, <3>1, <3>2
  <2> QED BY <1>4, <2>1, <2>3, <2>4, <2>5 DEF TryOf
<1>8. Counted(t)
  BY <1>2, <1>4 DEF Counted
<1> QED BY <1>1, <1>4, <1>7, <1>8 DEF LoadInv

\* And when it does without an answer.
LEMMA MissStep ==
  ASSUME LoadInv, RepositoryOK(repository), ReadMisses
  PROVE  LoadInv'
<1> DEFINE cell == NextRead
           v == Nothing(cell)
           t == ReadOn(cell, v)
<1>1. /\ Loading /\ Reading /\ repository' = repository /\ cell.what \in Dispensable
      /\ load' = [t EXCEPT !.missed = t.missed + 1, !.lost = t.lost + 1]
  BY DEF ReadMisses, Reading
<1>2. load.at \in Int /\ TryOf(load, repository) /\ Counted(load)
  BY <1>1 DEF LoadInv, LoadTyped
<1>3. v \in Values
  <2>1. NoBlobs \in Values /\ Absent \in Values
    BY Zenon DEF Values
  <2> QED BY <2>1 DEF Nothing, NoBlobs
<1> HIDE DEF v
<1>4. /\ LoadTyped(t) /\ t.scope = load.scope /\ t.at = load.at + 1 /\ t.moments = load.moments
      /\ t.failed = load.failed /\ t.changed = load.changed /\ t.altered = load.altered
      /\ t.missed = load.missed /\ t.lost = load.lost
      /\ t.scope \in Scopes /\ 1 <= t.at /\ t.at <= Len(Reads[t.scope]) + 1
      /\ Reads[t.scope][load.at] = cell
      /\ \A i \in 1..load.at - 1 : Value(t.seen, Reads[t.scope][i]) = Value(load.seen, Reads[load.scope][i])
      /\ \A c \in Cells : ~HasRead(t, c) => ~HasRead(load, c) /\ Value(t.seen, c) = Value(load.seen, c)
  BY <1>1, <1>3, ReadOnStep
<1> HIDE DEF t, cell
<1>5. \A i \in 1..t.at - 1 : i = load.at \/ i \in 1..load.at - 1
  BY <1>2, <1>4
<1>6. t.missed \in Nat /\ t.lost \in Nat /\ DOMAIN t = LoadFields
  BY <1>4 DEF LoadTyped
<1>7. /\ DOMAIN load' = LoadFields /\ load'.scope = t.scope /\ load'.at = t.at /\ load'.seen = t.seen
      /\ load'.moments = t.moments /\ load'.changed = t.changed /\ load'.altered = t.altered
      /\ load'.failed = t.failed /\ load'.missed = t.missed + 1 /\ load'.lost = t.lost + 1
  BY <1>1, <1>6 DEF LoadFields
<1>8. LoadTyped(load')
  BY <1>4, <1>6, <1>7 DEF LoadTyped
<1>9. load'.missed # 0 /\ t.missed >= 0
  BY <1>6, <1>7
<1>10. ASSUME load'.changed = 0
       PROVE  ReadQuietly(load', repository) /\ \A c \in Cells : ~HasRead(load', c) => Value(load'.seen, c) = Absent
  <2>1. ReadQuietly(load, repository) /\ \A c \in Cells : ~HasRead(load, c) => Value(load.seen, c) = Absent
    BY <1>2, <1>4, <1>7, <1>10 DEF TryOf
  <2>2. ASSUME NEW i \in 1..load'.at - 1, Reads[load'.scope][i].what \notin Dispensable
        PROVE  Value(load'.seen, Reads[load'.scope][i]) = Found(Reads[load'.scope][i], repository)
    <3>1. i \in 1..load.at - 1
      BY <1>1, <1>4, <1>5, <1>7, <2>2
    <3> QED BY <1>4, <1>7, <2>1, <2>2, <3>1 DEF ReadQuietly
  <2>3. ReadQuietly(load', repository)
    BY <1>9, <2>2 DEF ReadQuietly
  <2>4. \A c \in Cells : HasRead(load', c) = HasRead(t, c)
    BY <1>7 DEF HasRead
  <2> QED BY <1>4, <1>7, <2>1, <2>3, <2>4
<1>11. TryOf(load', repository)
  <2>1. 1 <= load'.at /\ load'.at <= Len(Reads[load'.scope]) + 1
    BY <1>4, <1>7
  <2>2. repository \in load'.moments /\ \A m \in load'.moments : RepositoryOK(m)
    BY <1>2, <1>4, <1>7 DEF TryOf
  <2> QED BY <1>9, <1>10, <2>1, <2>2 DEF TryOf
<1>12. Counted(load')
  <2>1. /\ load.altered \in Nat /\ load.lost \in Nat /\ load.failed \in Nat /\ load.changed \in Nat /\ load.missed \in Nat
    BY DEF LoadInv, LoadTyped
  <2>2. /\ load'.altered = load.altered /\ load'.changed = load.changed /\ load'.failed = load.failed
        /\ load'.missed = load.missed + 1 /\ load'.lost = load.lost + 1
    BY <1>4, <1>7
  <2>3. load.altered >= load.changed /\ load.altered + load.lost >= load.failed + load.changed + load.missed
    BY <1>2 DEF Counted
  <2> QED BY <2>1, <2>2, <2>3 DEF Counted
<1> QED BY <1>1, <1>8, <1>11, <1>12 DEF LoadInv

LEMMA ReturnStep ==
  ASSUME load' = NotLoading
  PROVE  LoadInv'
<1>1. load' = [scope |-> "None", at |-> 1, seen |-> [round \in {"initial", "final"} |-> Unread],
               moments |-> {}, changed |-> 0, altered |-> 0, missed |-> 0, lost |-> 0, failed |-> 0]
  BY DEF NotLoading
<1>2. LoadTyped(load') /\ load'.scope = "None"
  BY <1>1, UnreadIsSeen DEF LoadTyped, LoadFields
<1> QED BY <1>2 DEF LoadInv, Loading

\* A try fails, or a load at once, only after a change in it or a reading missed.
LEMMA MovedIsChanged ==
  ASSUME LoadInv, Loading
  PROVE  /\ load.altered \in Nat /\ load.failed \in Nat /\ load.lost \in Nat
         /\ Moved => load.altered + load.lost >= load.failed + 1
         /\ Gone => load.altered >= 1
<1>1. (Moved => load.changed # 0 \/ load.missed # 0) /\ (Gone => load.changed # 0)
  BY QuietDoesNotMove, QuietIsNotGone
<1>2. /\ load.changed \in Nat /\ load.failed \in Nat /\ load.altered \in Nat /\ load.missed \in Nat /\ load.lost \in Nat
      /\ load.altered >= load.changed /\ load.altered + load.lost >= load.failed + load.changed + load.missed
  BY DEF LoadInv, LoadTyped, Counted
<1> QED BY <1>1, <1>2

LEMMA TryFailsStep ==
  ASSUME LoadInv, RepositoryOK(repository), TryFails
  PROVE  LoadInv'
<1>1. CASE load.failed + 1 < MaxTries
  <2> DEFINE t == NewTry(load)
  <2>1. load' = [t EXCEPT !.failed = t.failed + 1] /\ repository' = repository /\ Loading
    BY <1>1 DEF TryFails, Again
  <2>2. load.altered \in Nat /\ load.failed \in Nat /\ load.lost \in Nat /\ load.altered + load.lost >= load.failed + 1
    BY MovedIsChanged DEF TryFails
  <2>3. load.scope \in Scopes /\ LoadTyped(load)
    BY <2>1 DEF LoadInv, LoadTyped, Loading
  <2>4. /\ LoadTyped(t) /\ TryOf(t, repository)
        /\ t.scope = load.scope /\ t.changed = 0 /\ t.altered = load.altered /\ t.failed = load.failed
        /\ t.missed = 0 /\ t.lost = load.lost
    BY <2>3, NewTryStep
  <2> HIDE DEF t
  <2>5. DOMAIN t = LoadFields
    BY <2>4 DEF LoadTyped
  <2>6. /\ DOMAIN load' = LoadFields /\ load'.scope = t.scope /\ load'.at = t.at /\ load'.seen = t.seen
        /\ load'.moments = t.moments /\ load'.changed = t.changed /\ load'.altered = t.altered
        /\ load'.failed = t.failed + 1 /\ load'.missed = t.missed /\ load'.lost = t.lost
    BY <2>1, <2>5 DEF LoadFields
  <2>7. LoadTyped(load')
    BY <2>2, <2>4, <2>6 DEF LoadTyped
  <2>8. TryOf(load', repository)
    BY <2>4, <2>6 DEF TryOf, ReadQuietly, HasRead
  <2>9. Counted(load')
    BY <2>2, <2>4, <2>6 DEF Counted
  <2> QED BY <2>1, <2>7, <2>8, <2>9 DEF LoadInv
<1>2. CASE ~(load.failed + 1 < MaxTries)
  BY <1>2, ReturnStep DEF TryFails, Return
<1> QED BY <1>1, <1>2

\* A repository that changes under a load.
LEMMA BecomesStep ==
  ASSUME LoadInv, NEW r, Becomes(r), RepositoryOK(r), Follows(repository, r)
  PROVE  LoadInv'
<1>1. CASE ~Loading
  BY <1>1 DEF Becomes, LoadInv, Loading
<1>2. CASE r = repository
  BY <1>2 DEF Becomes, LoadInv, Loading
<1>3. CASE Loading /\ r # repository
  <2>1. /\ repository' = r
        /\ load' = [load EXCEPT !.moments = load.moments \cup {r}, !.changed = load.changed + 1,
                                !.altered = load.altered + 1]
    BY <1>3 DEF Becomes
  <2>2. /\ DOMAIN load = LoadFields /\ LoadTyped(load) /\ TryOf(load, repository)
        /\ Counted(load) /\ load.changed \in Nat /\ load.at \in Int
        /\ load.altered \in Nat /\ load.failed \in Nat /\ load.missed \in Nat /\ load.lost \in Nat
    BY <1>3 DEF LoadInv, LoadTyped
  <2>3. /\ DOMAIN load' = LoadFields /\ load'.scope = load.scope /\ load'.at = load.at /\ load'.seen = load.seen
        /\ load'.moments = load.moments \cup {r} /\ load'.changed = load.changed + 1
        /\ load'.altered = load.altered + 1 /\ load'.failed = load.failed
        /\ load'.missed = load.missed /\ load'.lost = load.lost
    BY <2>1, <2>2 DEF LoadFields
  <2>4. LoadTyped(load')
    BY <2>2, <2>3 DEF LoadTyped
  <2>5. ASSUME load'.missed = 0, load'.changed = 1
        PROVE  repository \in load'.moments /\ ReadAs(load', repository, load'.at, r)
    <3>1. load.changed = 0 /\ load.missed = 0
      BY <2>2, <2>3, <2>5
    <3>2. \A i \in 1..load.at - 1 : Value(load.seen, Reads[load.scope][i]) = Found(Reads[load.scope][i], repository)
      BY <2>2, <3>1, QuietReadings
    <3>3. \A i \in 1..load.at - 1 : i < load.at
      BY <2>2
    <3>4. ReadAs(load', repository, load'.at, r)
      BY <2>3, <3>2, <3>3 DEF ReadAs
    <3> QED BY <2>2, <2>3, <3>4 DEF TryOf
  <2>6. ASSUME load'.missed = 0, load'.changed = 2
        PROVE  \E first, second \in load'.moments, j, k \in Int :
                 /\ j <= k /\ k <= load'.at /\ ReadAcross(load', first, j, second, k, r)
                 /\ Follows(first, second) /\ Follows(second, r)
    <3>1. load.changed = 1 /\ load.missed = 0
      BY <2>2, <2>3, <2>6
    <3>2. PICK old \in load.moments, j \in Int :
            j <= load.at /\ ReadAs(load, old, j, repository) /\ Follows(old, repository)
      BY <2>2, <3>1 DEF TryOf
    <3>3. \A i \in 1..load.at - 1 : i < load.at
      BY <2>2
    <3>4. ReadAcross(load', old, j, repository, load'.at, r)
      BY <2>3, <3>2, <3>3 DEF ReadAs, ReadAcross
    <3>5. old \in load'.moments /\ repository \in load'.moments
      BY <2>2, <2>3 DEF TryOf
    <3>6. load'.at \in Int /\ j <= load'.at /\ load'.at <= load'.at
      BY <2>2, <2>3, <3>2
    <3> QED BY <3>2, <3>4, <3>5, <3>6
  <2>7. TryOf(load', r)
    <3>1. 1 <= load'.at /\ load'.at <= Len(Reads[load'.scope]) + 1
      BY <2>2, <2>3 DEF TryOf
    <3>2. r \in load'.moments /\ \A m \in load'.moments : RepositoryOK(m)
      BY <2>2, <2>3 DEF TryOf
    <3>3. load'.changed # 0 /\ load'.at \in Int /\ load'.at <= load'.at
      BY <2>2, <2>3
    <3>4. load'.missed = 0 /\ load'.changed = 1 =>
            \E old \in load'.moments, k \in Int : k <= load'.at /\ ReadAs(load', old, k, r) /\ Follows(old, r)
      BY <2>5, <3>3
    <3> QED BY <2>6, <3>1, <3>2, <3>3, <3>4 DEF TryOf
  <2>8. Counted(load')
    BY <2>2, <2>3 DEF Counted
  <2> QED BY <2>1, <2>4, <2>7, <2>8 DEF LoadInv
<1> QED BY <1>1, <1>2, <1>3

\* What a change of the repository can do.
LEMMA RanFollows ==
  ASSUME NEW r, RepositoryOK(r), NEW p \in Paths, NEW command
  PROVE  Follows(r, Ran(command, p, r))
<1> DEFINE t == Ran(command, p, r)
<1>0. /\ DOMAIN r = {"born", "head", "index", "worktree"}
      /\ r.head \in Tree /\ r.index \in Tree /\ r.worktree \in Tree
  BY TreeTypes
<1>1. CASE command = "add"
  <2>1. t = [r EXCEPT !.index[p] = r.worktree[p]]
    BY <1>1 DEF Ran
  <2> QED BY <1>0, <2>1 DEF Follows, Staged, Tree
<1>2. CASE command = "add all"
  <2>1. t = [r EXCEPT !.index = r.worktree]
    BY <1>2 DEF Ran
  <2> QED BY <1>0, <2>1 DEF Follows, Staged, Tree
<1>3. CASE command \in {"reset", "rm"}
  <2>1. t = [r EXCEPT !.index[p] = r.head[p]]
    BY <1>3 DEF Ran
  <2> QED BY <1>0, <2>1 DEF Follows, Staged, Tree
<1>4. CASE command \in {"reset all", "rm all"}
  <2>1. t = [r EXCEPT !.index = r.head]
    BY <1>4 DEF Ran
  <2> QED BY <1>0, <2>1 DEF Follows, Staged, Tree
<1>5. CASE command = "commit"
  <2>1. t = [r EXCEPT !.head = r.index, !.born = TRUE]
    BY <1>5 DEF Ran
  <2> QED BY <1>0, <2>1 DEF Follows, Committed
<1>6. CASE command = "clean" /\ r.index[p] = Absent
  <2>1. t = [r EXCEPT !.worktree[p] = Absent]
    BY <1>6 DEF Ran
  <2>2. Edited(r, t, p) /\ \A q \in Paths \ {p} : Kept(r, t, q)
    BY <1>0, <2>1 DEF Edited, Kept, Tree
  <2> QED BY <2>2 DEF Follows
<1>7. CASE command = "restore"
  <2>1. t = [r EXCEPT !.index[p] = r.head[p], !.worktree[p] = r.head[p]]
    BY <1>7 DEF Ran
  <2>2. Restored(r, t, p) /\ \A q \in Paths \ {p} : Kept(r, t, q)
    BY <1>0, <2>1 DEF Restored, Kept, Tree
  <2> QED BY <2>2 DEF Follows
<1>8. CASE /\ command \notin {"add", "add all", "reset", "rm", "reset all", "rm all", "commit", "restore"}
           /\ ~(command = "clean" /\ r.index[p] = Absent)
  <2>1. t = r
    BY <1>8 DEF Ran
  <2> QED BY <2>1 DEF Follows, Staged
<1> QED BY <1>1, <1>2, <1>3, <1>4, <1>5, <1>6, <1>7, <1>8

LEMMA ChangeFollows ==
  ASSUME OperationInv, Edit \/ Run
  PROVE  Follows(repository, repository')
<1>1. RepositoryOK(repository)
  BY DEF OperationInv
<1>2. CASE Edit
  <2>1. PICK p \in Paths, content \in Contents \cup {Absent} :
          repository' = [repository EXCEPT !.worktree[p] = content]
    BY <1>2 DEF Edit, Becomes
  <2>2. Edited(repository, repository', p) /\ \A q \in Paths \ {p} : Kept(repository, repository', q)
    BY <1>1, <2>1, TreeTypes DEF Edited, Kept, Tree
  <2> QED BY <2>2 DEF Follows
<1>3. CASE Run
  <2>1. repository' = repository \/ repository' = Ran(Head(operation.commands), operation.action.path, repository)
    BY <1>3, Zenon DEF Run, Becomes
  <2>2. Follows(repository, repository)
    BY DEF Follows, Staged
  <2>3. operation.action.path \in Paths
    BY <1>3, ConstantsAssumption DEF ConstantsAssumption, OperationInv, Run
  <2> QED BY <1>1, <2>1, <2>2, <2>3, RanFollows
<1> QED BY <1>2, <1>3

LEMMA LoadNext ==
  ASSUME OperationInv, LoadInv, [Next]_vars
  PROVE  LoadInv'
<1>1. RepositoryOK(repository) /\ RepositoryOK(repository')
  BY OperationStep DEF OperationInv
<1>2. CASE \E scope \in Scopes : Load(scope)
  BY <1>1, <1>2, LoadStep
<1>3. CASE Read
  BY <1>1, <1>3, ReadStep
<1>8. CASE ReadMisses
  BY <1>1, <1>8, MissStep
<1>4. CASE TryFails
  BY <1>1, <1>4, TryFailsStep
<1>5. CASE ReadFails \/ CommandFails \/ Succeed
  BY <1>5, ReturnStep DEF ReadFails, CommandFails, Succeed, Return
<1>6. CASE Edit \/ Run
  <2>1. Becomes(repository')
    BY <1>6, Zenon DEF Edit, Run, Becomes
  <2>2. Follows(repository, repository')
    BY <1>6, ChangeFollows
  <2> QED BY <1>1, <2>1, <2>2, BecomesStep
<1>7. CASE (\E action \in Actions : Apply(action)) \/ Stop \/ UNCHANGED vars
  <2>1. UNCHANGED <<repository, load>>
    BY <1>7 DEF Apply, Stop, vars
  <2> QED BY <2>1 DEF LoadInv, Loading
<1> QED BY <1>2, <1>3, <1>8, <1>4, <1>5, <1>6, <1>7 DEF Next

LEMMA FailuresStep ==
  ASSUME LoadInv, OnlyChangesFailLoads, [Next]_vars
  PROVE  OnlyChangesFailLoads'
<1>1. CASE UNCHANGED snapshot
  BY <1>1 DEF OnlyChangesFailLoads
<1>2. CASE TryFails
  <2>1. CASE load.failed + 1 < MaxTries
    BY <1>1, <1>2, <2>1 DEF TryFails
  <2>2. CASE ~(load.failed + 1 < MaxTries)
    <3>1. snapshot' = [outcome |-> "unstable", altered |-> load.altered, lost |-> load.lost]
      BY <1>2, <2>2 DEF TryFails, Return
    <3>2. /\ load.altered \in Nat /\ load.failed \in Nat /\ load.lost \in Nat
          /\ load.altered + load.lost >= load.failed + 1
      BY <1>2, MovedIsChanged DEF TryFails
    <3>3. load.altered + load.lost >= MaxTries
      BY <2>2, <3>2, ScopesArePossible
    <3> QED BY <3>1, <3>3 DEF OnlyChangesFailLoads
  <2> QED BY <2>1, <2>2
<1>3. CASE ReadFails
  <2>1. snapshot' = [outcome |-> "error", cause |-> "gone", altered |-> load.altered]
    BY <1>3 DEF ReadFails, Return, Error
  <2>2. load.altered >= 1 /\ load.altered \in Nat
    BY <1>3, MovedIsChanged DEF ReadFails
  <2> QED BY <2>1, <2>2 DEF OnlyChangesFailLoads
<1>6. CASE CommandFails
  <2>1. snapshot' = [outcome |-> "error", cause |-> "failure", altered |-> load.altered]
    BY <1>6 DEF CommandFails, Return, Error
  <2> QED BY <2>1 DEF OnlyChangesFailLoads
<1>4. CASE Succeed
  <2>1. snapshot'.outcome = "snapshot"
    BY <1>4 DEF Succeed, Return
  <2> QED BY <2>1 DEF OnlyChangesFailLoads
<1>5. (\E scope \in Scopes : Load(scope)) \/ Read \/ ReadMisses \/ Edit \/ (\E action \in Actions : Apply(action))
      \/ Run \/ Stop \/ UNCHANGED vars => UNCHANGED snapshot
  BY DEF Load, Read, ReadMisses, Edit, Apply, Run, Stop, vars
<1> QED BY <1>1, <1>2, <1>3, <1>6, <1>4, <1>5 DEF Next

\* A try of load_snapshot that met no change has read one repository, and one that met one or two
\* changes has read the repositories between them one after the other, in the order of its readings.
THEOREM LoadInvariance == Spec => [](OperationInv /\ LoadInv)
<1>1. OperationInv /\ LoadInv /\ [Next]_vars => OperationInv' /\ LoadInv'
  BY OperationStep, LoadNext
<1> QED BY OperationInit, LoadInit, <1>1, PTL DEF Spec

\* snapshot_with_sources gives up only when each of its tries met a change of the repository or a blob
\* or a text that it could not have, and a file that it listed is gone only after a change: however many
\* tries and files, a repository at rest whose commands and files can be read and parsed is loaded.
THEOREM OnlyChangesFailLoadsHolds == Spec => []OnlyChangesFailLoads
<1>1. Init => OnlyChangesFailLoads
  BY DEF Init, NoSnapshot, OnlyChangesFailLoads
<1>2. LoadInv /\ OnlyChangesFailLoads /\ [Next]_vars => OnlyChangesFailLoads'
  BY FailuresStep
<1> QED BY LoadInvariance, <1>1, <1>2, PTL DEF Spec

-----------------------------------------------------------------------------
(* A snapshot of one moment.                                                *)

\* The readings of a round that found nothing but this repository.
ReadingsOf(scope, s, r) ==
  /\ s["diff"][0] = [head |-> r.head, index |-> r.index] /\ s["status"][0] = [head |-> r.head, index |-> r.index]
  /\ scope # "Unstaged" => s["head"][0] = r.born /\ s["tree"][0] = r.head
  /\ scope # "Both" => s["index"][0] = r.index
  /\ scope # "Staged" => s["listing"][0] = {p \in Paths : r.index[p] = Absent /\ r.worktree[p] # Absent}
  /\ \A p \in Paths :
       /\ s["stat"][p] = r.worktree[p]
       /\ scope # "Staged" => s["diffed"][p] = r.worktree[p] /\ s["untracked"][p] = r.worktree[p]

\* What is made of them, said with the three contents of a file.
LEMMA DocumentOfMoment ==
  ASSUME NEW scope \in PossibleScopes, NEW s, NEW r, RepositoryOK(r), ReadingsOf(scope, s, r), NEW p \in Paths,
         NEW h, NEW i, NEW w, h = r.head[p], i = r.index[p], w = r.worktree[p]
  PROVE  /\ Old(scope, s, p) = IF scope = "Unstaged" THEN i ELSE h
         /\ New(scope, s, p) = IF scope = "Staged" \/ i = Absent THEN i ELSE w
         /\ Relevant(s, p) = CASE i # Absent /\ i # w -> Column(i, w)
                               [] ~(i # Absent /\ i # w) /\ h # i -> Column(h, i)
                               [] OTHER -> IF i = Absent /\ w # Absent THEN "Untracked" ELSE "None"
         /\ scope # "Staged" => (p \in s["listing"][0] <=> i = Absent /\ w # Absent) /\ s["untracked"][p] = w
         /\ HasOld(File(scope, s, p)) => OldLocation(scope, s, p) = IF scope = "Unstaged" THEN i ELSE h
         /\ ~HasOld(File(scope, s, p)) => OldLocation(scope, s, p) = Absent
         /\ NewLocation(scope, s, p) = IF scope = "Staged" /\ HasNew(File(scope, s, p)) THEN i ELSE Absent
<1>1. /\ s["diff"][0].head[p] = h /\ s["diff"][0].index[p] = i
      /\ s["status"][0].head[p] = h /\ s["status"][0].index[p] = i /\ s["stat"][p] = w
      /\ ~r.born => h = Absent
  BY TreeTypes DEF ReadingsOf
<1>2. scope # "Unstaged" => s["head"][0] = r.born /\ s["tree"][0][p] = h
  BY DEF ReadingsOf
<1>3. scope # "Both" => s["index"][0][p] = i
  BY DEF ReadingsOf
<1>4. scope # "Staged" =>
        /\ s["diffed"][p] = w /\ s["untracked"][p] = w /\ (p \in s["listing"][0] <=> i = Absent /\ w # Absent)
  BY DEF ReadingsOf
<1>5. Old(scope, s, p) = IF scope = "Unstaged" THEN i ELSE h
  BY <1>1, <1>2 DEF Old
<1>6. New(scope, s, p) = IF scope = "Staged" \/ i = Absent THEN i ELSE w
  BY <1>1, <1>4 DEF New
<1>7. /\ IndexColumn(s, p) = Column(h, i)
      /\ WorktreeColumn(s, p) = IF i = Absent THEN "None" ELSE Column(i, w)
      /\ (IsUntracked(s, p) <=> i = Absent /\ w # Absent)
  <2>1. IndexColumn(s, p) = Column(h, i)
    BY <1>1 DEF IndexColumn
  <2>2. WorktreeColumn(s, p) = IF i = Absent THEN "None" ELSE Column(i, w)
    BY <1>1 DEF WorktreeColumn
  <2>3. IsUntracked(s, p) <=> i = Absent /\ w # Absent
    BY <1>1 DEF IsUntracked
  <2> QED BY <2>1, <2>2, <2>3
<1>8. \A a, b : Column(a, b) = "None" <=> a = b
  BY DEF Column
<1>9. Relevant(s, p) = CASE i # Absent /\ i # w -> Column(i, w)
                         [] ~(i # Absent /\ i # w) /\ h # i -> Column(h, i)
                         [] OTHER -> IF i = Absent /\ w # Absent THEN "Untracked" ELSE "None"
  <2>1. Column(h, i) = "None" <=> h = i
    BY <1>8
  <2>2. WorktreeColumn(s, p) = "None" <=> ~(i # Absent /\ i # w)
    BY <1>7, <1>8
  <2>3. CASE i # Absent /\ i # w
    BY <1>7, <2>2, <2>3 DEF Relevant
  <2>4. CASE ~(i # Absent /\ i # w) /\ h # i
    BY <1>7, <2>1, <2>2, <2>4 DEF Relevant
  <2>5. CASE ~(i # Absent /\ i # w) /\ h = i
    BY <1>7, <2>1, <2>2, <2>5 DEF Relevant
  <2> QED BY <2>3, <2>4, <2>5
<1>10. HasOld(File(scope, s, p)) => OldLocation(scope, s, p) = IF scope = "Unstaged" THEN i ELSE h
  BY <1>1, <1>2, <1>3 DEF OldLocation, PossibleScopes
<1>11. ~HasOld(File(scope, s, p)) => OldLocation(scope, s, p) = Absent
  BY DEF OldLocation
<1>12. NewLocation(scope, s, p) = IF scope = "Staged" /\ HasNew(File(scope, s, p)) THEN i ELSE Absent
  BY <1>3 DEF NewLocation
<1> QED BY <1>4, <1>5, <1>6, <1>9, <1>10, <1>11, <1>12

\* The status of a file, and its patch.
LEMMA FileOfMoment ==
  ASSUME NEW scope \in PossibleScopes, NEW s, NEW r, RepositoryOK(r), ReadingsOf(scope, s, r), NEW p \in Paths
  PROVE  LET file == File(scope, s, p)
             sides == Sides(scope, r, p)
         IN \/ file = NoFile /\ sides[1] = sides[2]
            \/ DeletedBehindItsIndex(scope, r, p)
            \/ /\ file.patch = sides /\ sides[1] # sides[2] /\ DOMAIN file = {"status", "patch"}
               /\ file.status = CASE sides[1] = Absent /\ scope # "Staged" /\ r.index[p] = Absent -> "Untracked"
                                  [] sides[1] = Absent /\ (scope = "Staged" \/ r.index[p] # Absent) -> "Added"
                                  [] sides[1] # Absent /\ sides[2] = Absent -> "Deleted"
                                  [] OTHER -> "Modified"
<1> DEFINE h == r.head[p]
           i == r.index[p]
           w == r.worktree[p]
           file == File(scope, s, p)
           old == Old(scope, s, p)
           new == New(scope, s, p)
           column == Column(old, new)
<1>1. /\ old = IF scope = "Unstaged" THEN i ELSE h
      /\ new = IF scope = "Staged" \/ i = Absent THEN i ELSE w
      /\ Relevant(s, p) = CASE i # Absent /\ i # w -> Column(i, w)
                            [] ~(i # Absent /\ i # w) /\ h # i -> Column(h, i)
                            [] OTHER -> IF i = Absent /\ w # Absent THEN "Untracked" ELSE "None"
      /\ scope # "Staged" => (p \in s["listing"][0] <=> i = Absent /\ w # Absent) /\ s["untracked"][p] = w
  BY DocumentOfMoment
<1>2. Status(scope, s, p) = IF column = "Modified" /\ Relevant(s, p) # "None" THEN Relevant(s, p) ELSE column
  BY DEF Status
<1>3. file = CASE Status(scope, s, p) # "None" -> [status |-> Status(scope, s, p), patch |-> <<old, new>>]
               [] Status(scope, s, p) = "None" /\ scope # "Staged" /\ p \in s["listing"][0] ->
                    [status |-> "Untracked", patch |-> <<Absent, s["untracked"][p]>>]
               [] OTHER -> NoFile
  BY DEF File
<1>4. \A a, b : /\ (Column(a, b) = "None" <=> a = b)
                /\ (Column(a, b) = "Added" <=> a # b /\ a = Absent)
                /\ (Column(a, b) = "Deleted" <=> a # b /\ b = Absent)
                /\ (Column(a, b) = "Modified" <=> a # b /\ a # Absent /\ b # Absent)
  BY DEF Column
<1>5. Sides(scope, r, p) =
        <<IF scope = "Unstaged" THEN i ELSE h,
          IF scope = "Staged" THEN i ELSE IF scope = "Both" /\ i = Absent /\ h # Absent THEN Absent ELSE w>>
  BY DEF Sides
<1>6. DeletedBehindItsIndex(scope, r, p) <=> scope = "Staged" /\ h # Absent /\ i # Absent /\ w = Absent
  BY DEF DeletedBehindItsIndex
<1> HIDE DEF h, i, w, old, new, file
<1>7. CASE column = "Modified"
  <2>1. old # new /\ old # Absent /\ new # Absent
    BY <1>4, <1>7
  <2>2. DeletedBehindItsIndex(scope, r, p) \/ Status(scope, s, p) = "Modified"
    BY <1>1, <1>2, <1>4, <1>6, <1>7, <2>1 DEF PossibleScopes
  <2>3. Sides(scope, r, p) = <<old, new>>
    BY <1>1, <1>5, <2>1 DEF PossibleScopes
  <2>4. CASE Status(scope, s, p) = "Modified"
    <3>1. file = [status |-> "Modified", patch |-> <<old, new>>]
      BY <1>3, <2>4
    <3> QED BY <2>1, <2>3, <3>1 DEF file, i
  <2> QED BY <2>2, <2>4
<1>8. CASE column = "Deleted"
  <2>1. old # new /\ old # Absent /\ new = Absent
    BY <1>4, <1>8
  <2>2. Status(scope, s, p) = "Deleted"
    BY <1>2, <1>8
  <2>3. Sides(scope, r, p) = <<old, new>>
    BY <1>1, <1>5, <2>1 DEF PossibleScopes
  <2>4. file = [status |-> "Deleted", patch |-> <<old, new>>]
    BY <1>3, <2>2
  <2> QED BY <2>1, <2>3, <2>4 DEF file, i
<1>9. CASE column = "Added"
  <2>1. old # new /\ old = Absent /\ new # Absent
    BY <1>4, <1>9
  <2>2. Status(scope, s, p) = "Added"
    BY <1>2, <1>9
  <2>3. Sides(scope, r, p) = <<old, new>> /\ (scope = "Staged" \/ i # Absent)
    BY <1>1, <1>5, <2>1 DEF PossibleScopes
  <2>4. file = [status |-> "Added", patch |-> <<old, new>>]
    BY <1>3, <2>2
  <2> QED BY <2>1, <2>3, <2>4 DEF file, i
<1>10. CASE column = "None"
  <2>1. old = new
    BY <1>4, <1>10
  <2>2. Status(scope, s, p) = "None"
    BY <1>2, <1>10
  <2>3. CASE scope # "Staged" /\ i = Absent /\ w # Absent
    <3>1. file = [status |-> "Untracked", patch |-> <<Absent, w>>]
      BY <1>1, <1>3, <2>2, <2>3
    <3>2. Sides(scope, r, p) = <<Absent, w>>
      BY <1>1, <1>5, <2>1, <2>3 DEF PossibleScopes
    <3> QED BY <2>3, <3>1, <3>2 DEF file, i
  <2>4. CASE ~(scope # "Staged" /\ i = Absent /\ w # Absent)
    <3>1. file = NoFile
      BY <1>1, <1>3, <2>2, <2>4
    <3>2. Sides(scope, r, p)[1] = Sides(scope, r, p)[2]
      BY <1>1, <1>5, <2>1, <2>4 DEF PossibleScopes
    <3> QED BY <3>1, <3>2 DEF file
  <2> QED BY <2>3, <2>4
<1>11. column \in {"None", "Added", "Deleted", "Modified"}
  BY DEF Column
<1> QED BY <1>7, <1>8, <1>9, <1>10, <1>11

\* A snapshot made of the document of one moment shows it, with every file captured as it was then.
LEMMA CapturedOfMoment ==
  ASSUME NEW scope \in PossibleScopes, NEW r, RepositoryOK(r), NEW p \in Paths, NEW s, NEW t,
         ReadingsOf(scope, t, r), File(scope, s, p) = File(scope, t, p),
         OldLocation(scope, s, p) = OldLocation(scope, t, p), NewLocation(scope, s, p) = NewLocation(scope, t, p),
         InWorktree(scope, s, p) => s["captured"][p] \in {Absent, r.worktree[p]}
  PROVE  ShowsAs(Captured(scope, s, p), scope, r, p) \/ DeletedBehindItsIndex(scope, r, p)
<1> DEFINE file == File(scope, s, p)
           sides == Sides(scope, r, p)
           x == sides[1]
           y == sides[2]
           old == OldLocation(scope, s, p)
           new == IF InWorktree(scope, s, p) THEN s["captured"][p] ELSE NewLocation(scope, s, p)
           unread == (HasOld(file) /\ old = Absent) \/ (HasNew(file) /\ new = Absent)
<1>1. Captured(scope, s, p) = IF file = NoFile \/ unread THEN file ELSE [file EXCEPT !.patch = <<old, new>>]
  <2>1. {r.index[p], r.head[p], r.worktree[p], Absent} \subseteq Contents \cup {Absent}
    BY TreeTypes DEF Tree
  <2>2. \A side \in Contents \cup {Absent} : side # Unavailable
    BY ConstantsAssumption DEF ConstantsAssumption
  <2>3. old \in {r.index[p], r.head[p], Absent} /\ NewLocation(scope, s, p) \in {r.index[p], Absent}
    BY DocumentOfMoment
  <2>4. old # Unavailable /\ new # Unavailable
    BY <2>1, <2>2, <2>3
  <2> HIDE DEF file, old
  <2> QED BY <2>4 DEF Captured, file, old
<1>2. sides = <<x, y>> /\ (Changed(scope, r, p) <=> x # y)
  BY DEF Sides, Changed
<1>3. file = File(scope, t, p)
  OBVIOUS
<1>4. \/ file = NoFile /\ x = y
      \/ DeletedBehindItsIndex(scope, r, p)
      \/ /\ file.patch = sides /\ x # y /\ DOMAIN file = {"status", "patch"}
         /\ file.status = CASE x = Absent /\ scope # "Staged" /\ r.index[p] = Absent -> "Untracked"
                            [] x = Absent /\ (scope = "Staged" \/ r.index[p] # Absent) -> "Added"
                            [] x # Absent /\ y = Absent -> "Deleted"
                            [] OTHER -> "Modified"
  BY <1>3, FileOfMoment
<1>5. CASE file = NoFile /\ x = y
  BY <1>1, <1>2, <1>5 DEF ShowsAs
<1>6. CASE /\ file.patch = sides /\ x # y /\ DOMAIN file = {"status", "patch"}
           /\ file.status = CASE x = Absent /\ scope # "Staged" /\ r.index[p] = Absent -> "Untracked"
                              [] x = Absent /\ (scope = "Staged" \/ r.index[p] # Absent) -> "Added"
                              [] x # Absent /\ y = Absent -> "Deleted"
                              [] OTHER -> "Modified"
  <2>1. (HasOld(file) <=> x # Absent) /\ (HasNew(file) <=> y # Absent)
    <3> HIDE DEF file, x, y
    <3>1. CASE x = Absent
      <4>1. file.status \in {"Untracked", "Added"} /\ y # Absent
        BY <1>6, <3>1
      <4> QED BY <3>1, <4>1 DEF HasOld, HasNew
    <3>2. CASE x # Absent /\ y = Absent
      <4>1. file.status = "Deleted"
        BY <1>6, <3>2
      <4> QED BY <3>2, <4>1 DEF HasOld, HasNew
    <3>3. CASE x # Absent /\ y # Absent
      <4>1. file.status = "Modified"
        BY <1>6, <3>3
      <4> QED BY <3>3, <4>1 DEF HasOld, HasNew
    <3> QED BY <3>1, <3>2, <3>3
  <2>2. /\ HasOld(file) => old = IF scope = "Unstaged" THEN r.index[p] ELSE r.head[p]
        /\ ~HasOld(file) => old = Absent
        /\ NewLocation(scope, s, p) = IF scope = "Staged" /\ HasNew(file) THEN r.index[p] ELSE Absent
    BY <1>3, DocumentOfMoment
  <2>3. x = IF scope = "Unstaged" THEN r.index[p] ELSE r.head[p]
    BY DEF Sides
  <2>4. y = IF scope = "Staged" THEN r.index[p]
            ELSE IF scope = "Both" /\ r.index[p] = Absent /\ r.head[p] # Absent THEN Absent ELSE r.worktree[p]
    BY DEF Sides
  <2>5. InWorktree(scope, s, p) <=> scope # "Staged" /\ HasNew(file)
    BY DEF InWorktree
  <2>6. old = x
    BY <2>1, <2>2, <2>3
  <2>7. new \in {Absent, y}
    <3>1. CASE InWorktree(scope, s, p)
      <4>1. y = r.worktree[p]
        BY <2>1, <2>4, <2>5, <3>1
      <4> QED BY <3>1, <4>1
    <3>2. CASE ~InWorktree(scope, s, p)
      <4>1. new = NewLocation(scope, s, p)
        BY <3>2
      <4> QED BY <2>1, <2>2, <2>4, <4>1
    <3> QED BY <3>1, <3>2
  <2>8. ~unread => new = y
    BY <2>1, <2>7
  <2> HIDE DEF file, old, new, x, y, sides, unread
  <2>9. file # NoFile
    <3>1. DOMAIN NoFile = {"status"}
      BY DEF NoFile
    <3> QED BY <1>6, <3>1
  <2>10. CASE unread
    <3>1. Captured(scope, s, p) = file
      BY <1>1, <2>10
    <3> QED BY <1>2, <1>6, <2>9, <3>1 DEF ShowsAs, sides
  <2>11. CASE ~unread
    <3>1. Captured(scope, s, p) = [file EXCEPT !.patch = <<old, new>>]
      BY <1>1, <2>9, <2>11
    <3>2. DOMAIN Captured(scope, s, p) = {"status", "patch"} /\ Captured(scope, s, p).patch = <<old, new>>
      BY <1>6, <3>1
    <3>3. Captured(scope, s, p) # NoFile
      <4>1. DOMAIN NoFile = {"status"}
        BY DEF NoFile
      <4> QED BY <3>2, <4>1
    <3>4. <<old, new>> = sides
      BY <1>2, <2>6, <2>8, <2>11
    <3> QED BY <1>2, <1>6, <3>2, <3>3, <3>4 DEF ShowsAs, sides
  <2> QED BY <2>10, <2>11
<1> QED BY <1>4, <1>5, <1>6

\* The readings of a round that its document is made of.
IsInput(cell, round) == cell.round = round /\ cell.what \notin {"captured", "matched"}

\* A round in which the inputs of the document were all read of this repository.
LEMMA RoundOfMoment ==
  ASSUME NEW l, l.scope \in PossibleScopes, l.at \in Int, l.at = Len(Reads[l.scope]) + 1,
         NEW round \in Rounds, NEW r,
         \A i \in 1..l.at - 1 : IsInput(Reads[l.scope][i], round) =>
           Value(l.seen, Reads[l.scope][i]) = Found(Reads[l.scope][i], r)
  PROVE  ReadingsOf(l.scope, l.seen[round], r)
<1> DEFINE scope == l.scope
           s == l.seen[round]
<1>0. /\ 0 \in 0..PathCount /\ \A p \in Paths : p \in 0..PathCount
  BY ConstantsAssumption DEF ConstantsAssumption, Paths
<1>1. /\ Len(Inputs[scope]) \in Nat /\ Len(Reads[scope]) \in Nat /\ Len(Inputs[scope]) <= Len(Reads[scope])
  BY ReadsAre
<1>2. ASSUME NEW what \in Whats \ {"captured", "matched"}, NEW path, HasRead(l, Cell(round, what, path))
      PROVE  s[what][path] = Found(Cell(round, what, path), r)
  <2>1. PICK i \in 1..l.at - 1 : Reads[scope][i] = Cell(round, what, path)
    BY <1>2 DEF HasRead
  <2>2. Value(l.seen, Cell(round, what, path)) = Found(Cell(round, what, path), r)
    BY <2>1, CellFields DEF IsInput
  <2>3. Value(l.seen, Cell(round, what, path)) = s[what][path]
    BY ONLY CellFields DEF Value
  <2> QED BY <2>2, <2>3
<1>3. ASSUME NEW what \in Whats \ {"captured", "matched"}, NEW path \in 0..PathCount, Wanted(scope, what, path)
      PROVE  s[what][path] = Found(Cell(round, what, path), r)
  <2>1. HasRead(l, Cell(round, what, path))
    BY <1>1, <1>3, InputsRead
  <2> QED BY <1>2, <2>1
<1>4. s["diff"][0] = [head |-> r.head, index |-> r.index] /\ s["status"][0] = [head |-> r.head, index |-> r.index]
  <2>1. \A what \in {"diff", "status"} : s[what][0] = Found(Cell(round, what, 0), r)
    BY <1>0, <1>3 DEF Wanted, Whats
  <2>2. \A what \in {"diff", "status"} : Found(Cell(round, what, 0), r) = [head |-> r.head, index |-> r.index]
    BY CellFields DEF Found
  <2> QED BY <2>1, <2>2
<1>5. ASSUME scope # "Unstaged" PROVE s["head"][0] = r.born /\ s["tree"][0] = r.head
  <2>1. \A what \in {"head", "tree"} : s[what][0] = Found(Cell(round, what, 0), r)
    BY <1>0, <1>3, <1>5 DEF Wanted, Whats
  <2>2. Found(Cell(round, "head", 0), r) = r.born /\ Found(Cell(round, "tree", 0), r) = r.head
    BY CellFields DEF Found
  <2> QED BY <2>1, <2>2
<1>6. ASSUME scope # "Both" PROVE s["index"][0] = r.index
  <2>1. s["index"][0] = Found(Cell(round, "index", 0), r)
    BY <1>0, <1>3, <1>6 DEF Wanted, Whats
  <2>2. Found(Cell(round, "index", 0), r) = r.index
    BY CellFields DEF Found
  <2> QED BY <2>1, <2>2
<1>7. ASSUME scope # "Staged"
      PROVE  s["listing"][0] = {p \in Paths : r.index[p] = Absent /\ r.worktree[p] # Absent}
  <2>1. s["listing"][0] = Found(Cell(round, "listing", 0), r)
    BY <1>0, <1>3, <1>7 DEF Wanted, Whats
  <2>2. Found(Cell(round, "listing", 0), r) = {p \in Paths : r.index[p] = Absent /\ r.worktree[p] # Absent}
    BY CellFields DEF Found
  <2> QED BY <2>1, <2>2
<1>8. ASSUME NEW p \in Paths
      PROVE  /\ s["stat"][p] = r.worktree[p]
             /\ scope # "Staged" => s["diffed"][p] = r.worktree[p] /\ s["untracked"][p] = r.worktree[p]
  <2>1. s["stat"][p] = Found(Cell(round, "stat", p), r)
    BY <1>0, <1>3 DEF Wanted, Whats
  <2>2. scope # "Staged" => \A what \in {"diffed", "untracked"} : s[what][p] = Found(Cell(round, what, p), r)
    BY <1>0, <1>3 DEF Wanted, Whats
  <2>3. \A what \in {"stat", "diffed", "untracked"} : Found(Cell(round, what, p), r) = r.worktree[p]
    BY CellFields DEF Found
  <2> QED BY <2>1, <2>2, <2>3
<1> QED BY <1>4, <1>5, <1>6, <1>7, <1>8 DEF ReadingsOf

\* The readings of files in a load, in their order.
LEMMA FileReadings ==
  ASSUME NEW l, l.scope \in PossibleScopes, l.scope # "Staged", l.at \in Int, l.at = Len(Reads[l.scope]) + 1,
         NEW p \in Paths
  PROVE  \E c, d, u, m \in 1..l.at - 1 :
           /\ Reads[l.scope][c] = Cell("initial", "captured", p) /\ Reads[l.scope][d] = Cell("final", "diffed", p)
           /\ Reads[l.scope][u] = Cell("final", "untracked", p) /\ Reads[l.scope][m] = Cell("final", "matched", p)
           /\ c < d /\ c < u /\ d < m /\ u < m
           /\ \A i \in 1..l.at - 1 : IsInput(Reads[l.scope][i], "initial") => i < c
           /\ \A i \in 1..l.at - 1 : IsInput(Reads[l.scope][i], "final") => c < i /\ i < m
<1> DEFINE scope == l.scope
           reads == Reads[scope]
<1>1. l.at - 1 = Len(reads) /\ Len(reads) \in Nat
  BY ReadsAre
<1>2. p \in 0..PathCount
  BY ConstantsAssumption DEF ConstantsAssumption, Paths
<1>3. \A cell : Occurs(reads, cell) => \E i \in 1..l.at - 1 : reads[i] = cell
  BY <1>1 DEF Occurs
<1>4. \A what \in {"diffed", "untracked"} : Occurs(Inputs[scope], Cell("final", what, p))
  <2>1. \A what \in {"diffed", "untracked"} : what \in Whats \ {"captured", "matched"} /\ Wanted(scope, what, p)
    BY DEF Whats, Wanted
  <2> QED BY <1>2, <2>1, InputsAre DEF Rounds
<1>5. Occurs(Inputs[scope], Cell("initial", "captured", p))
  BY InputsAre
<1>6. \A cell : Occurs(Inputs[scope], cell) \/ (scope # "Staged" /\ \E q \in Paths : cell = Cell("final", "matched", q))
         => Occurs(reads, cell)
  BY ReadsAre
<1>7. PICK c \in 1..l.at - 1 : reads[c] = Cell("initial", "captured", p)
  BY <1>3, <1>5, <1>6
<1>8. PICK d \in 1..l.at - 1 : reads[d] = Cell("final", "diffed", p)
  BY <1>3, <1>4, <1>6
<1>9. PICK u \in 1..l.at - 1 : reads[u] = Cell("final", "untracked", p)
  BY <1>3, <1>4, <1>6
<1>10. PICK m \in 1..l.at - 1 : reads[m] = Cell("final", "matched", p)
  BY <1>3, <1>6
<1>11. \A i \in 1..l.at - 1 : reads[i] \in Cells
  BY <1>1, ReadOrder
<1>12. ASSUME NEW i \in 1..l.at - 1, NEW j \in 1..l.at - 1, Stage(reads[i]) < Stage(reads[j])
       PROVE  i < j
  BY <1>1, <1>12, ReadOrder
<1>13. /\ Stage(reads[c]) = 9 /\ Stage(reads[d]) = 13 /\ Stage(reads[u]) = 17 /\ Stage(reads[m]) = 21
  <2>1. /\ reads[c].round = "initial" /\ reads[c].what = "captured" /\ reads[d].round = "final" /\ reads[d].what = "diffed"
        /\ reads[u].round = "final" /\ reads[u].what = "untracked" /\ reads[m].round = "final" /\ reads[m].what = "matched"
    BY <1>7, <1>8, <1>9, <1>10, CellFields
  <2> QED BY <2>1 DEF Stage
<1>14. ASSUME NEW i \in 1..l.at - 1, IsInput(reads[i], "initial")
       PROVE  Stage(reads[i]) < 9
  <2>1. reads[i].round = "initial" /\ reads[i].what \in Whats \ {"captured", "matched"}
    BY <1>11, <1>14 DEF IsInput, Cells
  <2> QED BY <2>1, SMTT(30) DEF Stage, Whats
<1>15. ASSUME NEW i \in 1..l.at - 1, IsInput(reads[i], "final")
       PROVE  9 < Stage(reads[i]) /\ Stage(reads[i]) < 21
  <2>1. reads[i].round = "final" /\ reads[i].what \in Whats \ {"captured", "matched"}
    BY <1>11, <1>15 DEF IsInput, Cells
  <2> QED BY <2>1, SMTT(30) DEF Stage, Whats
<1> HIDE DEF reads
<1>16. c < d /\ c < u /\ d < m /\ u < m
  BY <1>12, <1>13
<1>17. \A i \in 1..l.at - 1 : IsInput(reads[i], "initial") => i < c
  BY <1>12, <1>13, <1>14
<1>18. \A i \in 1..l.at - 1 : IsInput(reads[i], "final") => c < i /\ i < m
  BY <1>12, <1>13, <1>15
<1> QED BY <1>7, <1>8, <1>9, <1>10, <1>16, <1>17, <1>18 DEF reads

\* The readings of a file in a round in which r became t: a reading is early when it came before
\* that, and then so are the ones before it.
Flags == {"head", "diff", "diffed", "status", "stat", "listing", "untracked", "tree", "index"}
InOrder(early) ==
  /\ early \in [Flags -> BOOLEAN]
  /\ (early["index"] => early["tree"]) /\ (early["tree"] => early["untracked"])
  /\ (early["untracked"] => early["listing"]) /\ (early["listing"] => early["stat"])
  /\ (early["stat"] => early["status"]) /\ (early["status"] => early["diffed"])
  /\ (early["diffed"] => early["diff"]) /\ (early["diff"] => early["head"])

\* What a round in which r became t found of a file.
Mixed(scope, s, r, t, early, p) ==
  /\ s["diff"][0].head[p] = IF early["diff"] THEN r.head[p] ELSE t.head[p]
  /\ s["diff"][0].index[p] = IF early["diff"] THEN r.index[p] ELSE t.index[p]
  /\ s["status"][0].head[p] = IF early["status"] THEN r.head[p] ELSE t.head[p]
  /\ s["status"][0].index[p] = IF early["status"] THEN r.index[p] ELSE t.index[p]
  /\ s["stat"][p] = IF early["stat"] THEN r.worktree[p] ELSE t.worktree[p]
  /\ scope # "Unstaged" =>
       /\ s["head"][0] = IF early["head"] THEN r.born ELSE t.born
       /\ s["tree"][0][p] = IF early["tree"] THEN r.head[p] ELSE t.head[p]
  /\ scope # "Both" => s["index"][0][p] = IF early["index"] THEN r.index[p] ELSE t.index[p]
  /\ scope # "Staged" =>
       /\ s["diffed"][p] = IF early["diffed"] THEN r.worktree[p] ELSE t.worktree[p]
       /\ s["untracked"][p] = IF early["untracked"] THEN r.worktree[p] ELSE t.worktree[p]
       /\ p \in s["listing"][0] <=> IF early["listing"] THEN r.index[p] = Absent /\ r.worktree[p] # Absent
                                                       ELSE t.index[p] = Absent /\ t.worktree[p] # Absent

\* A reading before k, or one that comes no later than such a reading.
Early(l, k, cell) == \E i \in 1..l.at - 1 : i < k /\ ~Before(Reads[l.scope][i], cell)

LEMMA BeforeOrders ==
  ASSUME NEW a \in Cells, NEW b \in Cells, NEW c \in Cells
  PROVE  /\ ~Before(a, a)
         /\ Before(a, b) /\ Before(b, c) => Before(a, c)
<1>1. /\ Stage(a) \in Int /\ Stage(b) \in Int /\ Stage(c) \in Int
      /\ a.path \in Int /\ b.path \in Int /\ c.path \in Int
  BY StageType, ConstantsAssumption DEF ConstantsAssumption, Cells
<1> QED BY <1>1 DEF Before

LEMMA EarlyReadings ==
  ASSUME NEW l, l.scope \in PossibleScopes, l.at \in Int, l.at = Len(Reads[l.scope]) + 1, NEW k \in Int
  PROVE  /\ \A i \in 1..l.at - 1 : Early(l, k, Reads[l.scope][i]) <=> i < k
         /\ \A a, b \in Cells : Stage(a) < Stage(b) /\ Early(l, k, b) => Early(l, k, a)
<1> DEFINE reads == Reads[l.scope]
<1>1. l.at - 1 = Len(reads) /\ \A i \in 1..l.at - 1 : reads[i] \in Cells
  BY ReadsAre, ReadOrder
<1>2. \A i, j \in 1..l.at - 1 : i < j => Before(reads[i], reads[j])
  BY <1>1, ReadsAre DEF Ordered
<1> HIDE DEF reads
<1>3. ASSUME NEW i \in 1..l.at - 1
      PROVE  Early(l, k, reads[i]) <=> i < k
  <2>1. i < k => Early(l, k, reads[i])
    BY <1>1, BeforeOrders DEF Early, reads
  <2>2. ASSUME NEW j \in 1..l.at - 1, j < k, ~Before(reads[j], reads[i])
        PROVE  i < k
    BY <1>2, <2>2
  <2> QED BY <2>1, <2>2 DEF Early, reads
<1>4. ASSUME NEW a \in Cells, NEW b \in Cells, Stage(a) < Stage(b), Early(l, k, b)
      PROVE  Early(l, k, a)
  <2>1. PICK i \in 1..l.at - 1 : i < k /\ ~Before(reads[i], b)
    BY <1>4 DEF Early, reads
  <2>2. Before(a, b)
    BY <1>4 DEF Before
  <2>3. ~Before(reads[i], a)
    BY <1>1, <2>1, <2>2, BeforeOrders
  <2> QED BY <2>1, <2>3 DEF Early, reads
<1> QED BY <1>3, <1>4 DEF reads

LEMMA MixedRound ==
  ASSUME NEW l, l.scope \in PossibleScopes, l.at \in Int, l.at = Len(Reads[l.scope]) + 1,
         NEW round \in Rounds, NEW k \in Int, NEW r, NEW t, NEW p \in Paths,
         \A i \in 1..l.at - 1 : IsInput(Reads[l.scope][i], round) =>
           Value(l.seen, Reads[l.scope][i]) = Found(Reads[l.scope][i], IF i < k THEN r ELSE t)
  PROVE  \E early : /\ InOrder(early) /\ Mixed(l.scope, l.seen[round], r, t, early, p)
                    /\ early["diff"] <=> Early(l, k, Cell(round, "diff", 0))
<1> DEFINE scope == l.scope
           s == l.seen[round]
           path(what) == IF what \in {"diffed", "stat", "untracked"} THEN p ELSE 0
           cell(what) == Cell(round, what, path(what))
           early == [what \in Flags |-> Early(l, k, cell(what))]
<1>1. /\ 0 \in 0..PathCount /\ p \in 0..PathCount
  BY ConstantsAssumption DEF ConstantsAssumption, Paths
<1>2. /\ Len(Inputs[scope]) \in Nat /\ Len(Reads[scope]) \in Nat /\ Len(Inputs[scope]) <= Len(Reads[scope])
  BY ReadsAre
<1>3. \A what \in Flags : what \in Whats \ {"captured", "matched"} /\ cell(what) \in Cells
  BY <1>1 DEF Flags, Whats, Cells, Cell
<1>4. InOrder(early)
  <2>1. /\ Stage(cell("head")) < Stage(cell("diff")) /\ Stage(cell("diff")) < Stage(cell("diffed"))
        /\ Stage(cell("diffed")) < Stage(cell("status")) /\ Stage(cell("status")) < Stage(cell("stat"))
        /\ Stage(cell("stat")) < Stage(cell("listing")) /\ Stage(cell("listing")) < Stage(cell("untracked"))
        /\ Stage(cell("untracked")) < Stage(cell("tree")) /\ Stage(cell("tree")) < Stage(cell("index"))
    BY CellFields DEF Stage
  <2>2. ASSUME NEW a \in Flags, NEW b \in Flags, Stage(cell(a)) < Stage(cell(b)), early[b]
        PROVE  early[a]
    <3>1. cell(a) \in Cells /\ cell(b) \in Cells
      BY <1>3
    <3>2. Early(l, k, cell(b))
      BY <2>2
    <3> HIDE DEF cell
    <3>3. Early(l, k, cell(a))
      BY <2>2, <3>1, <3>2, EarlyReadings
    <3> QED BY <3>3
  <2>3. early \in [Flags -> BOOLEAN]
    BY DEF Early
  <2> HIDE DEF early, cell
  <2> QED BY <2>1, <2>2, <2>3 DEF InOrder, Flags
<1>5. ASSUME NEW what \in Flags, Wanted(scope, what, path(what))
      PROVE  s[what][path(what)] = Found(cell(what), IF early[what] THEN r ELSE t)
  <2>1. path(what) \in 0..PathCount /\ what \in Whats \ {"captured", "matched"}
    BY <1>1, <1>3
  <2>2. HasRead(l, cell(what))
    BY <1>2, <1>5, <2>1, InputsRead
  <2>3. PICK i \in 1..l.at - 1 : Reads[scope][i] = cell(what)
    BY <2>2 DEF HasRead
  <2>4. IsInput(cell(what), round)
    BY <2>1, CellFields DEF IsInput
  <2>5. Value(l.seen, cell(what)) = s[what][path(what)]
    <3>1. cell(what).round = round /\ cell(what).what = what /\ cell(what).path = path(what)
      BY CellFields
    <3> HIDE DEF cell
    <3> QED BY <3>1 DEF Value
  <2>6. early[what] <=> i < k
    BY <2>3, EarlyReadings
  <2> HIDE DEF early, cell
  <2>7. Value(l.seen, cell(what)) = Found(cell(what), IF i < k THEN r ELSE t)
    BY <2>3, <2>4
  <2> QED BY <2>5, <2>6, <2>7
<1>6. /\ \A v : Found(cell("head"), v) = v.born /\ Found(cell("tree"), v) = v.head /\ Found(cell("index"), v) = v.index
      /\ \A v : Found(cell("listing"), v) = {q \in Paths : v.index[q] = Absent /\ v.worktree[q] # Absent}
      /\ \A what \in {"diff", "status"} : \A v : Found(cell(what), v) = [head |-> v.head, index |-> v.index]
      /\ \A what \in {"diffed", "stat", "untracked"} : \A v : Found(cell(what), v) = v.worktree[p]
  BY CellFields DEF Found
<1>7. /\ \A what \in {"diff", "status", "stat"} : Wanted(scope, what, path(what))
      /\ scope # "Unstaged" => Wanted(scope, "head", 0) /\ Wanted(scope, "tree", 0)
      /\ scope # "Both" => Wanted(scope, "index", 0)
      /\ scope # "Staged" => Wanted(scope, "diffed", p) /\ Wanted(scope, "untracked", p) /\ Wanted(scope, "listing", 0)
  BY DEF Wanted
<1>8. early["diff"] <=> Early(l, k, Cell(round, "diff", 0))
  BY DEF Flags
<1> HIDE DEF early, cell
<1>9. \A what \in {"diff", "status"} :
        s[what][0] = IF early[what] THEN [head |-> r.head, index |-> r.index] ELSE [head |-> t.head, index |-> t.index]
  BY <1>5, <1>6, <1>7 DEF Flags
<1>10. s["stat"][p] = IF early["stat"] THEN r.worktree[p] ELSE t.worktree[p]
  BY <1>5, <1>6, <1>7 DEF Flags
<1>11. ASSUME scope # "Unstaged"
       PROVE  /\ s["head"][0] = IF early["head"] THEN r.born ELSE t.born
              /\ s["tree"][0] = IF early["tree"] THEN r.head ELSE t.head
  BY <1>5, <1>6, <1>7, <1>11 DEF Flags
<1>12. ASSUME scope # "Both"
       PROVE  s["index"][0] = IF early["index"] THEN r.index ELSE t.index
  BY <1>5, <1>6, <1>7, <1>12 DEF Flags
<1>13. ASSUME scope # "Staged"
       PROVE  /\ s["diffed"][p] = IF early["diffed"] THEN r.worktree[p] ELSE t.worktree[p]
              /\ s["untracked"][p] = IF early["untracked"] THEN r.worktree[p] ELSE t.worktree[p]
              /\ s["listing"][0] = IF early["listing"]
                                   THEN {q \in Paths : r.index[q] = Absent /\ r.worktree[q] # Absent}
                                   ELSE {q \in Paths : t.index[q] = Absent /\ t.worktree[q] # Absent}
  <2>1. \A what \in {"diffed", "untracked"} :
          s[what][p] = Found(cell(what), IF early[what] THEN r ELSE t)
    BY <1>5, <1>7, <1>13 DEF Flags
  <2>2. s["listing"][0] = Found(cell("listing"), IF early["listing"] THEN r ELSE t)
    BY <1>5, <1>7, <1>13 DEF Flags
  <2> QED BY <1>6, <2>1, <2>2
<1>14. Mixed(scope, s, r, t, early, p)
  <2>1. /\ s["diff"][0].head[p] = IF early["diff"] THEN r.head[p] ELSE t.head[p]
        /\ s["diff"][0].index[p] = IF early["diff"] THEN r.index[p] ELSE t.index[p]
        /\ s["status"][0].head[p] = IF early["status"] THEN r.head[p] ELSE t.head[p]
        /\ s["status"][0].index[p] = IF early["status"] THEN r.index[p] ELSE t.index[p]
    BY <1>9
  <2>2. scope # "Unstaged" =>
          /\ s["head"][0] = IF early["head"] THEN r.born ELSE t.born
          /\ s["tree"][0][p] = IF early["tree"] THEN r.head[p] ELSE t.head[p]
    BY <1>11
  <2>3. scope # "Staged" =>
          /\ s["diffed"][p] = IF early["diffed"] THEN r.worktree[p] ELSE t.worktree[p]
          /\ s["untracked"][p] = IF early["untracked"] THEN r.worktree[p] ELSE t.worktree[p]
          /\ p \in s["listing"][0] <=> IF early["listing"] THEN r.index[p] = Absent /\ r.worktree[p] # Absent
                                                          ELSE t.index[p] = Absent /\ t.worktree[p] # Absent
    BY <1>13
  <2>4. scope # "Both" => s["index"][0][p] = IF early["index"] THEN r.index[p] ELSE t.index[p]
    BY <1>12
  <2> QED BY <1>10, <2>1, <2>2, <2>3, <2>4 DEF Mixed
<1> QED BY <1>4, <1>8, <1>14

\* A change of this file alone.
Local(r, t, p) == Edited(r, t, p) \/ Restored(r, t, p)

\* The document of a round that one change met, of a file that the final round, which the next
\* change met, agrees on: it shows the file as it was between the changes, unless one of them put
\* back what the other had changed and both went unseen.
LEMMA FileOfTwoChanges ==
  ASSUME NEW scope \in PossibleScopes, NEW p \in Paths, NEW s, NEW t,
         NEW r0, NEW r1, NEW r2, RepositoryOK(r0), RepositoryOK(r1), RepositoryOK(r2),
         NEW early, InOrder(early), Mixed(scope, s, r0, r1, early, p),
         NEW late, InOrder(late), Mixed(scope, t, r1, r2, late, p),
         MetadataStable(scope, s, t), ~Mismatch(scope, s, t, p),
         scope # "Staged" => s["captured"][p] = r1.worktree[p] /\ t["matched"][p] = r2.worktree[p]
  PROVE  LET Shown(r) == ShowsAs(Captured(scope, s, p), scope, r, p) \/ DeletedBehindItsIndex(scope, r, p)
         IN /\ Kept(r0, r1, p) \/ Kept(r1, r2, p) => Shown(r1)
            /\ Local(r0, r1, p) /\ Local(r1, r2, p) => Shown(r0) \/ Shown(r1)
            /\ Staged(r0, r1, p) /\ Staged(r1, r2, p) =>
                 IF early["diff"] /\ ~late["diff"] THEN Shown(r0) ELSE Shown(r1)
            /\ Local(r0, r1, p) /\ (Staged(r1, r2, p) \/ Committed(r1, r2, p)) => Shown(r1)
            /\ (Staged(r0, r1, p) \/ Committed(r0, r1, p)) /\ Local(r1, r2, p) => Shown(r1)
            /\ Staged(r0, r1, p) /\ Committed(r1, r2, p) => Shown(r1)
            /\ Committed(r0, r1, p) /\ (Staged(r1, r2, p) \/ Committed(r1, r2, p)) => Shown(r1)
<1> DEFINE C(a, b) == IF a = b THEN "None" ELSE IF a = Absent THEN "Added" ELSE IF b = Absent THEN "Deleted" ELSE "Modified"
           hd(q) == q["head"][0]
           dh(q) == q["diff"][0].head[p]
           di(q) == q["diff"][0].index[p]
           dw(q) == q["diffed"][p]
           sh(q) == q["status"][0].head[p]
           si(q) == q["status"][0].index[p]
           sw(q) == q["stat"][p]
           li(q) == p \in q["listing"][0]
           uw(q) == q["untracked"][p]
           th(q) == q["tree"][0][p]
           xi(q) == q["index"][0][p]
           old(q) == Old(scope, q, p)
           new(q) == New(scope, q, p)
           ic(q) == IndexColumn(q, p)
           wc(q) == WorktreeColumn(q, p)
           ut(q) == IsUntracked(q, p)
           rel(q) == Relevant(q, p)
           st(q) == Status(scope, q, p)
           none(q) == File(scope, q, p) = NoFile
           fs(q) == File(scope, q, p).status
           fo(q) == File(scope, q, p).patch[1]
           fn(q) == File(scope, q, p).patch[2]
           ho(q) == HasOld(File(scope, q, p))
           hn(q) == HasNew(File(scope, q, p))
           ol(q) == OldLocation(scope, q, p)
           nl(q) == NewLocation(scope, q, p)
           Facts(q) ==
             /\ old(q) = IF scope = "Unstaged" THEN di(q) ELSE IF hd(q) THEN dh(q) ELSE Absent
             /\ new(q) = IF scope = "Staged" \/ di(q) = Absent THEN di(q) ELSE dw(q)
             /\ ic(q) = C(sh(q), si(q))
             /\ wc(q) = IF si(q) = Absent THEN "None" ELSE C(si(q), sw(q))
             /\ ut(q) <=> si(q) = Absent /\ sw(q) # Absent
             /\ rel(q) = IF wc(q) # "None" THEN wc(q) ELSE IF ic(q) # "None" THEN ic(q)
                         ELSE IF ut(q) THEN "Untracked" ELSE "None"
             /\ st(q) = IF C(old(q), new(q)) = "Modified" /\ rel(q) # "None" THEN rel(q) ELSE C(old(q), new(q))
             /\ none(q) <=> st(q) = "None" /\ ~(scope # "Staged" /\ li(q))
             /\ ~none(q) => /\ fs(q) = IF st(q) # "None" THEN st(q) ELSE "Untracked"
                            /\ fo(q) = IF st(q) # "None" THEN old(q) ELSE Absent
                            /\ fn(q) = IF st(q) # "None" THEN new(q) ELSE uw(q)
             /\ ho(q) <=> ~none(q) /\ fs(q) # "Added" /\ fs(q) # "Untracked"
             /\ hn(q) <=> ~none(q) /\ fs(q) # "Deleted"
             /\ ol(q) = IF ~ho(q) THEN Absent ELSE IF scope = "Unstaged" THEN xi(q) ELSE IF hd(q) THEN th(q) ELSE Absent
             /\ nl(q) = IF scope = "Staged" /\ hn(q) THEN xi(q) ELSE Absent
<1>0. \A q :
        File(scope, q, p) = IF st(q) # "None" THEN [status |-> st(q), patch |-> <<old(q), new(q)>>]
                            ELSE IF scope # "Staged" /\ li(q)
                                 THEN [status |-> "Untracked", patch |-> <<Absent, uw(q)>>]
                                 ELSE NoFile
  BY DEF File
<1>1. ASSUME NEW q PROVE Facts(q)
  <2>0. \A a, b : Column(a, b) = C(a, b)
    BY DEF Column
  <2>1. old(q) = IF scope = "Unstaged" THEN di(q) ELSE IF hd(q) THEN dh(q) ELSE Absent
    BY DEF Old
  <2>2. new(q) = IF scope = "Staged" \/ di(q) = Absent THEN di(q) ELSE dw(q)
    BY DEF New
  <2>3. ic(q) = C(sh(q), si(q))
    BY <2>0 DEF IndexColumn
  <2>4. wc(q) = IF si(q) = Absent THEN "None" ELSE C(si(q), sw(q))
    BY <2>0 DEF WorktreeColumn
  <2>5. ut(q) <=> si(q) = Absent /\ sw(q) # Absent
    BY DEF IsUntracked
  <2>6. rel(q) = IF wc(q) # "None" THEN wc(q) ELSE IF ic(q) # "None" THEN ic(q)
                         ELSE IF ut(q) THEN "Untracked" ELSE "None"
    BY DEF Relevant
  <2>7. st(q) = IF C(old(q), new(q)) = "Modified" /\ rel(q) # "None" THEN rel(q) ELSE C(old(q), new(q))
    BY <2>0 DEF Status
  <2>9. /\ none(q) <=> st(q) = "None" /\ ~(scope # "Staged" /\ li(q))
        /\ none(q) => fs(q) = "None"
        /\ ~none(q) => /\ fs(q) = IF st(q) # "None" THEN st(q) ELSE "Untracked"
                       /\ fo(q) = IF st(q) # "None" THEN old(q) ELSE Absent
                       /\ fn(q) = IF st(q) # "None" THEN new(q) ELSE uw(q)
    <3> HIDE DEF st, old, new, li, uw
    <3> QED BY <1>0 DEF NoFile
  <2>10. ho(q) <=> ~none(q) /\ fs(q) # "Added" /\ fs(q) # "Untracked"
    BY <2>9 DEF HasOld
  <2>11. hn(q) <=> ~none(q) /\ fs(q) # "Deleted"
    BY <2>9 DEF HasNew
  <2>12. ol(q) = IF ~ho(q) THEN Absent ELSE IF scope = "Unstaged" THEN xi(q) ELSE IF hd(q) THEN th(q) ELSE Absent
    BY DEF OldLocation
  <2>13. nl(q) = IF scope = "Staged" /\ hn(q) THEN xi(q) ELSE Absent
    BY DEF NewLocation
  <2> HIDE DEF C, hd, dh, di, dw, sh, si, sw, li, uw, th, xi, old, new, ic, wc, ut, rel, st, none, fs, fo, fn, ho, hn, ol, nl
  <2> QED BY <2>1, <2>2, <2>3, <2>4, <2>5, <2>6, <2>7, <2>9, <2>10, <2>11, <2>12, <2>13
<1> DEFINE b0 == r0.born
           h0 == r0.head[p]
           i0 == r0.index[p]
           w0 == r0.worktree[p]
           b1 == r1.born
           h1 == r1.head[p]
           i1 == r1.index[p]
           w1 == r1.worktree[p]
           b2 == r2.born
           h2 == r2.head[p]
           i2 == r2.index[p]
           w2 == r2.worktree[p]
           cap == s["captured"][p]
           side == IF scope # "Staged" /\ hn(s) THEN cap ELSE nl(s)
           unread == (ho(s) /\ ol(s) = Absent) \/ (hn(s) /\ side = Absent)
           Agreed == /\ old(s) = old(t) /\ new(s) = new(t) /\ ic(s) = ic(t) /\ wc(s) = wc(t)
                     /\ (ut(s) <=> ut(t)) /\ (none(s) <=> none(t))
                     /\ fs(s) = fs(t) /\ fo(s) = fo(t) /\ fn(s) = fn(t) /\ ol(s) = ol(t) /\ nl(s) = nl(t)
                     /\ scope # "Unstaged" => (hd(s) <=> hd(t))
           \* What q read, e of it before (b, h, i, w) became (bb, hh, ii, ww).
           Across(e, q, b, h, i, w, bb, hh, ii, ww) ==
             /\ dh(q) = IF e["diff"] THEN h ELSE hh
             /\ di(q) = IF e["diff"] THEN i ELSE ii
             /\ sh(q) = IF e["status"] THEN h ELSE hh
             /\ si(q) = IF e["status"] THEN i ELSE ii
             /\ sw(q) = IF e["stat"] THEN w ELSE ww
             /\ scope # "Unstaged" => /\ hd(q) <=> IF e["head"] THEN b ELSE bb
                                      /\ th(q) = IF e["tree"] THEN h ELSE hh
             /\ scope # "Both" => xi(q) = IF e["index"] THEN i ELSE ii
             /\ scope # "Staged" =>
                  /\ dw(q) = IF e["diffed"] THEN w ELSE ww
                  /\ uw(q) = IF e["untracked"] THEN w ELSE ww
                  /\ li(q) <=> IF e["listing"] THEN i = Absent /\ w # Absent ELSE ii = Absent /\ ww # Absent
           Chain(e) ==
             /\ (e["index"] => e["tree"]) /\ (e["tree"] => e["untracked"]) /\ (e["untracked"] => e["listing"])
             /\ (e["listing"] => e["stat"]) /\ (e["stat"] => e["status"]) /\ (e["status"] => e["diffed"])
             /\ (e["diffed"] => e["diff"]) /\ (e["diff"] => e["head"])
           \* How a change takes (b, h, i, w) to (bb, hh, ii, ww).
           Keeps(b, h, i, w, bb, hh, ii, ww) == bb = b /\ hh = h /\ ii = i /\ ww = w
           Edits(b, h, i, w, bb, hh, ii, ww) == bb = b /\ hh = h /\ ii = i
           Stagings(b, h, i, w, bb, hh, ii, ww) == bb = b /\ hh = h /\ ww = w /\ (ii = i \/ ii = h \/ ii = w)
           Commits(b, h, i, w, bb, hh, ii, ww) == bb /\ hh = i /\ ii = i /\ ww = w
           Restores(b, h, i, w, bb, hh, ii, ww) == bb = b /\ hh = h /\ ii = h /\ ww = h
           \* That (h, i, w) is shown.
           Shows(h, i, w) ==
             LET x == IF scope = "Unstaged" THEN i ELSE h
                 y == IF scope = "Staged" THEN i ELSE IF scope = "Both" /\ i = Absent /\ h # Absent THEN Absent ELSE w
             IN \/ scope = "Staged" /\ h # Absent /\ i # Absent /\ w = Absent
                \/ IF x = y THEN none(s)
                   ELSE ~none(s) /\ IF unread THEN fo(s) = x /\ fn(s) = y ELSE ol(s) = x /\ side = y
<1>2. Facts(s) /\ Facts(t)
  BY <1>1
<1>3. Agreed
  BY DEF MetadataStable, SameDocument, SameLocations
<1>4. Across(early, s, b0, h0, i0, w0, b1, h1, i1, w1)
  BY DEF Mixed
<1>5. Across(late, t, b1, h1, i1, w1, b2, h2, i2, w2)
  BY DEF Mixed
<1>6. /\ b0 \in BOOLEAN /\ b1 \in BOOLEAN /\ b2 \in BOOLEAN
      /\ (~b0 => h0 = Absent) /\ (~b1 => h1 = Absent) /\ (~b2 => h2 = Absent)
  BY TreeTypes
<1>7. scope # "Staged" => cap = w1 /\ (hn(s) /\ cap # Absent => cap = w2)
  BY DEF Mismatch, InWorktree
<1>8. scope \in {"Unstaged", "Staged", "Both"}
  BY DEF PossibleScopes
<1>9. Chain(early) /\ Chain(late)
  BY DEF InOrder
<1>p. ol(s) # Unavailable /\ side # Unavailable
  <2>1. {h0, i0, w0, h1, i1, w1, Absent} \subseteq Contents \cup {Absent}
    BY TreeTypes DEF Tree
  <2>2. \A file \in Contents \cup {Absent} : file # Unavailable
    BY ConstantsAssumption DEF ConstantsAssumption
  <2>3. /\ ol(s) = IF ~ho(s) THEN Absent ELSE IF scope = "Unstaged" THEN xi(s) ELSE IF hd(s) THEN th(s) ELSE Absent
        /\ nl(s) = IF scope = "Staged" /\ hn(s) THEN xi(s) ELSE Absent
    BY <1>2
  <2>4. /\ scope # "Unstaged" => th(s) \in {h0, h1}
        /\ scope # "Both" => xi(s) \in {i0, i1}
    BY <1>4
  <2> HIDE DEF h0, i0, w0, h1, i1, w1, ol, nl, ho, hn, hd, th, xi, cap
  <2>5. ol(s) \in {h0, i0, h1, i1, Absent} /\ nl(s) \in {i0, i1, Absent}
    BY <2>3, <2>4
  <2>6. side \in {nl(s), w1}
    BY <1>7
  <2> QED BY <2>1, <2>2, <2>5, <2>6
<1>10. ASSUME NEW r, Shows(r.head[p], r.index[p], r.worktree[p])
       PROVE  ShowsAs(Captured(scope, s, p), scope, r, p) \/ DeletedBehindItsIndex(scope, r, p)
  <2> DEFINE x == IF scope = "Unstaged" THEN r.index[p] ELSE r.head[p]
             y == IF scope = "Staged" THEN r.index[p]
                  ELSE IF scope = "Both" /\ r.index[p] = Absent /\ r.head[p] # Absent THEN Absent ELSE r.worktree[p]
             file == File(scope, s, p)
  <2>1. Sides(scope, r, p) = <<x, y>>
    BY DEF Sides
  <2>2. Changed(scope, r, p) <=> x # y
    BY <2>1 DEF Changed
  <2>3. Captured(scope, s, p) = IF none(s) \/ unread THEN file ELSE [file EXCEPT !.patch = <<ol(s), side>>]
    BY <1>p DEF Captured, InWorktree
  <2>4. ~none(s) => file = [status |-> fs(s), patch |-> <<fo(s), fn(s)>>]
    <3> HIDE DEF st, old, new, li, uw
    <3> QED BY <1>0
  <2>5. none(s) => file = NoFile
    OBVIOUS
  <2>6. CASE scope = "Staged" /\ r.head[p] # Absent /\ r.index[p] # Absent /\ r.worktree[p] = Absent
    BY <2>6 DEF DeletedBehindItsIndex
  <2>7. CASE IF x = y THEN none(s)
             ELSE ~none(s) /\ IF unread THEN fo(s) = x /\ fn(s) = y ELSE ol(s) = x /\ side = y
    <3> HIDE DEF x, y, file, none, unread, fs, fo, fn, ol, side
    <3>1. CASE x = y
      BY <2>2, <2>3, <2>5, <2>7, <3>1 DEF ShowsAs
    <3>2. CASE x # y
      <4>1. ~none(s) /\ Captured(scope, s, p) = [status |-> fs(s), patch |-> <<x, y>>]
        BY <2>3, <2>4, <2>7, <3>2
      <4>2. Captured(scope, s, p) # NoFile
        <5>1. DOMAIN Captured(scope, s, p) = {"status", "patch"}
          BY <4>1
        <5>2. DOMAIN NoFile = {"status"}
          BY DEF NoFile
        <5> QED BY <5>1, <5>2
      <4> QED BY <2>1, <2>2, <3>2, <4>1, <4>2 DEF ShowsAs
    <3> QED BY <3>1, <3>2
  <2> QED BY <1>10, <2>6, <2>7
<1>11. /\ Kept(r0, r1, p) => Keeps(b0, h0, i0, w0, b1, h1, i1, w1)
       /\ Kept(r1, r2, p) => Keeps(b1, h1, i1, w1, b2, h2, i2, w2)
       /\ Local(r0, r1, p) => Edits(b0, h0, i0, w0, b1, h1, i1, w1) \/ Restores(b0, h0, i0, w0, b1, h1, i1, w1)
       /\ Local(r1, r2, p) => Edits(b1, h1, i1, w1, b2, h2, i2, w2) \/ Restores(b1, h1, i1, w1, b2, h2, i2, w2)
       /\ Staged(r0, r1, p) => Stagings(b0, h0, i0, w0, b1, h1, i1, w1)
       /\ Staged(r1, r2, p) => Stagings(b1, h1, i1, w1, b2, h2, i2, w2)
       /\ Committed(r0, r1, p) => Commits(b0, h0, i0, w0, b1, h1, i1, w1)
       /\ Committed(r1, r2, p) => Commits(b1, h1, i1, w1, b2, h2, i2, w2)
  BY DEF Kept, Local, Edited, Restored, Staged, Committed
<1> HIDE DEF hd, dh, di, dw, sh, si, sw, li, uw, th, xi, old, new, ic, wc, ut, rel, st, none, fs, fo, fn, ho, hn, ol, nl,
             b0, h0, i0, w0, b1, h1, i1, w1, b2, h2, i2, w2, cap
<1>12. ASSUME Keeps(b0, h0, i0, w0, b1, h1, i1, w1)
       PROVE  Shows(h1, i1, w1)
  BY ONLY <1>2, <1>3, <1>4, <1>5, <1>6, <1>7, <1>8, <1>9, <1>12, SMTT(60)
<1>13. ASSUME Keeps(b1, h1, i1, w1, b2, h2, i2, w2)
       PROVE  Shows(h1, i1, w1)
  BY ONLY <1>2, <1>3, <1>4, <1>5, <1>6, <1>7, <1>8, <1>9, <1>13, SMTT(60)
<1>14. ASSUME Edits(b0, h0, i0, w0, b1, h1, i1, w1) \/ Restores(b0, h0, i0, w0, b1, h1, i1, w1),
              Edits(b1, h1, i1, w1, b2, h2, i2, w2) \/ Restores(b1, h1, i1, w1, b2, h2, i2, w2)
       PROVE  Shows(h0, i0, w0) \/ Shows(h1, i1, w1)
  BY ONLY <1>2, <1>3, <1>4, <1>5, <1>6, <1>7, <1>8, <1>9, <1>14, SMTT(60)
<1>15. ASSUME Stagings(b0, h0, i0, w0, b1, h1, i1, w1),
              Stagings(b1, h1, i1, w1, b2, h2, i2, w2),
              early["diff"] /\ ~late["diff"]
       PROVE  Shows(h0, i0, w0)
  BY ONLY <1>2, <1>3, <1>4, <1>5, <1>6, <1>7, <1>8, <1>9, <1>15, SMTT(60)
<1>16. ASSUME Stagings(b0, h0, i0, w0, b1, h1, i1, w1),
              Stagings(b1, h1, i1, w1, b2, h2, i2, w2),
              ~(early["diff"] /\ ~late["diff"])
       PROVE  Shows(h1, i1, w1)
  BY ONLY <1>2, <1>3, <1>4, <1>5, <1>6, <1>7, <1>8, <1>9, <1>16, SMTT(60)
<1>17. ASSUME Edits(b0, h0, i0, w0, b1, h1, i1, w1),
              Stagings(b1, h1, i1, w1, b2, h2, i2, w2) \/ Commits(b1, h1, i1, w1, b2, h2, i2, w2)
       PROVE  Shows(h1, i1, w1)
  BY ONLY <1>2, <1>3, <1>4, <1>5, <1>6, <1>7, <1>8, <1>9, <1>17, SMTT(60)
<1>18. ASSUME Restores(b0, h0, i0, w0, b1, h1, i1, w1),
              Stagings(b1, h1, i1, w1, b2, h2, i2, w2) \/ Commits(b1, h1, i1, w1, b2, h2, i2, w2)
       PROVE  Shows(h1, i1, w1)
  BY ONLY <1>2, <1>3, <1>4, <1>5, <1>6, <1>7, <1>8, <1>9, <1>18, SMTT(60)
<1>19. ASSUME Stagings(b0, h0, i0, w0, b1, h1, i1, w1),
              Edits(b1, h1, i1, w1, b2, h2, i2, w2) \/ Commits(b1, h1, i1, w1, b2, h2, i2, w2) \/ Restores(b1, h1, i1, w1, b2, h2, i2, w2)
       PROVE  Shows(h1, i1, w1)
  BY ONLY <1>2, <1>3, <1>4, <1>5, <1>6, <1>7, <1>8, <1>9, <1>19, SMTT(60)
<1>20. ASSUME Commits(b0, h0, i0, w0, b1, h1, i1, w1),
              Edits(b1, h1, i1, w1, b2, h2, i2, w2)
       PROVE  Shows(h1, i1, w1)
  BY ONLY <1>2, <1>3, <1>4, <1>5, <1>6, <1>7, <1>8, <1>9, <1>20, SMTT(60)
<1>21. ASSUME Commits(b0, h0, i0, w0, b1, h1, i1, w1),
              Stagings(b1, h1, i1, w1, b2, h2, i2, w2)
       PROVE  Shows(h1, i1, w1)
  BY ONLY <1>2, <1>3, <1>4, <1>5, <1>6, <1>7, <1>8, <1>9, <1>21, SMTT(60)
<1>22. ASSUME Commits(b0, h0, i0, w0, b1, h1, i1, w1),
              Commits(b1, h1, i1, w1, b2, h2, i2, w2)
       PROVE  Shows(h1, i1, w1)
  BY ONLY <1>2, <1>3, <1>4, <1>5, <1>6, <1>7, <1>8, <1>9, <1>22, SMTT(60)
<1>23. ASSUME Commits(b0, h0, i0, w0, b1, h1, i1, w1),
              Restores(b1, h1, i1, w1, b2, h2, i2, w2)
       PROVE  Shows(h1, i1, w1)
  BY ONLY <1>2, <1>3, <1>4, <1>5, <1>6, <1>7, <1>8, <1>9, <1>23, SMTT(60)
<1>24. /\ Shows(h0, i0, w0) => ShowsAs(Captured(scope, s, p), scope, r0, p) \/ DeletedBehindItsIndex(scope, r0, p)
       /\ Shows(h1, i1, w1) => ShowsAs(Captured(scope, s, p), scope, r1, p) \/ DeletedBehindItsIndex(scope, r1, p)
  BY <1>10 DEF h0, i0, w0, h1, i1, w1
<1> HIDE DEF Shows, Keeps, Edits, Stagings, Commits, Restores
<1> QED BY <1>11, <1>12, <1>13, <1>14, <1>15, <1>16, <1>17, <1>18, <1>19, <1>20, <1>21, <1>22, <1>23, <1>24

\* What the load is about to return shows the file as it was in r, or r is the exception.
Shown(r, p) == ShowsAs(Captured(load.scope, First, p), load.scope, r, p) \/ DeletedBehindItsIndex(load.scope, r, p)

LEMMA KeptIsShown ==
  ASSUME NEW r, NEW t, NEW p \in Paths, Kept(r, t, p), Shown(t, p)
  PROVE  Shown(r, p)
<1>1. Sides(load.scope, r, p) = Sides(load.scope, t, p)
  BY DEF Kept, Sides
<1> QED BY <1>1 DEF Shown, Kept, ShowsAs, Changed, DeletedBehindItsIndex

LEMMA AllReadIs ==
  ASSUME LoadInv, Loading, AllRead(Reads[load.scope]), ~Moved
  PROVE  /\ load.scope \in PossibleScopes /\ load.at \in Int /\ load.at = Len(Reads[load.scope]) + 1
         /\ TryOf(load, repository) /\ repository \in load.moments /\ \A m \in load.moments : RepositoryOK(m)
         /\ load.changed \in Nat
         /\ MetadataStable(load.scope, First, Second)
         /\ load.scope # "Staged" => \A p \in Paths : ~Mismatch(load.scope, First, Second, p)
<1>1. /\ load.scope \in PossibleScopes /\ load.at \in Int /\ load.at = Len(Reads[load.scope]) + 1
      /\ TryOf(load, repository) /\ load.changed \in Nat
  <2>1. load.at > Len(Reads[load.scope]) /\ load.at <= Len(Reads[load.scope]) + 1 /\ load.at \in Int
    BY DEF LoadInv, LoadTyped, TryOf, AllRead, Loading
  <2>2. load.scope \in PossibleScopes
    BY ScopesArePossible DEF LoadInv, LoadTyped, Loading
  <2>3. Len(Reads[load.scope]) \in Nat
    BY <2>2, ReadsAre
  <2> QED BY <2>1, <2>2, <2>3 DEF LoadInv, LoadTyped
<1>2. repository \in load.moments /\ \A m \in load.moments : RepositoryOK(m)
  BY <1>1 DEF TryOf
<1>3. MetadataStable(load.scope, First, Second)
  <2>1. AllRead(Inputs[load.scope])
    BY <1>1, ReadsAre DEF AllRead
  <2> QED BY <2>1 DEF Moved
<1>4. ASSUME load.scope # "Staged", NEW p \in Paths
      PROVE  ~Mismatch(load.scope, First, Second, p)
  <2>1. Len(Inputs[load.scope]) + p \in 1..Len(Reads[load.scope]) /\ Len(Reads[load.scope]) \in Nat
    BY <1>1, <1>4, ReadsAre
  <2>2. load.at > Len(Inputs[load.scope]) + p
    BY <1>1, <2>1
  <2> QED BY <2>2 DEF Moved
<1> QED BY <1>1, <1>2, <1>3, <1>4

\* The first round read the inputs of one repository, and captured the files as they were in it.
LEMMA FirstOfMoment ==
  ASSUME LoadInv, Loading, AllRead(Reads[load.scope]), ~Moved, NEW r, RepositoryOK(r),
         \A i \in 1..load.at - 1 : IsInput(Reads[load.scope][i], "initial") =>
           Value(load.seen, Reads[load.scope][i]) = Found(Reads[load.scope][i], r),
         NEW p \in Paths, InWorktree(load.scope, First, p) => First["captured"][p] \in {Absent, r.worktree[p]}
  PROVE  Shown(r, p)
<1>1. ReadingsOf(load.scope, First, r)
  BY AllReadIs, RoundOfMoment DEF First, Rounds
<1> QED BY <1>1, AllReadIs, CapturedOfMoment DEF Shown

\* The second round did, and found the same.
LEMMA SecondOfMoment ==
  ASSUME LoadInv, Loading, AllRead(Reads[load.scope]), ~Moved, NEW r, RepositoryOK(r),
         \A i \in 1..load.at - 1 : IsInput(Reads[load.scope][i], "final") =>
           Value(load.seen, Reads[load.scope][i]) = Found(Reads[load.scope][i], r),
         NEW p \in Paths, InWorktree(load.scope, First, p) => First["captured"][p] \in {Absent, r.worktree[p]}
  PROVE  Shown(r, p)
<1>1. ReadingsOf(load.scope, Second, r)
  BY AllReadIs, RoundOfMoment DEF Second, Rounds
<1>2. /\ File(load.scope, First, p) = File(load.scope, Second, p)
      /\ OldLocation(load.scope, First, p) = OldLocation(load.scope, Second, p)
      /\ NewLocation(load.scope, First, p) = NewLocation(load.scope, Second, p)
  BY AllReadIs DEF MetadataStable, SameDocument, SameLocations
<1> QED BY <1>1, <1>2, AllReadIs, CapturedOfMoment DEF Shown

\* A file that has its new side in the worktree is the same whenever it is read of it.
LEMMA NewSideIsRead ==
  ASSUME NEW scope \in PossibleScopes, NEW s, NEW t, NEW p \in Paths, MetadataStable(scope, s, t),
         InWorktree(scope, s, p), NEW r, ReadingsOf(scope, s, r)
  PROVE  t["diffed"][p] = r.worktree[p] \/ t["untracked"][p] = r.worktree[p]
<1>1. scope # "Staged" /\ HasNew(File(scope, s, p))
  BY DEF InWorktree
<1>2. s["diffed"][p] = r.worktree[p] /\ s["untracked"][p] = r.worktree[p]
  BY <1>1 DEF ReadingsOf
<1>3. /\ Old(scope, s, p) = Old(scope, t, p) /\ New(scope, s, p) = New(scope, t, p)
      /\ File(scope, s, p) = File(scope, t, p)
  BY DEF MetadataStable, SameDocument
<1>4. \A a, b : /\ (Column(a, b) = "None" <=> a = b)
                /\ (Column(a, b) = "Deleted" <=> a # b /\ a # Absent /\ b = Absent)
                /\ (Column(a, b) = "Added" => b # Absent)
                /\ (Column(a, b) = "Modified" => a # Absent /\ b # Absent)
                /\ Column(a, b) \in {"None", "Added", "Deleted", "Modified"}
  BY DEF Column
<1> DEFINE old(q) == Old(scope, q, p)
           new(q) == New(scope, q, p)
           status(q) == Status(scope, q, p)
           file(q) == File(scope, q, p)
<1>5. ASSUME NEW q
      PROVE  /\ file(q) = IF status(q) # "None" THEN [status |-> status(q), patch |-> <<old(q), new(q)>>]
                          ELSE IF scope # "Staged" /\ p \in q["listing"][0]
                          THEN [status |-> "Untracked", patch |-> <<Absent, q["untracked"][p]>>]
                          ELSE NoFile
             /\ status(q) = "None" => old(q) = new(q)
             /\ status(q) # "None" => old(q) # new(q)
             /\ new(q) # Absent => new(q) = q["diffed"][p]
             /\ status(q) \notin {"None", "Deleted", "Added"} => old(q) # Absent
             /\ status(q) \notin {"None", "Deleted"} => new(q) # Absent
  <2>1. file(q) = IF status(q) # "None" THEN [status |-> status(q), patch |-> <<old(q), new(q)>>]
                  ELSE IF scope # "Staged" /\ p \in q["listing"][0]
                  THEN [status |-> "Untracked", patch |-> <<Absent, q["untracked"][p]>>]
                  ELSE NoFile
    BY DEF File
  <2>2. new(q) # Absent => new(q) = q["diffed"][p]
    BY <1>1 DEF New
  <2>3. \/ status(q) = Column(old(q), new(q))
        \/ status(q) # "None" /\ Column(old(q), new(q)) = "Modified"
    BY DEF Status
  <2> HIDE DEF old, new, status, file
  <2> QED BY <1>4, <2>1, <2>2, <2>3
<1>6. /\ file(s).status \notin {"Deleted", "None"} /\ file(t).status \notin {"Deleted", "None"}
      /\ file(s) = file(t) /\ old(s) = old(t) /\ new(s) = new(t)
  BY <1>1, <1>3 DEF HasNew
<1> HIDE DEF old, new, status, file
<1>7. CASE status(s) = "None"
  <2>1. file(s) = [status |-> "Untracked", patch |-> <<Absent, s["untracked"][p]>>]
    BY <1>5, <1>6, <1>7 DEF NoFile
  <2>2. status(t) = "None"
    BY <1>5, <1>6, <1>7
  <2>3. file(t) = [status |-> "Untracked", patch |-> <<Absent, t["untracked"][p]>>]
    BY <1>5, <1>6, <2>2 DEF NoFile
  <2>4. file(s).patch[2] = s["untracked"][p] /\ file(t).patch[2] = t["untracked"][p]
    BY <2>1, <2>3
  <2> QED BY <1>2, <1>6, <2>4
<1>8. CASE status(s) # "None"
  <2>1. file(s).status = status(s)
    BY <1>5, <1>8
  <2>2. new(s) # Absent
    BY <1>5, <1>6, <1>8, <2>1
  <2> QED BY <1>2, <1>5, <1>6, <2>2
<1> QED BY <1>7, <1>8

\* A try that met less than three changes read three repositories that follow each other.
LEMMA ReadAcrossTwo ==
  ASSUME LoadInv, Loading, load.changed < 3, load.missed = 0
  PROVE  \E first, second \in load.moments, j, k \in Int :
           /\ j <= k /\ ReadAcross(load, first, j, second, k, repository)
           /\ Follows(first, second) /\ Follows(second, repository)
<1>1. TryOf(load, repository) /\ load.changed \in Nat /\ repository \in load.moments
  BY DEF LoadInv, LoadTyped, TryOf
<1>2. \A r : Follows(r, r)
  BY DEF Follows, Staged
<1>3. CASE load.changed = 0
  <2>1. ReadQuietly(load, repository)
    BY <1>1, <1>3 DEF TryOf
  <2>2. ReadAcross(load, repository, 1, repository, 1, repository)
    BY <2>1 DEF ReadQuietly, ReadAcross
  <2> QED BY <1>1, <1>2, <2>2
<1>4. CASE load.changed = 1
  <2>1. PICK old \in load.moments, k \in Int : ReadAs(load, old, k, repository) /\ Follows(old, repository)
    BY <1>1, <1>4 DEF TryOf
  <2>2. ReadAcross(load, old, k, old, k, repository) /\ k <= k
    BY <2>1 DEF ReadAs, ReadAcross
  <2> QED BY <1>1, <1>2, <2>1, <2>2
<1>5. CASE load.changed = 2
  BY <1>1, <1>5 DEF TryOf
<1>6. load.changed = 0 \/ load.changed = 1 \/ load.changed = 2
  BY <1>1
<1> QED BY <1>3, <1>4, <1>5, <1>6, Zenon

LEMMA ShowsAMoment ==
  ASSUME LoadInv, Loading, AllRead(Reads[load.scope]), ~Moved, load.changed < 3, load.missed = 0
  PROVE  \E r \in load.moments : \A p \in Paths : Shown(r, p)
<1> DEFINE scope == load.scope
           reads == Reads[scope]
           n == load.at - 1
           initial(i) == IsInput(reads[i], "initial")
           final(i) == IsInput(reads[i], "final")
<1>1. /\ scope \in PossibleScopes /\ load.at \in Int /\ load.at = Len(reads) + 1
      /\ repository \in load.moments /\ \A m \in load.moments : RepositoryOK(m)
      /\ MetadataStable(scope, First, Second)
      /\ scope # "Staged" => \A p \in Paths : ~Mismatch(scope, First, Second, p)
  BY AllReadIs
<1>2. PICK first \in load.moments, second \in load.moments, j \in Int, k \in Int :
        /\ j <= k /\ ReadAcross(load, first, j, second, k, repository)
        /\ Follows(first, second) /\ Follows(second, repository)
  BY ReadAcrossTwo
<1> DEFINE At(i) == IF i < j THEN first ELSE IF i < k THEN second ELSE repository
<1>3. \A i \in 1..n : Value(load.seen, reads[i]) = Found(reads[i], At(i))
  BY <1>2 DEF ReadAcross
<1>4. ASSUME scope # "Staged", NEW p \in Paths
      PROVE  \E c, d, u, m \in 1..n :
               /\ First["captured"][p] = At(c).worktree[p] /\ Second["matched"][p] = At(m).worktree[p]
               /\ Second["diffed"][p] = At(d).worktree[p] /\ Second["untracked"][p] = At(u).worktree[p]
               /\ final(d) /\ c < d /\ c < u /\ d < m /\ u < m
               /\ (\A i \in 1..n : initial(i) => i < c) /\ \A i \in 1..n : final(i) => c < i /\ i < m
  <2>1. PICK c \in 1..n, d \in 1..n, u \in 1..n, m \in 1..n :
          /\ reads[c] = Cell("initial", "captured", p) /\ reads[d] = Cell("final", "diffed", p)
          /\ reads[u] = Cell("final", "untracked", p) /\ reads[m] = Cell("final", "matched", p)
          /\ c < d /\ c < u /\ d < m /\ u < m
          /\ \A i \in 1..n : initial(i) => i < c
          /\ \A i \in 1..n : final(i) => c < i /\ i < m
    <3>1. load.scope \in PossibleScopes /\ load.scope # "Staged" /\ load.at \in Int /\ load.at = Len(Reads[load.scope]) + 1
      BY <1>1, <1>4
    <3> QED BY ONLY <1>4, <3>1, FileReadings
  <2>2. \A round, r : \A what \in {"captured", "matched", "diffed", "untracked"} :
          /\ Value(load.seen, Cell(round, what, p)) = load.seen[round][what][p]
          /\ Found(Cell(round, what, p), r) = r.worktree[p]
    BY CellFields DEF Value, Found
  <2>3. final(d)
    BY <2>1, CellFields DEF IsInput
  <2> HIDE DEF At, reads
  <2>4. /\ First["captured"][p] = At(c).worktree[p] /\ Second["matched"][p] = At(m).worktree[p]
        /\ Second["diffed"][p] = At(d).worktree[p] /\ Second["untracked"][p] = At(u).worktree[p]
    BY <1>3, <2>1, <2>2 DEF First, Second
  <2> QED BY <2>1, <2>3, <2>4
<1>5. ASSUME NEW p \in Paths, InWorktree(scope, First, p)
      PROVE  scope # "Staged" /\ First["captured"][p] \in {Absent, Second["matched"][p]}
  BY <1>1, <1>5 DEF InWorktree, Mismatch
<1>6. ASSUME NEW a \in 1..n, NEW b \in 1..n, initial(a), final(b)
      PROVE  a < b
  BY <1>1, <1>6, ReadsAre, ReadOrder DEF IsInput
<1>7. ASSUME \A i \in 1..n : final(i) => ~(i < k)
      PROVE  \A p \in Paths : Shown(repository, p)
  <2>1. \A i \in 1..n : final(i) => Value(load.seen, reads[i]) = Found(reads[i], repository)
    BY <1>2, <1>3, <1>7
  <2>2. ASSUME NEW p \in Paths, InWorktree(scope, First, p)
        PROVE  First["captured"][p] \in {Absent, repository.worktree[p]}
    <3>1. PICK d \in 1..n, m \in 1..n : Second["matched"][p] = At(m).worktree[p] /\ final(d) /\ d < m
      BY <1>4, <1>5, <2>2
    <3>2. At(m) = repository
      BY <1>1, <1>2, <1>7, <3>1
    <3> QED BY <1>5, <2>2, <3>1, <3>2
  <2> QED BY <1>1, <2>1, <2>2, SecondOfMoment
<1>8. ASSUME \A i \in 1..n : initial(i) => i < j
      PROVE  \A p \in Paths : Shown(first, p)
  <2>1. \A i \in 1..n : initial(i) => Value(load.seen, reads[i]) = Found(reads[i], first)
    BY <1>3, <1>8
  <2>2. ReadingsOf(scope, First, first)
    BY <1>1, <2>1, RoundOfMoment DEF First, Rounds
  <2>3. ASSUME NEW p \in Paths, InWorktree(scope, First, p)
        PROVE  First["captured"][p] \in {Absent, first.worktree[p]}
    <3>1. PICK c \in 1..n, d \in 1..n, u \in 1..n, m \in 1..n :
            /\ First["captured"][p] = At(c).worktree[p] /\ Second["matched"][p] = At(m).worktree[p]
            /\ Second["diffed"][p] = At(d).worktree[p] /\ Second["untracked"][p] = At(u).worktree[p]
            /\ c < d /\ c < u /\ d < m /\ u < m
      BY <1>4, <1>5, <2>3
    <3>2. PICK x \in {d, u} : At(x).worktree[p] = first.worktree[p]
      BY <1>1, <2>2, <2>3, <3>1, NewSideIsRead
    <3>3. c < x /\ x < m /\ c \in Int /\ x \in Int /\ m \in Int
      BY <1>1, <3>1, <3>2
    <3>4. CASE c < j
      BY <3>1, <3>4
    <3>5. CASE ~(c < j) /\ c < k /\ x < k
      <4>1. At(c) = second /\ At(x) = second
        BY <1>2, <3>3, <3>5
      <4> QED BY <3>1, <3>2, <4>1
    <3>6. CASE ~(x < k)
      <4>1. At(x) = repository /\ At(m) = repository
        BY <1>2, <3>3, <3>6
      <4> QED BY <1>5, <2>3, <3>1, <3>2, <4>1
    <3> QED BY <1>2, <3>3, <3>4, <3>5, <3>6
  <2> QED BY <1>1, <2>1, <2>3, FirstOfMoment
<1>9. ASSUME NEW a \in 1..n, initial(a), ~(a < j), \A i \in 1..n : final(i) => i < k
      PROVE  \A p \in Paths : Shown(second, p)
  <2>1. \A i \in 1..n : final(i) => ~(i < j) /\ i < k
    BY <1>1, <1>2, <1>6, <1>9
  <2>2. \A i \in 1..n : final(i) => Value(load.seen, reads[i]) = Found(reads[i], second)
    BY <1>3, <2>1
  <2>3. ASSUME NEW p \in Paths, InWorktree(scope, First, p)
        PROVE  First["captured"][p] \in {Absent, second.worktree[p]}
    <3>1. PICK c \in 1..n, d \in 1..n : First["captured"][p] = At(c).worktree[p] /\ final(d) /\ c < d /\ a < c
      BY <1>4, <1>5, <1>9, <2>3
    <3>2. At(c) = second
      BY <1>1, <1>2, <1>9, <3>1
    <3> QED BY <3>1, <3>2
  <2> QED BY <1>1, <2>2, <2>3, SecondOfMoment
<1>10. ASSUME NEW a \in 1..n, initial(a), ~(a < j), NEW b \in 1..n, final(b), b < k,
              NEW e \in 1..n, final(e), ~(e < k)
       PROVE  (\A p \in Paths : Shown(first, p)) \/ \A p \in Paths : Shown(second, p)
  <2> DEFINE Unseen == Early(load, j, Cell("initial", "diff", 0)) /\ ~Early(load, k, Cell("final", "diff", 0))
  <2>1. \A i \in 1..n : initial(i) => Value(load.seen, reads[i]) = Found(reads[i], IF i < j THEN first ELSE second)
    <3>1. \A i \in 1..n : initial(i) => i < k
      BY <1>1, <1>2, <1>6, <1>10
    <3> QED BY <1>3, <3>1
  <2>2. \A i \in 1..n : final(i) =>
          Value(load.seen, reads[i]) = Found(reads[i], IF i < k THEN second ELSE repository)
    <3>1. \A i \in 1..n : final(i) => ~(i < j)
      <4>1. \A i \in 1..n : final(i) => a < i
        BY <1>6, <1>10
      <4>2. ~(a < j) /\ a \in Int /\ n \in Int
        BY <1>1, <1>10
      <4> HIDE DEF final, n
      <4> QED BY <4>1, <4>2
    <3> QED BY <1>3, <3>1
  <2>3. ASSUME scope # "Staged", NEW p \in Paths
        PROVE  First["captured"][p] = second.worktree[p] /\ Second["matched"][p] = repository.worktree[p]
    <3>1. PICK c \in 1..n, m \in 1..n :
            /\ First["captured"][p] = At(c).worktree[p] /\ Second["matched"][p] = At(m).worktree[p]
            /\ a < c /\ c < b /\ e < m
      BY <1>4, <1>10, <2>3
    <3>2. At(c) = second /\ At(m) = repository
      BY <1>1, <1>2, <1>10, <3>1
    <3> QED BY <3>1, <3>2
  <2>4. ASSUME NEW p \in Paths
        PROVE  /\ Kept(first, second, p) \/ Kept(second, repository, p) => Shown(second, p)
               /\ Local(first, second, p) /\ Local(second, repository, p) => Shown(first, p) \/ Shown(second, p)
               /\ Staged(first, second, p) /\ Staged(second, repository, p) =>
                    IF Unseen THEN Shown(first, p) ELSE Shown(second, p)
               /\ Local(first, second, p) /\ (Staged(second, repository, p) \/ Committed(second, repository, p)) =>
                    Shown(second, p)
               /\ (Staged(first, second, p) \/ Committed(first, second, p)) /\ Local(second, repository, p) =>
                    Shown(second, p)
               /\ Staged(first, second, p) /\ Committed(second, repository, p) => Shown(second, p)
               /\ Committed(first, second, p) /\ (Staged(second, repository, p) \/ Committed(second, repository, p)) =>
                    Shown(second, p)
    <3>1. PICK early : /\ InOrder(early) /\ Mixed(scope, First, first, second, early, p)
                       /\ early["diff"] <=> Early(load, j, Cell("initial", "diff", 0))
      BY <1>1, <2>1, MixedRound DEF First, Rounds
    <3>2. PICK late : /\ InOrder(late) /\ Mixed(scope, Second, second, repository, late, p)
                      /\ late["diff"] <=> Early(load, k, Cell("final", "diff", 0))
      BY <1>1, <2>2, MixedRound DEF Second, Rounds
    <3>3. ~Mismatch(scope, First, Second, p)
      BY <1>1 DEF Mismatch, InWorktree
    <3> HIDE DEF scope
    <3> QED BY <1>1, <2>3, <3>1, <3>2, <3>3, FileOfTwoChanges DEF Shown, scope
  <2>5. CASE (\A p \in Paths : Staged(first, second, p)) /\ \A p \in Paths : Staged(second, repository, p)
    BY <2>4, <2>5
  <2>6. CASE /\ \E p \in Paths : Local(first, second, p) /\ \A q \in Paths \ {p} : Kept(first, second, q)
             /\ \E p \in Paths : Local(second, repository, p) /\ \A q \in Paths \ {p} : Kept(second, repository, q)
    <3>1. PICK p \in Paths : Local(first, second, p) /\ \A q \in Paths \ {p} : Kept(first, second, q)
      BY <2>6
    <3>2. PICK o \in Paths : Local(second, repository, o) /\ \A q \in Paths \ {o} : Kept(second, repository, q)
      BY <2>6
    <3>3. \A q \in Paths : q # p \/ q # o => Shown(second, q)
      BY <2>4, <3>1, <3>2
    <3>4. CASE p # o
      BY <3>3, <3>4
    <3>5. CASE p = o
      <4>1. \A q \in Paths \ {p} : Shown(first, q)
        BY <3>1, <3>3, KeptIsShown
      <4> QED BY <2>4, <3>1, <3>2, <3>3, <3>5, <4>1
    <3> QED BY <3>4, <3>5
  <2>7. CASE /\ \E p \in Paths : Local(first, second, p) /\ \A q \in Paths \ {p} : Kept(first, second, q)
             /\ \/ \A p \in Paths : Staged(second, repository, p)
                \/ \A p \in Paths : Committed(second, repository, p)
    BY <2>4, <2>7
  <2>8. CASE /\ \E p \in Paths : Local(second, repository, p) /\ \A q \in Paths \ {p} : Kept(second, repository, q)
             /\ \/ \A p \in Paths : Staged(first, second, p)
                \/ \A p \in Paths : Committed(first, second, p)
    BY <2>4, <2>8
  <2>9. CASE /\ \/ \A p \in Paths : Staged(first, second, p)
                \/ \A p \in Paths : Committed(first, second, p)
             /\ \A p \in Paths : Committed(second, repository, p)
    BY <2>4, <2>9
  <2>10. CASE /\ \A p \in Paths : Committed(first, second, p)
              /\ \A p \in Paths : Staged(second, repository, p)
    BY <2>4, <2>10
  <2>11. /\ \/ \E p \in Paths : Local(first, second, p) /\ \A q \in Paths \ {p} : Kept(first, second, q)
            \/ \A p \in Paths : Staged(first, second, p)
            \/ \A p \in Paths : Committed(first, second, p)
         /\ \/ \E p \in Paths : Local(second, repository, p) /\ \A q \in Paths \ {p} : Kept(second, repository, q)
            \/ \A p \in Paths : Staged(second, repository, p)
            \/ \A p \in Paths : Committed(second, repository, p)
    BY <1>2 DEF Follows, Local
  <2> QED BY <2>5, <2>6, <2>7, <2>8, <2>9, <2>10, <2>11
<1> HIDE DEF initial, final, n
<1> QED BY <1>1, <1>7, <1>8, <1>9, <1>10

LEMMA SnapshotStep ==
  ASSUME LoadInv, SnapshotIsOfOneMoment, [Next]_vars
  PROVE  SnapshotIsOfOneMoment'
<1>1. CASE UNCHANGED snapshot
  BY <1>1 DEF SnapshotIsOfOneMoment, ShowsAs
<1>2. CASE TryFails \/ ReadFails \/ CommandFails
  <2>1. UNCHANGED snapshot \/ snapshot'.outcome \in {"unstable", "error"}
    BY <1>2 DEF TryFails, ReadFails, CommandFails, Return, Error
  <2> QED BY <1>1, <2>1 DEF SnapshotIsOfOneMoment
<1>3. CASE Succeed
  <2>1. /\ Loading /\ AllRead(Reads[load.scope]) /\ ~Moved
        /\ snapshot' = [outcome |-> "snapshot", scope |-> load.scope, moments |-> load.moments,
                        changed |-> load.changed, missed |-> load.missed,
                        files |-> [p \in Paths |-> Captured(load.scope, First, p)]]
    BY <1>3 DEF Succeed, Return
  <2>2. load.changed < 3 /\ load.missed = 0 => \E r \in load.moments : \A p \in Paths : Shown(r, p)
    BY <2>1, ShowsAMoment
  <2>3. /\ snapshot'.scope = load.scope /\ snapshot'.moments = load.moments /\ snapshot'.changed = load.changed
        /\ snapshot'.missed = load.missed
        /\ \A p \in Paths : snapshot'.files[p] = Captured(load.scope, First, p)
    BY <2>1
  <2> QED BY <2>2, <2>3 DEF SnapshotIsOfOneMoment, Shown
<1>4. (\E scope \in Scopes : Load(scope)) \/ Read \/ ReadMisses \/ Edit \/ (\E action \in Actions : Apply(action))
      \/ Run \/ Stop \/ UNCHANGED vars => UNCHANGED snapshot
  BY DEF Load, Read, ReadMisses, Edit, Apply, Run, Stop, vars
<1> QED BY <1>1, <1>2, <1>3, <1>4 DEF Next

\* A snapshot that load_snapshot returns shows every file as it was at one moment of the load, when the
\* two rounds it compares met less than three changes and read all: for any number of files and contents,
\* wherever the changes fall among the commands it runs.
THEOREM SnapshotIsOfOneMomentHolds == Spec => []SnapshotIsOfOneMoment
<1>1. Init => SnapshotIsOfOneMoment
  BY DEF Init, NoSnapshot, SnapshotIsOfOneMoment
<1>2. LoadInv /\ SnapshotIsOfOneMoment /\ [Next]_vars => SnapshotIsOfOneMoment'
  BY SnapshotStep
<1> QED BY LoadInvariance, <1>1, <1>2, PTL DEF Spec
=============================================================================
