# A verification project for the diff tool

The repository is a reviewing tool for git working trees: a server watches a repository
and offers its diff over a live protocol, clients show it, act on it and hand one
completed review back to the host that started the server; a daemon shares language servers
between the sessions that look names up. This directory holds TLA+
models of its concurrent core, TLC configurations that check them on small instances, and
theorems proved with TLAPS.

Run a model with `tlc -config <name>.cfg <module>`, a proof with `tlapm <module>.tla`.
`PROJECT.json` lists the components, the runs, for every definition the source lines it
models, for every checked property a mutation of the code that breaks it, the hazards the
properties are for, and the theorems.

## The system

| Component | State | Operations | Interaction |
|---|---|---|---|
| `diff/server` (`DiffServer`, `connection.rs`) | the completion flag and its one-place channel, a cancellation token; per connection the locals of `serve`: target, current state, what was published, queue, running command, lookups | accept, handshake, the loop and its select, `start`, `complete`, `next_review`, `shutdown` | subscribes to the watcher, applies actions with git, talks to one client per connection |
| `diff/client` | queues of commands and lookups, the pending request, outstanding lookups, handshake flag, published `ClientState`, target to resume | calls of the handle, one connection's select, abandoning what was in flight, reconnecting | a transport to one server; front ends subscribe to its state |
| `diff/protocol` | `SentDocument` / `DocumentReplica`: what the other end holds | deltas, framing, message types | between server and client |
| `diff/watch` | per target a watch channel with the last snapshot and its error; one wakeup slot; the set of watched directories | subscribe, refresh, refresh all active targets, rewatch | git for loading, `notify` for events |
| `diff/git` | none of its own | snapshot (re-read until two readings agree), apply, commit, discard | git processes |
| `diff/core` | `ReviewSession`: document, rows and the selected one, history of visits, the source view, a reference that waits, comments and the draft | replace the document, select, navigate, edit the review | driven by front ends |
| `diff/symbols` | `LookupCache`: answers, lookups waited for by token, the card on screen | issue and settle lookups, follow a definition | the client's lookups |
| `diff/ratatui`, `diff/cli/src/tui.rs` | `DiffReviewState`: the session, the overlay, a deferred document, the status of the last command | one loop: take answers, take the client's state, read input | drives the core, calls the client |
| `diff/markdown` | `MarkdownStream` revisions | append, finish | front ends |
| `util/lspd` | per workspace a session: the actor's documents and their holders, pending requests, the queue of refreshes, watched files; for the daemon a socket and a lock file | requests, diagnostics, closes, refreshes; start and stop | language servers, files, clients |
| `diff/cli`, `diff/desktop`, `diff/gpui`, `diff/web`, `ui/*` | presentation | rendering, input | the client and the core |
| `util/remote`, `util/fingerprint` | none | command lines, hashes | the cli |

What makes each of them correct, and where it is hard:

* **Server.** Many connections race for one completion; the acknowledgement, the
  publication to the host and the loss of a client can come in any order. A session is a
  loop that publishes *before* it answers, reads a copy of the watcher's state, and multiplexes
  seven sources in one select; requests are matched by order alone.
* **Client.** Every caller must get one answer, and that answer must be true: a command
  that may have run is not reported as one that did not, across connections that break at
  any point, closes, dropped handles and reconnection.
* **Watcher.** File events are coalesced into one slot; a refresh that fails must keep the
  last snapshot; no change may be forgotten.
* **Protocol.** The sender's idea of what the receiver holds must agree with the receiver's.
* **Git.** A snapshot is some twenty readings of a repository that others change meanwhile;
  an action is several commands, chosen by what the first ones find.
* **Review.** The document is replaced under everything that points into it: the selected
  row, the draft, comments, visits, a source view, a lookup that is still out.
* **Language server.** One open document is shared by calls that hold and release it, each
  possibly late or given up, while the file changes on disk and the server may die.

The hazards, each with its line and the properties aimed at it, are in `PROJECT.json`.

## Modules

| Module | Models |
|---|---|
| `ReviewServer` | the server, its sessions and the host, over the promise of the watcher |
| `ReviewCompletion` | abstract: one review that is open, reserved, then delivered or lost |
| `ReviewServerProofs` | theorems about `ReviewServer`: typing and the one completion |
| `ReviewServerOrderProofs` | theorems about `ReviewServer`: what a session shows, answers and completes, and the refinement |
| `DiffClient` | the client's handle and worker, its connections, and a server as its environment |
| `DocumentStream` | documents as updates, the record of what the client holds, its replica, and lines of bytes read by a select |
| `DiffClientProofs` | theorems about `DiffClient` |
| `DocumentStreamProofs` | theorems about `DocumentStream` |
| `RepositoryWatcher` | the file watcher's task and the repository's actor, from a change on disk to the retained states |
| `RepositoryWatcherProofs` | theorems about `RepositoryWatcher` |
| `GitRepository` | a snapshot read while the repository changes, and the actions with their git commands |
| `GitRepositoryProofs` | theorems about `GitRepository` |
| `ReviewSession` | the review's core as operators from one session to the next |
| `NameLookups` | the card, the cache of answers and the lookups waited for, as operators |
| `TerminalReview` | the terminal's loop over these two: input, answers, documents |
| `TerminalReviewProofs` | theorems about `TerminalReview` and the operators of `ReviewSession` and `NameLookups` |
| `LanguageServer` | one workspace's language server, its actor, refresher and watcher, and the calls that share a document |
| `LanguageServerProofs` | theorems about `LanguageServer` |
| `MC*` | instances for TLC |

`ReviewServer` stands on the promise of `RepositoryWatcher`, that on the promise of
`GitRepository` (a snapshot is of one moment during its load), and `DiffClient` on that of
`ReviewServer`; `DocumentStream` is the payload of the connection between server and client.
`TerminalReview` composes `ReviewSession` and `NameLookups` and takes from the client what
`DiffClient` promises: snapshots in order, every lookup answered at most once, in any order.

### ReviewServer

`accepted` and `completions` are `CompletionSink`; `delivered` records what `next_review`
returned; `stop` is the cancellation token. Each connection has a transport (`inbox`,
`outbox`, `link`), a task (`phase`) and the locals of `serve` under their own names. The
loop body is a sequence of publishing steps and is modelled as one action per await, each
guarded so that it waits for the earlier ones (`DocumentDue`, `FilesDue`, `HealthDue`,
`AnswerDue`, `StartDue`); the select is reached when nothing is due (`AtSelect`), and every
arm is an action: `StateChanged`, `WatcherGone`, `ReceiveRequest`, `ReceiveLookup`,
`ReceiveFails`, `LookupEnds`, `Heartbeat`, `CommandEnds`. A command future is a record
(`run`) with the stage it has reached; `SwitchTarget`, `RefreshTarget`, `ApplyAction` are
its effects.

A session ends in three steps: its future returns or is dropped by the stop token
(`DropSession`), its error is reported (`ReportFailure`), its transport is closed
(`CloseTransport`). Closing has no timeout and does not hear of the stop token; over a stream or
a WebSocket it waits until a client that is there has read (`CanClose`; a connection in `Local`
closes at once). `GiveUp` is `SHUTDOWN_GRACE`: `shutdown` returns with an error and leaves such tasks behind.

Abstractions: a snapshot is its target and the repository version it was loaded at; a file
list is the set of versions that altered it; an error is present or not. The watcher is its
promise: per target one retained snapshot, refreshed now and then, forgotten when nobody
receives it. Two of its steps are more liberal than the code: a command's future progresses
while the loop is publishing (the work is done by other tasks, the result is still only
taken at the select), and forgetting a channel is not tied to a refresh.

### DiffClient

`commands` and `lookups` are the two queues, `worker` the place the task is at, `pending`,
`outstanding`, `initialized`, `closed`, `resume` (`options.target`) and `view` (the
published `ClientState`) its fields. One action per arm of the select of `connection`
(`TakeCommand`, `TakeLookup`, `ReceiveEvent`, `RefuseEvent`, `ReceiveFails`, `HandleGone`),
one for the end of a send (`Sent`, `SendingFails`), `Close` for what `run` does after a
connection, and `Reconnect`, `RefuseCall`, `StopReconnecting` for the arms of `reconnect`.

The server is the environment and does what `ReviewServer` promises: it greets, answers
each request once, shows a document before it answers a switch, may speak on its own, may
die, and may still run commands it received on a connection that is gone (`late`). A
disturbed server breaks the protocol. A lookup's id is abstracted by its call, since ids
are never reused; the delay before a reconnection is left out.

`outcomes` and `switched` are history variables: what the server did of each call, and the
target of the last acknowledged switch.

### DocumentStream

`sent` is `SentDocument.files`, of each path the last file that the document had, and
`document` the replica. A document may list a path twice: git gives a change of a file's type
(a file that becomes a symbolic link) as a deletion and a creation of one path, `parse_git_diff`
keeps both patches, `encode` sends both, and the replica refuses the update, which ends the
client. `UpdatesApply` is therefore not that no update is refused: it says that this is the only
reason, and the client of such a repository does stop with a protocol error. `Publish` replaces the
record, then writes; `SendIsCut` is a send that times out, fails or is dropped with its
session. On a byte stream a line may arrive in two pieces; `line` is what the pending
`read_line` has taken, and `OtherArm` drops it, which is what a select does to an arm that
is not taken. `published` and `received` are history variables.

### RepositoryWatcher

The disk is a tree of directories; `Edit`, `Appear`, `Vanish` and `Overflow` change the
repository, `ScratchEvent` only makes noise, and a change in a directory nobody watches is
not reported. `events` and `lagged` are the broadcast channel, `task`, `batch`, `fresh`,
`walk` and `listing` the locals of `process_events` and `watch_all` (a directory is watched,
then read, and others may appear in between), `wakeup` the channel of one place. `actor` is
what `RepositoryActor::run` awaits, with the targets of a wakeup still to load. A snapshot
is its target and a version of the repository between the start and the end of its load. An
event is reduced to what `Batch` and the filter tell apart: does it ask for a rescan, for
watching anew, and is its path relevant. `answer` is history: what the last request was
promised. A `Subscribe` for a target that somebody holds already is answered at once with the
state that is there, however old (`AnswerJoined`), so it is promised that state and not the
repository's; only the others are promised a load of their own.

### GitRepository

`repository` is HEAD (and whether there is a commit), the index and the worktree. A load is the
list of its readings in the code's order (`InputReads` for `load_snapshot_input` and
`resolve_content_locations`, then the captured sides, the same input again, the sides read
again), taken one by one; a git command reads HEAD and the index at one moment and files one
after another, so that a diff has one reading per path. `Captured` makes the document out of
the readings the way the parser and `with_sources` do. `TryFails` and `Again` are the retry, `ReadFails`
a listed file that is gone. A reading can also fail with nothing changed: `CommandFails` ends the load (a
command of git fails, prints a path or a line that is not UTF-8, as `git_contract.rs:363` asserts, or an
untracked file cannot be read), and after `ReadMisses` the load goes on without a blob or a text, which
`resolve_blob` and `capture_location` turn into a side that is not available. An action is the list of git commands it still has to run
(`Begun`, `Decided`); what a command does to HEAD, index and worktree (`Refused`, `Ran`) was
compared with git itself. `moments`, `changed`, `altered`, `missed` and `lost` are history.

Left out: renames, modes, binary and large files, the list of commits, snapshots of a commit
(which cannot change), actions on several paths, the delay before a retry; a blob that was found
and cannot be read after all (its content never changes, so that only its side is missing, as after
`ReadMisses`). The final comparison goes through the worktree's files in the order of a map; the model
takes the order of the paths. `SameDocument` compares the contents of files that are equal on both sides too,
which the bytes of a diff do not mention: a try may fail in the model where the code would accept it, and
only after a change of such a file.

`OnlyChangesFailLoads` counts, for a load that gives up, the changes and the readings missed: each try had
one of its own. A side that is missing in one round and found in the other makes the rounds differ,
and so does a file that is captured and cannot be read for the comparison.

`SnapshotIsOfOneMoment` is claimed for fewer than three changes and no missed reading during one try: a
side that is not available leaves the diff's own patch (`file_diff.rs:144`), which was read earlier. Two equal
readings do not prove that nothing moved, and three changes (away, back after the first
reading, and another file in between) can fool them. It excepts `DeletedBehindItsIndex`: in
the staged scope, a path with a staged change and its worktree file deleted is shown as
Deleted with an empty new side, since the file's status is taken from the worktree's column
(`parser.rs:258`, `parser.rs:328`) and decides which sides it has (`repository.rs:753`). The test
`snapshots_keep_staged_unstaged_and_partial_content_separate` (`git_contract.rs:153`) expects
staged contents independent of the worktree, but has no such file. `ActionsTakeEffect` claims a discard
for the status the scope shows of the file: discarding as Untracked a file that was removed from the index
removes the file and leaves its staged deletion, although the comment on the action speaks of
all staged and unstaged changes of the path.

### ReviewSession, NameLookups, TerminalReview

`ReviewSession` and `NameLookups` have no variables: an operation of the code is an operator on
records with the fields of `ReviewSession`, `Navigation`, `Review` and `LookupCache` under their
names. A document is a sequence of files with one hunk and the number of unchanged lines after
it; rows are a set of records, each with its file and its place in it, and a row's identity over
rebuilds is what the code compares (`RowId`). The selected row is one of these.

`TerminalReview` is the loop of `tui.rs`: in stage `replies` answers are taken one by one
(`FinishLookup`), then the client's state (`Synchronize`), in stage `input` one input or none
(`Poll`). Every input ends by sending what it left to look up, by installing a deferred
document when no overlay is left, and by leaving what changed behind (`Handled`). A command picked
in the palette closes it and runs on the document shown, before the one that waited is installed; a click while
the draft is empty moves it to another line (`MoveDraft`). What the
reader may do is bounded by `MaxCommands` and, per run, by `Commands`. The client may
receive a snapshot or lose its connection only in stage `replies`: only `Synchronize` looks at
its state, so that no other order can be told apart.

Left out: the mode that browses all files, the split layout and its side, several hunks and the
gaps before and between them, binary files, collapsing all files, the drawer, scrolling, hover,
themes, the text of comments, an external file displayed under a path of the repository, and
resolutions that are complete and name no place. Leaving a source view for a bookmark of a file that is gone
keeps the number of the selected file, which may then be out of range; `SelectionIsShown` is about rows and holds.

### LanguageServer

One file and everything a workspace's session does with it: `document` is the actor's entry
(`holders`, `content`, `needs_refresh`), `commands` its bounded channel, `closes` the spawned
tasks that wait to send a close (`HeldDocument::drop`), `jobs` and `work` the refresher's channel and its
`Jobs`, `tasks` where each call and the refresher is in its
sequence of awaits: read the file, reserve room, open, ask, wait, release. A content is the number of the edit
it was read at, so that the server's newest content tells whether a change reached it.
`Die` ends a session and all it holds; `Spawn` starts another for a call.

`watched` is the file's share of `WatchedFiles`: the events that wait in its channel, each with its kind and
its edit, what `accumulate` has made of them, and the kinds the server registered for. `Edit` is reported or
not: the code ignores a watcher that could not be started, errors, and an overflow that names no path
(`file_watcher.rs:37-46`). `Notice` drops an event that a matching registration's kinds leave out
(`file_watcher.rs:86-91`), and one of an ignored directory that no registration matches. `MarkStale` has the
filter of `mark_stale`: nothing in an ignored directory (`node_modules`, `target`) and nothing of a language
another server serves is refreshed, as `e2e_pull_diagnostics.rs:69` asserts of the first. The file's `location` says which of
these it is, and whether the walk at the start finds it (`discover` passes hidden and ignored files over).

`NoChangeIsLost` is therefore about the edits in `watched.due`, a history: what a session's walk is to find at
its start, and each edit whose event the watcher took and no registration left out. For each of them that
the server was never given, the property says where it is on its way. An edit that was not reported or
is left out is not in `due`: the code does lose it, until the next edit, request or session.

Left out: what diagnostics say and when they are fresh, saving after a write, several events of one edit
and the debounce that gathers them, the glob patterns (a registration matches the file or there is none), the number of
retries after a modified content, deadlines (a wait may end at any time), the daemon around it.

`missed` and `forgot` are history, and exclude what the code does get wrong: a failed open
(the file was missing) removes the actor's entry while other calls hold it
(`language_server.rs:187`), so that their closes count against whoever opens it next, and a
change put off to the last close is dropped with the entry. A content is read before
room is reserved for the open, so that an older content may be given to the server after a newer one;
`NoChangeIsLost` asks that the newest reached it, not that it is the last.

## Runs

| Run | Question | Bounds | States |
|---|---|---|---|
| `reviewers` | one review, decided once (refinement of `ReviewCompletion`), kept once acknowledged | 2 connections, 3 commands each (the handshake is one), submissions, cancellations, hang-ups | 482k |
| `requests` | switches and refreshes are shown before they are answered, answers follow requests; a review is of the target shown; what may lose it | 2 targets, 3 commands of every kind (the handshake is one), one change, failing loads, malformed frames, a stopping watcher, shutdown | 1.42M |
| `progress` | requests are answered, a reserved review arrives, sessions converge, shutdown ends them all but for a close that waits for the client, and returns (fair); lookups read what is shown | 3 commands and lookups (the handshake is one), one change, heartbeats, shutdown, clients that do not read | 20k |
| `client` | replies are settled once and true, commands run once, the switch is kept | 2 calls of every relevant kind, 2 connections, 2 targets; a server that dies, rejects or reports errors; idle connections, writes that time out; dropped handles | 1.85M |
| `answered` | every call is answered, a closed client stops (fair) | 2 calls, 2 connections, a server that breaks the protocol, writes that time out | 471k |
| `documents` | the client gets the documents that were published, and refuses only one that lists a path twice | 3 documents out of all of at most 2 files with 2 contents, cut sends, arms that lose a half-read line | 390k |
| `lines` | *violated*: see the findings below | reads that lose the select | - |
| `watcher` | no change is forgotten, an answered request is retained, a state is of its target, every change is shown (fair) | a root and a directory, 2 targets; 3 inputs of at most 2 changes, a scratch event and 3 requests; one place for events; every failure | 176k |
| `snapshots` | a snapshot is of one moment, only changes and failures of its readings fail a load, actions do what they are for | 2 files, 2 contents; one load of each scope with 2 tries; two of edits, 11 actions and a reading that fails; before and after the first commit | 1.06M |
| `terminal` | selection, source view, draft and comments stay what they were about; references settle (fair); late answers change nothing | 4 documents that grow, lose and delete a file, 2 of them received; 3 inputs of any kind; a jump into the diff and one out of it | 661k |
| `held_document` | *violated*: see the findings below | 3 documents, inputs that open and close prompts | - |
| `language_server` | requests reach an open document, no change is lost | 2 calls of every kind and the refresher, a channel of one, one edit after the start, reported or not, of a tracked file or one in an ignored directory, a registration for one kind of change or none, a server that dies and is replaced | 4.30M |

Why these bounds are enough to meet the cases: two connections suffice for any race on one
flag; with a capacity of one every send can block; two commands after the handshake make
one run while the other queues; one change of the repository makes a snapshot
stale. Two calls let one overtake or replace the other, two connections let anything cross
from one to the next. With three documents a file can leave and return, or trade places. A
channel of one event loses one at the second, three requests subscribe to a target, make it the watcher's own and load it again, and two changes let a directory appear and
then be edited while it is not watched yet. Two files let git's readings disagree between files,
two changes let a file change and change back, and two tries let the first
fail for one change and the second meet another. Two documents replace one that was acted upon, three inputs open a source
view, leave it and go back; the documents make a line move, a file vanish, return and be
deleted. Two calls overlap on one document with the refresher as a third, and a channel of one makes every
close late.

`MaxCommands`, `MaxChanges`, `MaxConnections`, `MaxDocuments`, `MaxEmitted`, `MaxRequests`, `MaxInputs`,
`MaxLoads`, `MaxFailures`, `MaxDisturbances`, `MaxSnapshots`, `MaxComments`, `MaxEdits`, `MaxSessions` and the client's `MaxEvents`
bound the state spaces and nothing else (the watcher's `MaxEvents` is the capacity in the code, `MaxTries` its number of
tries); `Disturbances` and `Commands` select the failures and inputs of a run, since all of
them at once are too many states.

Deadlock is checked except in `reviewers` (whose host waits on when every client is gone) and
in `watcher`, `terminal`, `held_document` and `language_server`, where the bounds, or a reader
who quits, end everything. The stopping server is part of `requests` and `progress`.

### Fairness

Server: a task that was woken is polled, so the steps of the loop, of the handshake and of
the close are weakly fair; tokio's `select!` starts at a random arm, so an arm that is ready
again and again is taken, which is strong fairness (with heartbeats, weak fairness is not
enough: `progress` fails under it). The futures are driven by other tasks. Clients, file
events and heartbeats are not assumed to do anything: a client may stay and never read, which is
why `ShutdownClosesConnections` leaves out a connection that is closing on such a client and lets
the shutdown give up. Client: the worker's steps are weakly
fair, which suffices because its calls are finitely many; the server answers what it
received (which is `RequestsAreAnswered`) and its blocked sends time out. Watcher: the task
and the actor are polled, timers and loads end; a wakeup waits behind requests, which are
finitely many. Terminal: the loop goes round (every wait in it has a timeout) and the client
answers every lookup it has, which is `CallsAreAnswered`; the reader is not assumed to do anything.
In `documents`, `snapshots` and `language_server` nothing is promised to happen.

### Findings

`lines`: `StreamTransport::read_line` keeps what it has read in its own future. Both ends
await it as one arm of a select, so a command, a lookup or a heartbeat that is ready first
drops the half-read line, and its rest is taken for a line: the connection ends with a
protocol error. The test of the streams does not meet it because its pipe holds every line
whole.

`held_document`: `set_document` (`state.rs:413`) installs a snapshot directly while the reader
browses and leaves `deferred_document` as it is. A lost connection closes a prompt without
installing what waited behind it (`set_capabilities`, `diff_commands.rs:33`); a newer snapshot
after the reconnection is then installed, and the next input installs the older one over it.
The test `closing_a_draft_installs_only_the_newest_document` says otherwise. The older document stays until
the repository changes again.

A write that times out has no run of its own: `Worker::request` (`client.rs:406`) reports
`Disconnected` for a command whose send failed. On a WebSocket a send also fails when
`WRITE_TIMEOUT` passes (`transport/native.rs:51`), and the frame may still reach the server: a
submission is then reported as "connection closed" (`error.rs:6`) and completed all the same, the case
`OutcomeUnknown` (`error.rs:8`) is documented for. `client` has this disturbance, and
`DisconnectedDidNotRun` names the exception: the history `written` holds the calls whose own send failed with
the command on its way, and the property is about all others. Without the exception the run finds it violated.

`CallsAreAnswered` states an exception on purpose: a call still queued when the worker
returns is answered by nobody while a handle keeps the queue open, because the queue's
receiver is gone but its messages are dropped only with the channel.

## What is proved

`ReviewServerProofs`, for every number of connections, targets, commands and capacities:

* `TypeCorrectness`: `Spec => []TypeOK`, which no run checks: the proof stands for it.
* `OneReviewHolds`: `Spec => []OneReview`.
* `AcknowledgedReviewHolds`: `Spec => []AcknowledgedReviewIsKept`.

`OneReview` is not inductive: nothing in it says that a held completion implies the flag.
The invariant behind all three (`Invariance`) adds that: where a completion is, in a
connection, in the channel or delivered, is determined by the flag `accepted`; only a
connection that serves or is completing has a run; a run that is not done has not succeeded,
so that only a reservation makes it carry a completion; an acknowledged connection is in the
one state `complete` leaves it in. The proofs rest on `ConstantsAssumption` only, take one
step per action, and group the actions that leave the review alone in one lemma.

`ReviewServerOrderProofs` stands on that invariant and proves what `reviewers`, `requests` and
`progress` check of a session, among any number of others: `ReviewIsOfShownTargetHolds`,
`SwitchIsShownBeforeItsAnswerHolds`, `RefreshIsShownBeforeItsAnswerHolds`, and as action
properties `AnswersFollowRequestsHolds`, `LookupReadsShownSnapshotHolds` and
`ReviewIsLostOnlyToDisruptionHolds`. None of these is inductive, because a command runs
while the session goes on showing what changes. `OrderInv` follows it:

* `ShownInv`: what the session last published is what its transport was given last, and a command,
  running or finished and not answered, is of that target. So a submission cannot be of a
  target that the client has not seen.
* `WorkInv`: there is one command at a time, and none before the session serves.
* `FreshInv`: a finished command that is to be answered with success has brought something
  about, and either it was published or the state to publish shows it. This is the step
  from "the command is done" to "its document is sent before its answer".
* `NumberInv`: the requests a session has answered, has in hand, has queued and finds in its
  transport are numbered without a gap, so that an answer is that of the oldest one.
* `ChannelInv`: no retained state is of a later version than the repository has.

`ReviewIsDecidedOnceHolds` is the refinement: `Spec` implies the specification of
`ReviewCompletion` under its mapping. Where the completion is (`Placed`) decides what the
abstract state is. Every step of a connection keeps its completion, hands it over or loses it
(`KeepsOrReleases`), or it is the one step that reserves it (`Reserving`); `OneReview` makes
the completion of that connection the only one, so that each of these is an abstract step.

`DocumentStreamProofs`, for any files, documents and capacity, over messages and over
lines: `TypeCorrectness`, `ReceivedIsPublishedHolds`, `UpdatesApplyHolds`. An update on the wire
means nothing by itself, only on top of those before it. `WireInv` therefore numbers the pieces on the
wire with the documents they will complete, in order and from the first that the client has
not got, and says that each update is the one `encode` makes from the document before it;
`RecordInv` says that the server's record is of the last of these, `ReplicaInv` that the replica
is of the first. An update rebuilds the document it was made from whether or not that lists a
path twice (`RebuiltIsEncoded`), so this is all a refusal can be for. The two theorems hold in the setting of `lines` too: there the connection
ends with an error, but nothing wrong is shown before it does.

`DiffClientProofs`, for any calls, targets, capacity and number of connections:

* `EveryCallIsSomewhereHolds` (`CallsInv`): the queue, the call being sent, the pending command and the
  lookups outstanding are disjoint, hold no call twice, and hold exactly the calls that wait.
* `CommandsRunOnceHolds` (`RunInv`): a command is in one message, in the session's work or left
  with a session that lost its connection, or was never sent, and in none of these it has run.
* `AnswersAreTheirOwnHolds` (`AnswersInv`): a `RequestResult` carries no number, so what must be shown
  is that at most one is on its way, from the transport and what the session is about to
  publish taken together (`Pipe`), and that it is the pending command's.
* `DisconnectedDidNotRunHolds` (`DisconnectedInv`): a command that is reported `Disconnected` has not run and
  the server has nothing of it, for all `Disturbances`. Only the failed send of the command itself can put
  it in the transport while it is reported, and that call is then `written`, which the property leaves out, as
  described above. A write that times out puts no other command at risk.
* `SwitchIsKeptHolds` assumes that `"ServerMisbehaves"` is not: a server that shows documents before
  it was greeted can make the client resume anything. The argument (`TargetInv`) is that a session
  speaks only after the hello, that the answer to a switch comes right after the document
  switched to, and that everything after it is of that target.

`TypeCorrectness` and all but the last hold for a server that breaks the protocol at will.

`RepositoryWatcherProofs`, for every tree of directories, any targets and any capacity:

* `NothingIsForgotten`: `Spec => []NoChangeIsForgotten`. The argument has two halves.
  `WatchInv`: a directory nobody watches was announced by an event that is still in the
  channel (or lost from it, which is noticed), or by the batch that is having the tree watched
  anew; and the walk has not passed by a directory unless one was announced meanwhile.
  That a finished walk is complete (`WalkIsComplete`) is where the order "watch, then read"
  and the shape of a tree are needed: a missed directory has a highest missed one above it,
  whose parent was watched and then read. So every change is noticed (`ChangeIsNoticed`). The
  second half follows a notice to the load: `NothingForgotten` is the property for every
  retained channel, received or not, and `LoadIsWatched` says that a change during a load is
  still pending, which is why a load that missed it is not the last.
* `RequestsAreRetained`, `StatesAreOfTheirTargets`: from `AnswerInv`, which orders times: a
  load that is running began no earlier than the last answer was asked for, and no state is
  of a version to come, so what a `Subscribe` joins is not newer than the loads after it.

The tree is part of `ConstantsAssumption`, stated without induction: every set of
directories without the root has one whose parent is outside it.

`LanguageServerProofs` proves, for any calls, channel capacity, edits and sessions,
`TypeCorrectness` and `NothingIsLost` (`Spec => []NoChangeIsLost`). The property is not
inductive alone: its case of a refresh under way (`Opens`) says nothing of what the actor
is about to open. `IInv` adds

* `OpeningInv`: an open of the refresher in the channel carries what the refresher read, and there
  is one at most, so handling it gives the server what the refresher read, and an edit made after
  that has been reported;
* `AwaitedInv`: the server has the refresher's request only while it waits for it, so an answer to
  somebody else cannot end a refresh;
* `GivenInv`: what a held document contains was given to the server, so an open that finds the
  document up to date leaves nothing behind;
* `QueuedInv`: what is said to be queued is, so a change that is not queued again is covered by
  the entry that is there;
* `DeadInv`: nothing is left of a session that is closed, and the refresher of the next one starts
  by discovering;
* `DueInv`: what is due is an edit that was made, of a file that is still there, so the refresher that
  reads the file then reads that edit or a newer one.

Each action then moves a change from one of these places to another: an event is noticed or, when it is left
out, is no longer due, what was noticed is forwarded to a job or put off to a close, a job is pushed to the queue, the queue's entry is read
and opened. A failed open that forgets a change put off (`server.forgot`) is excluded by the
property, and described above.

`RequestsReachOpenDocumentsHolds` is the action property that a request about a file finds it open
at the server. The entry's count of holders is changed by commands that are handled long after the
calls that sent them opened, gave up or released, so no statement about the present
state relates the two. `HoldersBalance` keeps the books: as long as no open has missed the file,
there is a balance for every command in the channel (`BalanceInv`). It starts with the actor's
count, changes by what each command will do, is positive before every request, and ends with
the calls that hold the document and the closes that wait to be sent. The rest of `HeldInv` says
that the server has open what the held document contains (`ContentInv`), that what the actor and
the server hear of are calls of this session that still wait (`SessionInv`, `SentInv`,
`PendingInv`), and that the calls to count are finitely many (`FiniteInv`).

`TerminalReviewProofs`, for any documents, places and bounds, of every state and step of the
terminal's loop: `TypeCorrectness`, `SelectionIsShownHolds`, `SourceViewHasFileHolds`,
`ReferenceIsAwaitedHolds`, `DraftIsOnItsLineHolds`, `CommentsAreOnTheirLinesHolds`, and the action
properties `ReviewOutlivesDocumentsHolds` and `LateAnswersAreIgnoredHolds`. The operations of
`ReviewSession` call each other through many levels (a visit shows a place, which
leaves a source view, which rebuilds the rows, which restores the selection), so
the proof goes the same way, with one lemma per operation:

* `Good` is what every operation keeps. Between two of its calls an operation may have
  selected nothing yet, and then only its half `Framed` holds: a source view has its file and that
  file is the one selected, an open reference is in view and not in the document, folds are
  of the document's files. `Rebuild` and `SelectFirstRow` turn `Framed` into `Good`
  (`RebuildRestoringStep`), because the rows they choose from are displayed and,
  in a source view, of its file (`SourcePlace`).
* `Steps` says that an operation leaves the comments and the document as they are, and ends
  with `Good`; `Keeps`, that it makes no reference that nobody asks for. An operation that does
  make one succeeds, and what succeeds is asked for by `Navigated` (`ArrivedStep`). That is why a
  failed jump, which keeps what it opened on its way, breaks nothing.
* `ReviewOK` and `Outlived`: what `reconcile` leaves of a comment (`Reconciled`).
* `DraftOK`: a draft is on an anchor of the document that a row displays. While there is one,
  there is no reference and no source view, so the answers to lookups leave the session alone, and
  documents wait.
* `Awaits`: the lookup of a reference that is being opened is to be sent, with the client or
  answered. `StillAwaits` carries it over the answers to other lookups, `AskSourceStep` over the
  documents that forget every lookup.
* Lookups waited for have tokens from the installed document on, which is why a late
  answer is not waited for.

The proof needs that `None` is no path, number or place (`NoneAssumption`). `Navigate` is a loop,
in the model a recursive function: that it has a value, and what it does after any number of visits,
follow from the least number at which it would not (`LeastNumber`, from the well-foundedness of
`<` on the naturals), in place of an induction.

`GitRepositoryProofs`, for any files, contents, beginnings, actions, loads and tries:

* `ActionsTakeEffectHolds`. `OperationInv` says of every list of commands an action can have left
  to run (`Stages`) what the ones before it have found or made of the repository, as long as nobody
  else changed it (`Underway`). `CommandStep` shows, for each action, that a command leads from one such
  stage to the next, and from the last one to `TookEffect`.
* `OnlyChangesFailLoadsHolds`. A try that met no change has read one repository in both rounds
  (`ReadQuietly` in `LoadInv`), so that, if it missed nothing, its two documents are equal (`QuietIsStable`), the files read
  a third time are what was captured (`QuietDoesNotMove`), and no listed file is gone
  (`QuietIsNotGone`). If a reading was missed (`ReadMisses`, `MissStep`), the try may fail, and the invariant
  counts it (`Counted`); what a load cannot do without was still read of that repository
  (`ReadQuietly`), so that no listed file is gone. `ReadOrder` is the fact about `Reads` that all of this needs: every
  reading comes once, and by its `Stage`.
* `SnapshotIsOfOneMomentHolds`. `LoadInv` says that a try that missed nothing and met two changes has read three
  repositories one after the other (`ReadAcross`), and that each of them `Follows` the one before by
  what one command or edit does to a file. If a round met no change its document is of the
  repository it read (`DocumentOfMoment`, `FirstOfMoment`, `SecondOfMoment`), and the comparison carries
  it over to the other round. What is left is that one change fell in each round
  (`ShowsAMoment`): then `FileOfTwoChanges` goes through what the two changes can be. Since
  the rounds agree, the snapshot is of the repository between the changes, unless the second
  change put back what the first had changed; then it may be of the one before both. For
  edits only one file is in question, and for two commands on the index it is decided for
  all files alike, by whether both changes fell between the two readings of the diff. With three
  changes there need be no such moment, as described above.

## What is only model-checked

Liveness, and anything with `ENABLED`, is outside the prover's reach: `ReviewServer`'s,
`RepositoryWatcher`'s and the others' progress properties, and `ReferencesSettle`, are TLC's.
Every invariant that a run checks is proved. What a recursive function computes for every
input can be proved only where a least counterexample suffices.

## What is not modelled

* Parsing (git output, patches, markdown, key maps), syntax highlighting, presentation and rendering,
  argument parsing, ssh and container command lines: sequential, without state that
  lives from one call to the next, and covered by the repository's unit tests.
* The desktop, web and editor front ends drive the same session core as the terminal, with
  their own event loops; the core's behaviour under them is that of `ReviewSession`.
* The daemon's start and stop (`daemon.rs:136` is a listed hazard), its sockets and its client.
* A local transport between this server and this client with both directions full
  (`server.rs:173`, a listed hazard) needs the two in one module.
* The markdown viewer's incremental revisions and its review.

`PROJECT.json` gives the reason per component.

## Plan

1. `ReviewServer`, `DiffClient`, `DocumentStream`, `RepositoryWatcher`, `GitRepository`,
   `ReviewSession` with `NameLookups` and `TerminalReview`, `LanguageServer`: done.
2. Proofs: done but for `RepositoryWatcher` shown to keep the promise `ReviewServer` relies on.
3. Server and client composed over a local transport, for the deadlock of two full
   directions; the daemon's start and stop; `MarkdownStream`.
