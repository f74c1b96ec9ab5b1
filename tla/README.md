# Verification of the Server Box Monitor agent

Server Box is a Flutter app for managing servers over SSH, and Server Box
Monitor is the agent that may run on such a server: a Rust daemon (`src/monitor`)
with an HTTP and WebSocket API, a SQLite database, and a web panel
(`src/monitor/frontend`, Svelte). The app talks to servers over SSH or through
the agent. The concurrency of the system is in the agent: worker threads that
serve connections, tasks per terminal, threads per PTY, a reaper, jobs, relays,
a collector of files, a loop that backs the settings up, and clients that lose
their links and come back. This directory models that core.

Everything here is TLA+: modules, TLC configurations, and proofs for TLAPS.
`PROJECT.json` lists the components, the runs, which lines each definition
stands for (`map`), one faulty variant per property (`mutants`), the hazards of
the code, and the theorems.

## 1. Inventory

| Component | State | Operations | What is hard | What makes it correct |
|---|---|---|---|---|
| **Scrollback** (`session.rs`) | the newest bytes of a shell, the number of bytes ever written | `push`, `replay_from` | a write larger than the buffer; positions before, at and past its ends | it holds exactly the newest bytes; a replay is exactly what the client missed, or says that some is gone |
| **Terminal output and resume** (`session.rs`, `terminal.rs`, `terminal.svelte.ts`, `terminal.dart`) | one attachment per session, its bounded queue, a pump per connection, frames on the wire, each client's counter of what it rendered | publish, attach, take over, lag, pump, disconnect, reconnect, reload, close, exit, revoke, reap | publishing against attaching; a full queue; late disconnects; renderer callbacks that fire after a reconnect; the shell ending while the client is away | within a connection output neither skips nor repeats; a resume leaves no silent hole; who lags is told; clients catch up |
| **Session store and password change** (`session.rs`, `terminal.rs`, `authz.rs`, `admin.rs`) | the map of sessions, the cap, who is attached, the password's epoch, where each connection's handler is | open, attach, close, reap, `close_all`, disconnect | awaits between a check and what it is for; taking out of the map and closing are two steps; opens that fail half way | nothing of an old password stays; no process and no slot leaks; the cap holds; nobody's session stays for good |
| **Local shell** (`pty.rs`, `terminal.rs`) | the child, the PTY's buffers, a reader and a reaper thread, a gate, a bounded event channel, the driving task | read, deliver, wait, drain, write, close, kill | two threads deliver into one channel; blocking reads and writes; a reader that never sees the end | the exit is the last event and follows all the output; a dead child ends the task, but for a write that a background process leaves blocked |
| **Upgrade tickets** (`ticket.rs`, `server.rs`, `terminal.rs`) | the store of tickets, reserved or not | issue, reserve, commit, roll back, expire, revoke | a reservation held across an await, while sweeps and revocations run | one socket per ticket; what left the store stays out; bounded |
| **Jobs and their log** (`stacks/job.rs`, `StackProgress.svelte`) | one job per slot, its numbered lines, the page's position | begin, push, finish, view, poll | lines are numbered outside the lock; the state is read before the lines | one job at a time; lines in order; the end of the log is shown |
| **Login throttle** (`ratelimit.rs`, `login.rs`, `admin.rs`) | per key (address, device, re-entry, account) failures, attempts in flight, when last seen | begin, fail, succeed, cancel, drop, prune, expire | attempts that overlap; an entry cleared, pruned or expired while one is in flight | guessing under a key takes the sum of the doubling delays, whatever is sent at once |
| **Relays, listeners, live list** (`stream.rs`, `listen.rs`, `live.rs`), **consoles and remote desktops** (`virt_console.rs`, `rdcleanpath.rs`) | sockets and how far each is, held connections, a broadcast of password changes, the list of what may be ended | admit, request, check, open, hold, claim, expire, end, notice | subscribe against check; claim against expiry; a client that does not read | no password change made through the agent is missed; what was opened before it ends; a held connection is taken or closed |
| **Blob store** (`blobs.rs`, `backup.rs`, `desk.rs`, `desk_themes.rs`, `apps.rs`) | files by digest, rows that name them, a gate, `tmp/` | put, commit, remove, collect, move, restore, back up | a crash between file and row; a collection beside a request; requests that fail or are dropped half way | a row has its files; garbage is collected; by name every change is whole, once, or not at all |
| **Settings backup** (`monitor_backup/`) | the settings, the row with key, hash and last name, the folder's backups and key files, flags in memory | edit, set, move, set the passphrase, check, upload, prune, restore, adopt | requests that fail although carried out; edits between hash and copy; pruning cut short | every backup has its key file; settings found unchanged are backed up; edits come to be; `keep` is carried out |
| **Desk sessions** (`desk.rs`, `session.svelte.ts`, `windows.svelte.ts`, `deskState.svelte.ts`) | per browser a revision and its windows; per tab its windows, the revision they are of, a timer, a save, reads | load, save, conflict, retry, reload, close | tabs that save over each other; answers that come after something else happened; a read in two statements | no save replaces what its tab was not told of; what a tab shows comes to be saved |
| Metrics, rules, alerts (`monitoring/`) | rule states, a rate limiter, push queues | evaluate, send, retry | quota checked before and taken after a send | *planned* |
| Stacks, container backups (`stacks/`, `container_backups.rs`) | rows, directories, jobs | deploy, remove, back up, restore | steps that fail half way | *planned* |
| Agent mode, desk apps, LK Cloud, page APIs, parsers, the Flutter UI | — | — | — | not modelled, reasons in `PROJECT.json` |

How they interact: a client posts for a **ticket** and upgrades with it; the
connection's handler opens or rejoins a session in the **store**; an open spawns
a **local shell** whose task publishes into the session's **scrollback** and the
attached connection's queue (**terminal output**); a pump moves the queue to the
socket; the client counts what it rendered and rejoins from there. A **password
change** stores the new hash; then `end_account` drains the store, clears the
tickets and at last tells every socket: the **relays**, listeners and consoles,
which read the account again. A reset from the command line is another process: it
stores the hash and tells nobody. The **throttle** stands before every check of a password. Requests that
store files go through the **blob store**, and so do a **settings backup**, which
copies rows and then files, and its restore, which also changes the password. Jobs
and **desk sessions** are separate: pages start jobs and poll them, and tabs meet
only in the agent's database and its events.

## 2. Modules

| Module | Models | Proofs in |
|---|---|---|
| `Scrollback` | the byte buffer itself | `OutputProofs` |
| `TerminalStream` | one session's output, from the shell to the screens | `TerminalStreamProofs` |
| `SessionStore` | the life of sessions against password changes, reaps and lost connections | `SessionStoreProofs` |
| `LocalShell` | PTY, threads and driving task of one shell | `OutputProofs` |
| `Tickets` | tickets and the upgrade around them | `AdmissionProofs` |
| `JobLog` | a slot of jobs and the page that polls it | `OutputProofs` |
| `AtomicStore` | what the blob store promises: named contents, changed whole or not at all | — |
| `Blobs`, `MCBlobs` | files, rows, gate, collector, settings backup and restore, crashes; implements `AtomicStore` | `BlobsProofs` |
| `SettingsBackup` | the backup loop, the folder, keys, operator and command line | `SettingsBackupProofs` |
| `Relays` | sockets opened with tickets, held connections, live list, password change | `RelaysProofs` |
| `LoginThrottle` | the throttle on a clock | `AdmissionProofs` |
| `DeskSession` | the windows of a desk, saved by several tabs | `DeskSessionProofs` |

Names are the source's where they can be: `Publish`, `attach`, `take_expired`,
`reserve_at` and so on are found by the same word, and every variable carries a
comment with the field it stands for. Each module has its own state; they share
no variables. `Scrollback`, `JobLog` and `LoginThrottle` name their specification after
themselves (`JobLogSpec`, `ThrottleSpec`), since their proofs are in a module that extends
another one too. A few abstractions tie them together: `TerminalStream` takes from
`Scrollback` that what is held is the interval `[StartSeq, next_seq)`, and
`SessionStore` takes of a shell only whether its process is alive and its task
told to close, which `LocalShell` takes apart. A socket of `Relays` begins where
`Tickets` ends. A backup is rows and files in `Blobs`, and one value with a key
in `SettingsBackup`.

**Scrollback.** `written` is all that was ever pushed, `buf` the `VecDeque`.
`Push` is translated with its two branches (a write at least as large as the
buffer; a write that pushes out the oldest).

**TerminalStream.** A byte is its position in the stream and a frame the interval
it carries. A connection has a phase (`Phase`), a step of its attach handler, a
queue, a pump and a wire. `Publish` is one step because it holds the attachment's
lock throughout, as is `AttachTaken` (replay read and sender installed under the
same lock); a spawned send of `ReplayRequired` is a step of its own
(`SendMarker`), as is the end of a session taken out of the store (`TakeOut`, then
`Terminate`). The panel counts a byte when its renderer calls back (`Draw`), the
app when it arrives (`Consume`). `LinkDrop` loses what is on the wire; the agent's
`Disconnect` comes whenever it likes, or never. `Reload` is a page that keeps its
handle and loses its screen. Typing and resizing change nothing these properties
tell apart; that a write fails is `ShellBroken`.

**SessionStore.** A handler is cut at every `await` and wherever it gives a lock
back: `pc` is where it is. A password change is two steps (`ChangePassword` stores
the hash, `EndAccount` drains the store), and ending a session that was taken out
of the map is a third (`Terminate`). `ResetFromCli` is another process: it changes
the epoch and tells nobody, which is also what a change leaves whose request is
dropped, or fails, at its commit. Handlers run to their end once started; a framework
that dropped one half way is not modelled.

**LocalShell.** The kernel's buffers, the reader's steps around the gate
(`Read`, `ReaderLocks`, `ReaderSends`), the reaper's (`TryWait`, `Drain`, `Shut`,
`ReaperSends`), and the task's select. `LocalShell::write` is a blocking call made
inside the task: between `TakeInput` and `Write` it takes nothing else. A background
process may inherit the PTY and outlive the shell (`held`); while anyone has the slave
open (`SlaveOpen`) the reader sees no end and a write does not fail, it waits for room.

**Tickets.** The request for a ticket checks its caller and issues later; an
upgrade reserves, is admitted, opens and only then commits, and a request may be
dropped in between. Expiry may come at any time after the issue (tickets share one
TTL, so the model's order of expiries is freer than the clock's). Secrets and
purposes are reduced to whether they match.

**JobLog.** `push` is two steps, since the number is taken before the lock, and
`view` is two, since the state is read before it. The page adds what a view
brings; that it shows only the last 2000 of them is left out. `Since` is the filter of
`view`, said by the rank of a line among those asked for.

**Blobs.** A file is its digest, there or not (a rename is atomic); a name is a key
of one of the tables `NAMED` lists, and its row the set of digests it names.
Every request has the shape of `store`: take the gate, put each file (`PutFound`, or
`Stage` and `Rename`), hand the transaction over (`Submit`), have it applied, answer
and spawn a collection. A theme that replaces no earlier one (`First`: none is there, or this very
package) spawns no collection; an earlier one without backgrounds, or another of the
same ones, has it spawned all the same, so that where the rows do not tell, `Apply`
takes either. What differs is a parameter: `Store` (backups, wallpapers,
themes, apps), `Restore` (the files of an archive, then the rows of every table it
carries) and `Move` (a start after an old agent). `Remove` takes no gate. A request
may be refused in its transaction, fail, or be dropped with its client (`Drop`).
`Collect…` is `Blobs::collect`, cut after the gate, after the rows were read and
after each file. `Snapshot` and `ArchiveFile` are a settings backup, which copies
rows first and opens files later without the gate. `Crash` is the agent killed
anywhere; a start moves, collects, and only then serves. `lost` remembers rows
restored from an archive that never had their file. `AtomicStore` is the
abstraction: names with contents, and clients whose change is made in one step or
given up; the mapping takes a name's rows for its contents when the files are there.

**SettingsBackup.** The settings are a value and their stable hash the value itself,
so a hash collision is left out. A check holds the lock from reading the row to
recording the outcome; everything inside that another actor can come between is a
step: hash (`Check`), list, copy (`Pack`), upload, list again, each delete, record. A request
may fail before or after the server did what it asks, and packing may fail too
(`PackFails`: the copy, the archive, its encryption, `MAX_BYTES`); a hash that cannot be
made is left out: it leaves what a failed listing does, but that `prune_due` stays. Times in names are distinct;
with `ClockBack` they need not grow. Edits go on during a check; only operations that
take the lock wait for it. `daily` stands for the volatile columns once the last
backup is a day old. The command line (`"cli"`) is a second process with a lock of
its own. That a partial upload (`.part`) is swept is left out.

**Relays.** One phase per socket, from its admission to the end of its loop. The
order of subscribing, reading the account and starting the loop is each kind's
own: `Request` subscribes and `CheckAccount` compares; a console asks again
(`Greets`); remote desktop reads first (`RdpReads`) and subscribes after. A change of
password made through the agent is two steps, the stored hash (`ChangePassword`) and the
broadcast. `ChangeUntold` is one that no broadcast follows: a reset from the command
line, or a request that is dropped, or fails, at the commit that carried its change out.
`announced` remembers the newest change that was to be told; the properties are about
those and `cli_reset.cfg` about the others. A held connection is
waiting, taken or closed; `Age` is `PENDING_TTL` going by and `Timer` the task spawned
for it. `Stall` is a client that no longer reads, so that a send to it waits for good.

**LoginThrottle.** `BASE_DELAY` is the unit of time. `failures`, `inFlight` and `seen` are
`Entry`'s fields, kept as 0 where there is no entry. Guesses are counted by history
variables: `guesses` since the last success or long rest (an entry that is pruned has
rested, whether or not it is asked for in that `begin`), `start` when the first was
admitted, and `excused` for a reservation given back twice (see
`throttle_release.cfg`). `Doubled` is the shift `1u32 << n`. `begin` and `record_failure`
read the clock just before they take the lock; the model reads it under the lock, so
what is said of delays is said up to a wait for that lock.

**DeskSession.** Windows are the set of changes made to them; `stored` is the row of
`desk_session` with its windows, and the rest is `SessionSync`, per tab. A save is
asked, written or refused in one step of the agent (its first statement takes
SQLite's write lock), and answered later; a read is two statements with no
transaction, so it may bring an older revision with newer windows. Focus is only ever
read, so what a tab does where it asks is a choice (`RefusedInUse` or `RefusedUnused`).
A tab shows of stored windows those whose app it knows: `hydrate` leaves the others out
(`Shown`), and of apps installed on the agent (`Installed`) a tab knows all, or none when
it could not read them. `told` remembers what a tab was answered with, `left` what its
last `hydrate` left out.
The desk's `$effect` reads the session's status, so a tab that becomes ready saves
once. `heard` is the newest revision an event has brought and the tab not acted on: of
several unread events only the last counts. A request the agent takes up after its tab
gave up on it is left out, as are a desk kept in `localStorage` and a tab that starts
without its windows (`Restore = FALSE` is in the module, in no run).

## 3. Runs

`tlc -config <cfg> <module>`. "States" are distinct states.

| Run | Checks | States |
|---|---|---|
| `scrollback` | `HoldsNewest`, `ReplayIsWhatWasMissed` | 255 |
| `stream_panel` | `Contiguous`, `ResumeLeavesNoHole`, `CounterNeverLeads`, `LagIsAnnounced`, `CatchesUp` | 766 384 |
| `stream_takeover` | `NewestStaysAttached`, `QuietSocketIsTold`, `ResumeLeavesNoHole` with a panel tab and the app | 1 833 083 |
| `store` | `OldPasswordHoldsNothing`, `NothingIsOrphaned`, `StoreIsBounded`, `NoneIsForgotten`, `ClosedShellDies` | 362 502 |
| `shell` | `NothingAfterExit`, `OutputBeforeExit`, `ExitEndsTask` | 111 624 |
| `tickets` | `SingleUse`, `OutStaysOut`, `LiveIsBounded` | 2 779 924 |
| `job_log` | `OneAtATime`, `ShownInOrder`, `EndIsShown`, `PageStops` | 46 130 |
| `blobs` | `PutStays`, `NamedHasFile`, `GarbageIsDue`, `ImplementsAtomicStore` | 1 461 644 |
| `settings_backup` | `EveryBackupOpens`, `CurrentKeyIsThere`, `UnchangedIsBackedUp`, `EditsAreBackedUp`, `OwedPruneIsDone` | 606 648 |
| `throttle` | `GuessesAreSlow` | 2 493 375 |
| `relays` | `NoChangeIsMissed`, `OldPasswordEnds`, `HeldIsResolved` | 597 076 |
| `desk_session` | `NothingIsReplacedUntold`, `RestIsSaved` | 5 505 073 |

**Bounds, and why they are enough.**

- `scrollback`: capacity 3, writes of up to 4 bytes, 7 in all, over two bytes that
  can be told apart. A write smaller than, equal to and larger than the buffer
  occurs on an empty, a part-full and a full one; the proof removes the bound.
- `stream_*`: a queue of one slot overflows on the second frame, a scrollback of
  two bytes under three written truncates, a chunk may be one byte or two, three
  or four connections allow a resume after a resume, and one or two faults allow a
  drop during a recovery. Takeovers need two clients and little output.
- `store`: a cap of one with two sessions makes opens race for a slot and sends
  one through every failing path; two connections are one that opens and one that
  rejoins or takes over; one change of password, from
  the panel or from the command line, reaches every point of a handler. A session is
  lost, rejoined, reaped, closed and revoked. The safety properties are proved without these bounds.
- `shell`: buffers of one chunk and a channel of two block each party with six
  chunks of output and three of input; a background process may start, write, read and
  end at any point, before and after the shell has gone.
- `tickets`: three tickets under a cap of two, three upgrades that may present the
  same one. Proved without bounds.
- `job_log`: two jobs, four lines each in a log of two. The safety properties are proved
  without these bounds.
- `blobs`: two digests, a hosted backup and a theme that may share or exchange
  them, two requests at once, one settings backup and one crash; a collection meets
  every point of a request, and a request every point of a collection. At most one
  collection is owed when a request begins; more may be by the time it ends.
  Requests and digests are interchangeable (`Symmetry` of `MCBlobs`; nothing temporal
  but a step property is checked with it).
- `settings_backup`: two folders, two keys, two backups of which one or two are
  kept, one edit, one failing request and one crash: a key change between two
  backups, a surplus, and a fault in any request of a check all happen. Once the
  two backups are made (`Exhausted`) the temporal properties ask for nothing more.
- `throttle`: the longest delay is two units, `ENTRY_TTL` two, no free attempts for an
  address and one for the account, so that delays double, reach their limit,
  expire and are pruned within four units. The keys are one address and the account
  (`Devices = {}`): a device's key is treated as an address's is. Proved without bounds.
- `relays`: a listener and a socket that takes what it holds, or any two kinds; one
  place for a listener and one connection that comes in; two changes of the password, so
  that an untold one comes before, after and between the steps of one that is told. With
  two connections for one place and one change (`Incoming = {i1, i2}`, `MaxChanges = 1`)
  the same properties hold; the room for held connections is then met as well.
- `desk_session`: one tab whose first load is answered and one that starts, one change,
  to a window of an installed app, and two tries per save. Each tab saves once on its
  own, so three saves meet: a save is refused twice, a reload is answered during one, and
  a request fails.

**Deadlock** is not checked: every model ends, with shells gone, bounds used up
and pages stopped, as the system may.

**Fairness.** Only what a runtime schedules is fair: spawned tasks, handlers that
were started, threads, the reaper's interval, a client's reconnect timer. Users,
links, the password, and what a child process does are not, with these exceptions:
in `LocalShell` a child finishes a write for which there is room and reads input
it has (a child that does neither is another way to the blocked task below);
that the reader sees the end of the PTY is *not* assumed, since ConPTY and
background processes keep it open. In `SessionStore` fairness of `ReadClose`
says that the driving task gets back to its `select`; `blocked_write.cfg` shows
when it does not, so `ClosedShellDies` is conditional on it. In `JobLog` a job
ends because each step is bounded by `STEP_TIMEOUT`, the page asks each second, and
`SF(ViewLines)` says that not every answer is lost. In `SettingsBackup` the loop
checks every `CHECK_EVERY` and a request ends, one way or the other, by its
timeout. In `Relays` tasks that can go on do and time passes; a client that does not
read owes nothing, which is why `OldPasswordEnds` stops where a send waits. A background
process of a shell owes nothing either: `ExitEndsTask` holds but for a write that it
leaves blocked for good.

**Where code and comments disagree.** Each of these configurations states what a
comment says of the code, runs on its module as it is, and TLC finds the property
violated. They are run by hand: the runs of `PROJECT.json` are those that pass. In
`stale_session`, `cli_reset`, `rdp_race`, `desk_close` and `desk_unknown` a comment says in
so many words what the code does not do; the others are readings of a comment that one
may argue about.

| Configuration | Module | Property | What happens |
|---|---|---|---|
| `dead_shell.cfg` | `TerminalStream` | `DeadShellIsNoticed` | a keystroke written to a shell that has just exited ends the task with nothing published; the attached client keeps an open, quiet socket (`terminal.rs:786`, `:992`) |
| `stale_session.cfg` | `SessionStore` | `StaleIsSwept` | `Session::since` is documented (`session.rs:148`) as what the sweep compares after a reset from the command line. Nothing reads it; an attached session of the old password stays |
| `lag_loses_tail.cfg` | `TerminalStream` | `NothingIsLost` | a shell that exits while its lagging client is asked to reconnect is removed before the client is back, and the last output with it |
| `app_lag_ends.cfg` | `TerminalStream` | `AppOutlivesItsSocket` | the app has no case for `output_lagged`; its default branch ends a session whose shell is alive |
| `revoked_untold.cfg` | `TerminalStream` | `SupersededIsTrue` | `end()` uses `try_send`; with a full queue the client hears `superseded` instead of `password_changed` |
| `reap_race.cfg` | `SessionStore` | `ReapSparesAttached` | a session leaves the map before it is closed; an attach that already has it succeeds in between, and is closed |
| `blocked_write.cfg` | `LocalShell` | `CloseEndsTask` | child blocked writing, reader sending, task in `write`: each waits for the next and `Close` is never read |
| `held_pty.cfg` | `LocalShell` | `ExitIsReported` | the shell has exited and a background process keeps the PTY open without reading: a write the task is in waits for good, and the exit is never taken (`pty.rs:279`, `terminal.rs:801`) |
| `ticket_race.cfg` | `Tickets` | `OldTicketsAreForgotten` | a caller checked before a change is issued a ticket after it. The upgrade reads the account again, and what it opens carries the new epoch |
| `job_gap.cfg` | `JobLog` | `EveryLineIsRead` | `next` may be past a line that is numbered and not yet stored; the page never asks for it |
| `job_swap.cfg` | `JobLog` | `PageFollowsItsJob` | the poll does not compare `JobView::id`: after a job ended and another began it reads on in the other one |
| `blobs_cli.cfg` | `Blobs` | `PutStays` | `backup restore` from the command line takes a gate of its own; the running agent's collection removes files it has put and not yet named (`blobs.rs:14`) |
| `late_drop.cfg` | `Blobs` | `NamedHasFile` | a request dropped while its commit is under way gives up the gate; a collection in between removes the file, and the row comes after. It needs a server that drops a handler there |
| `partial_backup.cfg` | `Blobs` | `BackupIsWhole` | a wallpaper or theme replaced while a backup is packed: the archive has the old row and not its file (`snapshot.rs:9`; `write_archive` says so of files that are gone) |
| `prune_lost.cfg` | `SettingsBackup` | `KeepIsReached` | `prune_due` is in memory only: killed before the next check, or during it, the agent keeps the surplus until a backup is due (`mod.rs:533`) |
| `backup_cli.cfg` | `SettingsBackup` | `CurrentKeyIsThere` | `backup run` beside the agent prunes with the row it read; a passphrase set meanwhile loses its key file, and no backup is made until a new one is set (`mod.rs:528`) |
| `backup_returns.cfg` | `SettingsBackup` | `HashIsTrue` | settings edited between the hash and the copy: the recorded hash is of settings no backup holds; a restore that brings those settings back finds them "unchanged" (`mod.rs:11`) |
| `backup_clock.cfg` | `SettingsBackup` | `UnchangedIsBackedUp` | with the clock set back the newest backup has the oldest name, is pruned at once, and the settings count as backed up |
| `cli_reset.cfg` | `Relays` | `ResetEndsRelays` | a reset from the command line "ends what the old password had paid for, as one through the API does" (`bootstrap.rs:92`). It tells no running agent: relays and listeners go on, as the command's own message says (`cli.rs:258`) |
| `rdp_race.cfg` | `Relays` | `RdpMissesNoChange` | the account is read and remembered before the subscription; a change between the two is compared with the new password and its notice reaches nobody (`rdcleanpath.rs:335`) |
| `stalled_listener.cfg` | `Relays` | `EndedEnds` | `accept_loop` waiting in `sink.send` for a client that does not read hears neither `DELETE /live/connections/{id}` nor a password change (`live.rs:3`) |
| `desk_reload.cfg` | `DeskSession` | `RestIsCurrent` | a reload asked while the tab was not in use is answered during its save, and replaces the windows it is saving; the answer then brings the revision up to date, so no event corrects what the tab shows, and its next change puts the saved one away (`session.svelte.ts:5`) |
| `desk_close.cfg` | `DeskSession` | `ClosingSaves` | `close` behind a save under way only sets `#again` and closes at once; the save that should follow is refused by `#closed` (`session.svelte.ts:115`) |
| `desk_unknown.cfg` | `DeskSession` | `UnknownComeBack` | a tab that could not read the catalog's apps leaves their windows out, and the save it makes when it becomes ready stores the rest: they do not "come back on the next start" (`deskState.svelte.ts:272`, `windows.svelte.ts:296`) |
| `throttle_release.cfg` | `LoginThrottle` | `EveryAttemptIsReserved` | a success removes the entry with the reservations of attempts in flight, whose release gives back what a later attempt reserved (`ratelimit.rs:79`) |

## 4. Proofs

`tlapm <Module>.tla`; every theorem is proved for all values of the constants
under the module's named assumption.

- **`OutputProofs`**, the scrollback — `BufferHoldsNewest` and `ReplayExact`. The invariant is
  that the buffer is the suffix of `written` of length `min(Capacity, |written|)`;
  the lemmas say what a suffix of a concatenation is. `HoldsNewest` is inductive as
  it stands; `ReplayIsWhatWasMissed` follows from it in each state.
- **`OutputProofs`**, the shell (`LocalShell`) — `ExitIsLast` and
  `OutputIsFirst`. The invariant adds `Gated` (whoever sends holds the gate, the reader only while it is not shut; it is shut exactly from the reaper's turn
  on, and an exit in the channel or taken means the reaper is through) and `Conserved`
  (while the reader runs, chunks delivered, in the channel, in its hand and in the PTY
  are all that the child wrote; a reader that was done when the gate was shut had
  left none of them, or the task has gone without having published the exit). Neither
  property is inductive without them: the first needs that nobody sends behind the exit,
  the second that a chunk read late can only be one the drain window did not wait for.
- **`OutputProofs`**, the log of a job (`JobLog`) — `OneJobRuns`, `LinesComeInOrder`,
  `EndComes`: for any jobs, lines, `MAX_LINES` and lost answers. `LogInv` says that only the
  slot's job runs and only a job that runs pushes (`Turn`); that a log holds
  consecutive numbers up to the last one stored (`Consecutive`), so that what a view
  filters out is the log's end (`SinceIs`); and of the slot's job and of the one being
  read that the page has of it only lines below the one it asks from (`Below`) and
  every line below it but those it had to miss (`Given`). Two jobs are needed because a
  page may still be reading one when the next takes the slot, and reads on there from
  where the other stood: `Reached` says that such a position was numbered by an earlier
  job, which is what excuses the lines the page never asks for. That `EndIsShown` holds
  rests on the order in `view`: an end that was read (`Reading`) is of a job that no longer
  pushes, and the lines come after it.
- **`SessionStoreProofs`** — `TypesHold`, `OldPasswordIsOut`, `NoOrphans`,
  `StoreKeepsItsBound`. None is inductive alone. `IInv` adds: `Owned` (a shell that
  no task drives yet belongs to exactly one open handler, admitted under the epoch
  it carries), `Spoken` (what a handler past its claim speaks of exists and is
  driven), `Driven` (alive means driven or owned), `Findable` (a shell nobody is
  ending is in the store, so `close_all` finds it, or its recheck is still to come),
  and `Outdated` (once `end_account` is through, what is left in the store is of the
  current epoch or about to be rechecked, also behind an attach that has passed its
  check). The last is the heart: a change between check and registration is caught
  by the recheck, one after it by `close_all`, and an attach that got its session
  before the drain meets one that is ending. One lemma per conjunct, one step per
  action. The bound is proved on its own by cardinality.
- **`AdmissionProofs`**, the tickets — `TicketsInvariant`, then `TicketsAreSingleUse`,
  `NothingComesBack`, `TicketsAreBounded`. The invariant adds `Held` (a request that
  holds a reservation either has the entry reserved or its entry is gone, and a
  ticket in the store was issued) and `Distinct` (no two requests hold one ticket).
  They are needed because a sweep or a revocation takes the entry from under a
  reservation, so "reserved" alone does not say who may use it.
- **`AdmissionProofs`**, the throttle (`LoginThrottle`) — `GuessingIsSlow`: for any keys,
  attempts at once, free attempts, delays, `ENTRY_TTL` and prunes. `Covered` says that the
  failures and reservations of an entry are at least the guesses counted and not
  excused, and that a key without an entry has neither; `Paced` that the guesses had taken
  their sum of delays when the key was *last seen*, not only now: the next guess waits
  from there. An admission has waited the delay of what the entry counts
  (`AdmittedWaited`), and delays only grow (`DelayGrows`), so counting more than there was
  makes nobody faster. `Needed` and `Doubled` are recursive functions. That they
  unroll, are numbers and are monotone is an induction over numbers, which is had from
  the well-ordering of `Nat` (`WFMin`, whose parameters are sets): `InductiveSet` is
  induction for a set, and `RecursionExists` builds the function a recursive definition
  chooses, so that the definition's equation holds.

- **`RelaysProofs`** — `TypesHold`, `ChangesReachAll`: for any number of sockets,
  held connections and changes, a relay, listener or console that passed its check and
  was admitted before a change made through the agent has a notice pending, or a
  broadcast is still to come, whatever untold changes there are too. Of those it says
  nothing. The invariant adds `ReadIsRdp`: only remote desktop passes through the phase
  that reads the account before it subscribes, and the property is about the other
  kinds; and `ToldWasMade`: no change is told of that was not made, so a socket that
  finds its epoch the account's has missed none.
- **`BlobsProofs`** — `TypesHold`, `FilesPutStay`, `RowsHaveFiles`, `GarbageIsOwed`,
  `StoreIsAtomic`: for any requests, names and digests, through crashes, failures and
  collections. All but the first assume what the code assumes: that the agent is the
  only process (`Foreign = {}`) and that a request is not dropped under its commit
  (`LateDrops = FALSE`); `blobs_cli.cfg` and `late_drop.cfg` show each is needed. The
  invariant adds, per request, `Sound` (what it put is there, and what its rows name is
  put or still to be put), `Alone` (a collection has the gate for itself), `Covered`
  (what it read still covers what rows name, as no request can commit meanwhile) and
  `HasFiles`. `GarbageIsDue` needs more: a theme installed for the first time spawns no
  collection, nor does one installed once more, so these must leave nothing behind (`Packed`), and the end of a collection
  settles everything only if what it read is still named or another is owed (`Fresh`).
  `StoreIsAtomic` is the refinement: `ContentsAreRows` makes puts and collections
  stutters, and every other step is one of the four of `AtomicStore`.
- **`TerminalStreamProofs`** — `OutputIsContiguous`, `ResumptionIsSound`,
  `CounterIsBehind`, `EndsAreTold`, `CutsAreAnnounced`, `NewestIsAttached` and
  `TypesHold`: for any clients, connections, faults, chunks, queue length and
  scrollback. Frames *flow* when each goes on where the one before it ends. The
  invariant says that the wire flows from the end of the client's screen, the queue
  from the end of the wire, and that the queue of an attachment that is not withheld
  ends where the scrollback does (`Stream`); that what the renderer has not drawn flows
  from the counter to the end of the screen (`Drawing`); that a connection has one
  client (`Linked`) and is attached once (`Staged`). The middle link is why a publish
  may append without looking, and the last one of the queue why an attach under the
  same lock may. A connection whose `ready` has not been read (`Fresh`) has nothing to
  draw, since a reconnect drops the callbacks of the one before: that is what makes the
  counter safe to set. `LagIsAnnounced` and `NewestStaysAttached` need only the types
  beside themselves.
- **`SettingsBackupProofs`** — `BackupsOpen`, `KeyInUseIsThere`,
  `UnchangedMeansBackedUp`: for any folders, keys, backups, edits, failures and crashes,
  if one process backs up (`Processes = {"agent"}`; `backup_cli.cfg` shows what a second
  does) and, for the last, the clock is not set back (`backup_clock.cfg`). What is
  deleted was chosen from a listing some steps ago: `Locked` says the row is still what
  was read, `Doomed` that a key file goes after every backup it opens. The last is not
  inductive for the backup the row names, which a check may prune after an upload that
  went unanswered; it is for the newest one (`Newest`), which pruning never takes.
- **`DeskSessionProofs`** — `TypesHold`, `NothingUntoldIsReplaced`,
  `TabsAtRestAreSaved`: for any tabs, changes, retries, reads under way and failures.
  `Informed` says of a tab, of the save it sent and of every answer on its way to it
  that its revision is at most the stored one and, where it is equal, that the tab has
  been told what is stored or will be with that answer; so a compare-and-swap that
  succeeds replaces nothing untold, although a read is two statements. That the tab
  showed all it was told of is not said, and not so (`desk_unknown.cfg`). `Minded` says that what a
  tab shows is stored, or a timer, a save or a warning answers for it.

Each invariant was checked by TLC on the runs' instances before it was proved.

Only model-checked: liveness (`CatchesUp`, `NoneIsForgotten`, `ClosedShellDies`,
`ExitEndsTask`, `PageStops`, `EditsAreBackedUp`, `OwedPruneIsDone`, `OldPasswordEnds`,
`HeldIsResolved`), since fairness and `ENABLED` are outside the prover. Every safety
property of every passing run is a theorem.

## 5. Plan

Further modules: the alert's states, the rate limiter of pushes and the list of
notifications; stacks' deploy and remove; container backups; the approvals of Agent
mode.

## 6. Not modelled

Reading metrics, files, containers, disks and guests is commands and parsers with
no state of their own. Of remote desktops and guest consoles only the ticket, the
check and the ending are modelled, not the protocols they carry; of a relay not its
bytes. Readers of blobs change nothing; that a machine may lose a rename in a power
cut is the file system's. Of accounts, tokens and the table of known devices are
left out. Agent mode and desk apps run on external runtimes
(a language model, a WebAssembly host). The Flutter app is a user interface over
SSH and this API; its terminal client for the agent is part of `TerminalStream`.
`PROJECT.json` lists each with its reason.
