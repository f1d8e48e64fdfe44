# Verification of astrbot_plugin_joker

The repository is a QQ group management bot (an AstrBot plugin that runs on a
Windows machine beside the QQ client) together with a web portal (FastAPI and
SQLAlchemy, on a Linux server).  The bot owns the facts: which groups exist,
which of them are licensed until when, and the files their configuration is
read from.  The portal owns the intentions: what an administrator saved in a
browser.  Nothing connects the two but HTTPS requests that the bot sends, so
most of what can go wrong is about two copies of one thing: who is allowed to
overwrite whom, after a lost answer, a restart, or a change in between.

This directory holds the TLA+ specifications of that program, the TLC
configurations that check them on small instances, and proofs of what matters
most for instances of every size.  Paths below are relative to the repository.

## 1. Inventory

### 1.1 Components that carry the program's own logic

**Configuration channel** (`web_client/remote_store.py`, `qqadmin/web_sync.py`,
`web_client/models.py`, parts of `web_client/services.py`).
State on the portal: a row per group (`GroupConfigSnapshot`: revision, applied
revision, status, error, time of the last write), a cursor per group and client
(`GroupClientSync`: applied revision, error, a flag for an accepted manual
pull), the claims of web accounts (`GroupAccess`), blocked clients.  State on
the bot: the projection on disk and its revision, the ACKs and failures still to
be reported.  Operations: a browser saves (`save_web_config`,
`mutate_web_config`), the bot's loop exchanges, applies the one projection it is
handed, and acknowledges it (`sync_once`, `apply_bot_exchange`,
`acknowledge_bot_changes`), reports failures with the next exchange
(`record_bot_sync_failures`), the owner asks for a pull
(`request_group_config_pull`), accounts claim and release groups.  Hard: every
request may be executed although its answer is lost, and be delayed or repeated;
the bot restarts between writing and acknowledging; several bots report one
group.  Correct: a cursor never claims what the client does not hold; the client
never goes back to an older revision; what a row shows is what its cursors say;
every revision is delivered in the end.

**Write queue of the portal** (`web_client/app.py`,
`_run_serialized_sync_write`).  State: one `asyncio.Lock` per group and one for
the client, queues of waiting requests, worker threads that run transactions.
Hard: a request that times out is answered while its thread is still inside the
transaction.  Correct: transactions over a common group exclude each other, no
circular waiting, every lock is released exactly once.

**License cards and group authorizations** (`auth/manager.py`, commands in
`main.py`, `_authorization_payload_from_info` and the local authorization part
of `sync_once` in `qqadmin/web_sync.py`, the authorization columns in
`web_client/remote_store.py`).  State: `auth.json` with the unused cards, the
used cards and the authorization of each group; a marker file that makes an
empty list authoritative; the portal's image.  Operations: generate, activate,
grant, reissue, add and reduce time, deauthorize, the cleanup of expired groups,
deletion of the used cards or of all; exchange and pull.  Hard: the whole file
is read, changed and written; a failed read looks like an empty file; a failed
write is only logged by half of the callers; a portal in local mode is a second
process; the portal's image lags.  Correct: a card is consumed once; a permanent
grant stays permanent; the tables of the file agree; what the owner is shown is
what was stored; the portal's image follows, and never leads.

**Portal actions** (`web_client/app.py`, `web_client/services.py`,
`qqadmin/web_sync.py`, `_apply_portal_member_actions` in `main.py`).  What an
owner asks the bot to do to members: mute, unmute, kick, rename after a new
prefix.  State: the queue in the group's configuration (`portal_actions`), the
claims of the bot process (`_portal_member_action_claims`, in memory), the record
of mutes in the group's file.  Operations: queue a request, save a prefix or
other settings, exchange, judge and claim a batch, call QQ, record, save,
acknowledge; the mute commands of the group.  Hard: a request travels with every
revision for as long as it is young, so it is delivered again by every save,
pull, failed save or lost ACK; a batch takes long, and the group goes on.
Correct: a confirmed revision leaves no request behind, a request is not run
again and again, an unmute does not undo a newer mute, every request is handled.

**Sign-in with a reward in the game's database** (`do_signin` and
`reset_signin_command` in `main.py`, `qqadmin/stats.py`, the transactions and
snapshots in `web_client/integration_service.py`, `web_client/app.py`,
`scum/player_database.py`, the local copy in `qqadmin/web_sync.py`).  The reward
is a row in a SQLite file of the game server which the portal reaches over FTP
only.  State: that file; the portal's retained snapshot with a revision, and its
descriptor in the group's configuration; the bot's local copy with the descriptor
it holds; the queue of uploads that did not arrive; the mirror of the sign-ins in
the group's file.  Operations: sign in, reset, select the database, upload,
pull, recover after a restart.  Hard: FTP has no transactions, the game writes
the same file, a timeout at the bot leaves the portal at work, an upload and a
sign-in need a database row and a lock in opposite orders.  Correct: one reward
a day, no success without its reward, nobody's row lost to another transaction,
a revision names one file, everybody gets an answer.

**Remote control** (`qqadmin/remote_control.py`).  Requests of the owner's
devices, one call each.

**Execution control** (`web_client/execution_control.py`).  Which clients may
exchange; a registry kept as one JSON value.

**Console journal** (`qqadmin/console_log.py`, `web_client/console_service.py`,
`remote_store.py`).  A bounded journal on disk, uploaded at least once,
deduplicated by event identifier.

**Group configuration files** (`qqadmin/group_config.py`).  A file per group
with a cache, defaults, migrations, and read-modify-write updates that notify
the synchronization.

**Timed messages** (`qqadmin/timed_message.py`, the loop in `main.py`).  A
message becomes due, a worker claims it with a persisted lease and a lock file,
sends it, and marks it sent or to be retried.

**Background tasks** (`qqadmin/task_scheduler.py`).  A process-wide registry of
named tasks that survives a hot reload of the plugin.

**Lottery, join requests and verification, blacklist, recall, message cache,
send guard** (`qqadmin/*.py`).  Each a small state machine over the
group file or a file of its own.

**Game servers** (`qqadmin/game_*.py`, `auth/game_manager.py`,
`web_client/websocket_api.py` and the IM3 clients).  Pending requests with
timeouts over a WebSocket that reconnects.

**Releases and self-update** (`web_client/self_update.py`, `deploy/linux`).
Stages of an update with verification and rollback.

### 1.2 How they interact

A browser save raises a revision in the portal's row and wakes the bot's long
poll.  The bot's exchange carries the groups it serves, their configuration
hashes and their authorizations; the answer carries one projection, actions and
flags.  Applying a projection goes through the group file and, for a pull,
through `auth.json`; both notify the loop, which makes the next exchange.  The
portal runs each exchange, ACK and save under the write queue, in worker
threads.  The commands of QQ users change the group files and `auth.json` from
the bot's event loop; a portal in local mode changes the same files from its own
process.

### 1.3 Hard behaviours

Lost answers and repeated requests; a restart between two steps; two clients of
one group; requests that time out and commit later; order of locks; whole-file
read-modify-write by two processes; errors that are logged and forgotten; stale
images that are written back; one bad item that holds up the rest.  The list
with lines is `hazards` in `PROJECT.json`; each names the properties that watch
it, or says why none does.

## 2. Modules

| Module | Models | Role |
|---|---|---|
| `ConfigSync` | configuration channel | detailed specification, properties, mutants |
| `ConfigRegister` | what the channel promises for one group | abstract specification |
| `ConfigSyncProofs`, `NaturalMin` | | proofs |
| `SyncLocks` | write queue of the portal | detailed specification |
| `ScopedWrites` | mutual exclusion over sets of groups | abstract specification |
| `SyncLocksProofs` | | proofs |
| `LicenseCards` | cards, authorizations, their portal image | specification, properties, mutants |
| `CardLife` | what one card lives through | abstract specification |
| `LicenseCardsProofs` | | proofs |
| `TimedDispatch` | one timed message and the bot processes that send it | specification, properties, mutants |
| `TimedDispatchProofs` | | proofs |
| `PortalActions` | requests for members, from the portal to QQ | specification, properties, mutants |
| `PortalActionsProofs` | | proofs |
| `SigninDatabase` | sign-ins paid in the game's file behind FTP | specification, properties, mutants |
| `SigninDatabaseProofs` | | proofs |
| `MC...` | | instances for TLC |

### 2.1 ConfigSync

The portal's state is `snapshot[g]` (a `GroupConfigSnapshot`), `clientSync[g][c]`
(a `GroupClientSync`), `bound` (the claimed groups) and `blocked`.  A client's is
its synchronization loop (`loop`, the `call` it waits for, its `reply`, the `change`
it wrote and has to confirm), the manual pull beside it (`pull`, `pullReply`), what
`web_sync.py` remembers between rounds (`managed`, `probed`, `manual`, `failures`),
and what is on disk (`stored`).  On the wire are the requests whose sender waits
(`sent`) and those it has given up (`late`, at most `MaxLate`), which the portal may
still execute; a request that is executed leaves an answer unless that is lost.
Each handler of the portal is one action, because the write queue makes it one
transaction; that this is so is the subject of `SyncLocks`.

A projection is its revision: the channel never looks into it.  What an exchange
could read of its sources is its health: `complete`, `auth_partial` (the cards, not
the authorizations), `auths_unreadable` (neither) or `config_unreadable`.  The
portal treats these differently, and marks rows "partial" or "protected".

Inside one exchange the order of flushes and readings matters.  The sessions have
`autoflush=False` (`web_client/database.py:55`) and the rows are read again several
times with `populate_existing`, so what was written since the last flush is lost:
the summary over the cursors (`remote_store.py:3183`) always is (`DiscoveredRows`),
the mark of an unreadable authorization is for the rows the client lists
(`SourceMarkedRows`), and a mark or a recovery is for each item of the groups loop,
unless an earlier item created a row and flushed (`ItemRow`).  What stays is what is
written last: the mark of an item without authorization (3462, `Unverified`), that
of an exchange without readable configurations (`HeartbeatRows`), the summary after
a failure report (`RowsAfterExchange`), after an ACK and after a pull.

### 2.2 SyncLocks

A request goes through the stages of `_run_serialized_sync_write`: it waits for
one lock after the other in the order of `NextKey`, runs its transaction in a
thread, and returns; `GiveUp` is the timeout or cancellation at any of these
points, with the deferred release when the thread is still running.  An
`asyncio.Lock` is a queue (external); its fairness is what the library gives.

### 2.3 LicenseCards

`file` is `auth.json`.  An operation is two steps, `Load(p)` and the action that
decides and writes: between them a second process may write, and the copy may be
the empty default.  The operations of one process never overlap, which is
what `_auth_lock` gives, so there is one copy per process.  `Save` is
`save_auth_data`, which swallows an error, and `Write` is `_atomic_write_json`
where the caller reports it.  A card carries its duration and the group of its
signature; `signed` is the set of cards that verify under the present token, and
`Retoken` is a change of that token.  The portal's image (`mirror`) has the
states "missing", "known" and "unverified"; `Exchange` computes the answer from
the image before it stores the new records, as `apply_bot_exchange` does.
`StateOf` says where a card is in its life (new, unused, used, gone), which
the file and the cards ever generated determine; `Life(c)` is `CardLife` for that
card under this mapping.

### 2.4 TimedDispatch

One task of one group.  `task` is the part of the task's record that the
dispatch reads and writes, `lock` the lock file.  A worker is a bot process; its
round is `Poll` (get_due_messages on a snapshot), a wait for accounts of higher
priority, `Claim` or `TurnAway`, the request to QQ, and `Confirm` or `Fail`.
`GiveUp` is every way to stop that writes nothing: the account is not the
primary one, the lock file is held, the 45 seconds of a round are over, a hot
reload cancels the loop.  `FailEarly` is the retry that is recorded before any
claim.  The functions on the file do not await, so each is one action; that two
processes could still interleave inside `update_group_data` is left to the
module of the group file.  Time is a clock in units that keep the order of the
program's constants (45 s for a round, 120 s for a lease, 300 s for a retry and
for the catch-up window, 65 min for the hourly one).  Cron matching is
abstracted to the set of planned slots.  Three history variables remember which
slots were marked sent, which send started last, and whether a retry was
recorded over somebody's send.

### 2.5 PortalActions

One group with owners.  The channel is the one of `ConfigSync`, reduced to what
matters here: a revision, the cursor of each client, one exchange at a time.  A
group with owners is managed by the server, so the branch of `sync_once` that
skips a delivery because of a local change is not taken
(`qqadmin/web_sync.py:4902`), and an ACK moves the cursor and leaves the
configuration alone (`web_client/remote_store.py:3752`).  `queue` is
`portal_actions`; `addedIn` is the revision that added a request and gives the
order of the list, `created` its time stamp.  A request for several members is
one request for each here, as `_apply_portal_member_actions` expands it.

A client's round is `Exchange`, `Choose` (everything up to the first `await`:
the whole batch is judged and claimed; without a QQ account it fails at once),
`CallQQ` and `Record` for each request in order, `SaveMerged`, `Acknowledge`.
`CallQQ` is the request to QQ, whose effect on the group is immediate; `Record`
writes the client's records when the answer is there, or not when it is lost or
unconfirmed, and an unmute that is not confirmed is tried a second time
(`main.py:2469`).  `LocalMute` and `LocalUnmute` are the commands of the group: they
ask QQ and wait (`asked`), and `LocalAnswer` is the rest of the handler, which
writes the records or reports a failure.  Between the two the loop of the client may
judge and run requests.  `Restart` is a restart or a hot reload of the plugin: the
claims, the overrides and the commands that wait are gone.

Three views of a mute are kept apart: `muted` is when QQ accepted the mute it holds
the member under, `muteList` what a client's group file records (`muted_at`), and
`overrides` what its process remembers (`_member_mute_state_overrides`), which is
finer than a second but counts only for a mute that has an end (`Noted` chooses
whether it has).  A mute that ends by itself is not followed: until then the records
refuse the unmute, and afterwards there is nothing to undo.

The two times of the code are constants, `Horizon` (900 seconds) and `ClaimTtl`
(600).  Three history variables remember which requests a client has dealt with,
which ones the portal dropped, and how often a process chose a request; the field
`known` of a client's round is a fourth, what the file had on record when the batch
was judged.

### 2.6 SigninDatabase

A file is its hash, a number; `data[h]` is what the file with this hash holds,
so that two threads which change the same file make two files.  `file` is what
the FTP server holds, `snapshot` the retained `PortalDatabaseSnapshot`,
`published` the descriptor in the configuration, `held` the one in the bot's group
file and `copy` the bot's local file.  A message (`job`) is a sign-in or a reset;
its thread on the portal goes through `Begin` (the lock of the file), `Download`
(the transaction on a private copy), `Check` (the second reading), `Store` (STOR),
`Save` (the snapshot, then its publication).  `GiveUp` is the timeout at the bot;
the thread goes on.  An upload is accepted with the row of the snapshot locked
(`Accept`) and holds it until it has ended; `Save` of a sign-in that waits more
than five seconds for that row fails.  `Select` downloads and saves without the
lock, in one step or in two.  `Recover`, `Retry`, `PostAnswer`, `Deliver`,
`Repull`, `PullDone` are the heartbeat's work on the local copy, `Restart` keeps
what is on disk, the pending uploads among it.  `GameEdit` is the game writing
its file, the only external action.  `trouble` bounds everything that may go
wrong, `writes` the files.  History variables remember which messages were paid,
which sign-ins the portal committed, and which resets left the reward.

## 3. Runs

Bounds are constants of the configurations and are named in the modules
(`MaxRevision`, `MaxLate`, `Attempts`, `MaxNow`, `MaxExpire`).

| Run | Instance | Shows |
|---|---|---|
| `config_network` | 1 group, 1 client, 3 revisions, 2 attempts, 1 late call, pulls, restarts | cursors, local files and the refinement of the register |
| `config_claims` | 1 group, 2 clients, 2 revisions, claims and releases, readable sources | a claimed group shown as synchronized has no client behind; an error that is shown is outstanding |
| `config_sources` | 1 group, 2 revisions, 2 clients, one of which does not list the group; all healths of their local sources, blocking, restarts | "synchronized" is shown too soon only by the recovery of a protected row; nobody comes to follow a group it does not list |
| `config_delivery` | 2 groups, 1 client, fairness | revisions are confirmed again and again |
| `sync_locks` | 5 requests over 3 groups and the client lock, fairness | exclusion, one owner per lock, no circular wait, refinement; every request answered, every lock opened |
| `cards_one_process` | 1 group, 4 cards, every local command, failing writes | every card lives its life (refinement), permanent grants, a card and its group keep one expiry, the shown card is the stored one |
| `cards_shared` | 1 group, 3 cards, two processes, failing reads and writes, pulls | the tables of the file agree |
| `timed_tasks` | 2 workers, 2 plans and every one-time task of their slots, 8 units of time | one send at a time, nothing marked sent is repeated, uncertain sends a lease apart |
| `portal_actions` | 1 client, a mute, an unmute and a prefix for one member, 3 revisions, 3 units of time, 1 failure, 1 command of the group, answered or not, fairness | nothing left behind, runs bounded, no newer mute on record undone, every request handled |
| `portal_actions_replay` | the same without failures and commands, 5 units of time, claims that end before the request does | a comment of the code that the code does not keep, see 5 |
| `signin_database` | 2 members, 2 messages, 6 files, 1 failure, both states of the local copy, fairness | one reward a day, no success unpaid, rows and revisions, every message answered, pending uploads settled |
| `signin_old_snapshot` | 1 member, 1 message, 4 files, 1 restart | see 5 |

Why the bounds are enough: a wrong cursor needs one revision to be held and a
newer one to exist, and a third for a reopened row to be passed, hence
`MaxRevision = 3` where pulls and delays meet; a second group matters only for
the order in which projections are handed out, a second client only for the
summary and for who follows what, so each has a run of its own.  One delayed
call is enough to be older than everything else; the second attempt is the retry.
For the cards, four
cards are a timed and a permanent one for everybody and one of each for the
group, the clock goes one step past the retention, and one group suffices for
the relations between the tables (a card names one group); that no second group
can disturb them is the theorem `CardsConsistentAlways`.  For the timed messages
two workers are enough to overlap, a plan with three slots in a row meets the
lease of the slot before, one with a gap the end of the catch-up window; the
theorems about them hold for every plan and any number of workers.  For the
portal's requests a mute and an unmute of one member are what can be in each
other's way, the prefix is the other way to add and to drop; three revisions are
one request each, or two and a save between them; `Horizon = ClaimTtl = 1` lets a
request be run twice, the mute command with its answer fits before, between and
after the steps of a batch, and the replay needs `Horizon > ClaimTtl` (3 and 2).  For the
sign-ins two messages are enough for two threads to meet, for a reset to meet its
sign-in and for a second try by one member; one failure anywhere, since each
property but the liveness ones is proved for any number of them.

Deadlock is checked in every run of the channel, the queue, the cards and the
timed messages: no instance stops, since the loops go on and requests are made
again when the bounds are used up.  It is not checked in the four runs of
`PortalActions` and `SigninDatabase`: when the requests or the messages have been
made, the bounds are used up and everything has been handled, the instance really
stops.

### Fairness

`config_delivery` assumes that a client's loop goes on (it is a `while True`
that catches every exception, `run_forever`), that the portal executes a call
sooner or later, and that a call which is made again and again is answered again
and again.  It does not assume that anybody saves, pulls or claims.  It
assumes too that a group file which is written again and again is written in the
end; for one that can never be written see section 5.  `sync_locks` assumes that the event loop runs
what is ready, that transactions end, and that a lock is given to the first
waiter; it does not assume that anybody gives up.  `timed_tasks` states safety
only: the clock is bounded, and nothing obliges QQ to answer.

`portal_actions` assumes weak fairness of a client's next step: `run_forever`
exchanges at least once per interval and catches every exception, every call to
QQ and to the portal has a timeout.  Nothing is assumed of the owner, the group or
the clock; the failures are bounded by `MaxTrouble`.  `signin_database` assumes
weak fairness of the portal's threads, of an answer that is there, and of the
heartbeat's recovery, retry and its answer; and strong fairness of taking the
lock of the file (`Begin`, `BeginUpload`), since a `threading.RLock` is taken by
somebody else in between, and each holder keeps it for a bounded time.  Nothing is
assumed of the owner, of pulls or of deliveries.

## 4. Proofs

Proved by TLAPS for every value of the constants (41 theorems are listed in
`PROJECT.json`):

* `ConfigSyncProofs`.  The invariant `IInv` adds to the type invariant what is in
  flight: a sent call is awaited, an answer is newer than what the client holds
  or is at most current, an ACK names what was written, and the row and its
  cursors are consistent.  It is needed because "no cursor runs ahead of the
  disk" says nothing of the ACK that is still on its way.  From it follow type
  correctness, `AcknowledgedWasStored`, `StoredNeverRegresses`,
  `CursorOnlyReopenedByPull`, and that every step of the channel is a step or a
  stutter of `ConfigRegister`.  The assumptions are those of the modules
  (bounds are natural numbers, marker values are none of the groups or clients).
  What a row shows is proved from the row and its cursors.  `ShownInv` says that a
  row shown as synchronized records its revision as applied and that one with an
  error has a client with a report (`Shown`), and that a report is about a revision
  its client has not applied (`Reported`); `ErrorShownIsOutstanding` follows.
  It does not give `SyncedMeansNobodyBehind`, because the applied revision of a row
  may be ahead of its cursors.  `TooSoonOnlyByRecovery` says how that comes to be
  shown, for every instance: each step is gone through, every summary and
  every claim leaves no client behind a synchronized row, and only the step that
  takes a mark off by the recorded revision does not look at the cursors.
  `SyncedIsSynced` then proves `SyncedMeansNobodyBehind` where that step cannot do
  harm: no web account ever leaves (`AllLevel`: the recorded revision is never ahead
  of the slowest cursor), or every exchange can read its sources (`NoneMarked`: there
  is no mark to take off).  Section 5 has the behaviour of the other instances.
  `ReachInv` says that a client is named beside groups it reaches only, where its
  reach is its list and, if its owner pulls by hand, any group: in the rows and
  cursors, in every request on its way or kept back, in what its loop and its
  files hold.  It needs the requests, because a row is claimed by a request that
  was written long before.  `OnlyListedGroups` follows, for every list and with
  no hypothesis.
* `SyncLocksProofs`.  `LocksInv` relates the stage of a request to the locks it
  answers for.  It gives mutual exclusion, `LockedByOne` and the refinement of
  `ScopedWrites`.  `LinesInv` adds that a line holds exactly the calls that queue
  for its key and that a call takes its keys upwards.  With finitely many keys
  `SomebodyMoves` follows: when no transaction runs and no release is due, the
  greatest key anybody queues for is open, and the head of its line can take it.
* `LicenseCardsProofs`.  `CardsInv` says of the file and of every copy a process
  still holds that it is sound: its tables agree and it speaks of generated cards
  only.  A copy may be arbitrarily old; that a write back of it does no harm to
  the tables is because soundness does not mention any other copy, and because a
  new card is none of the generated ones.  `ShownCardIsStored` follows with the
  same generality.
  The others relate two versions of the file, or two of its tables, and each
  assumes what it needs.  `CardViewInStep` assumes no pulls: every operation that
  keeps the two expiries together on a sound copy does so on an old or an empty
  one.  That the file implements `CardLife` for every card assumes one process:
  `OneProcessInv` says that the copy of the bot is then the file or the empty
  default, and a card that the empty default hides is gone for good, which the life
  of a card allows; pulls, failing reads and failing writes are all included.
  `PermanentNeverDowngraded` assumes one process, reads that succeed and no pulls
  (`Alone`); a copy is then the file itself.
* `TimedDispatchProofs`.  `DispatchInv` says that a round ends before the lease
  it took does (`Round < Lease`), that whoever takes the lease off leaves a
  back-off as long (`Lease <= RetryDelay`), hence that during a send the file
  refuses every other claim; that the recorded slot is at least every slot marked
  sent, unless a retry took a message's claim off while it was being sent
  (`SlotLost`); that a one-time task has one slot, so that any time of its sending
  does as well; and that a worker which still holds an older slot chose it before
  the latest send, so that its round is over when the lease is.  From it follow type
  correctness, `SingleFlight`, `ConfirmedNotRepeated` and `SendsSpaced`.

* `PortalActionsProofs`.  `QueueInv` says that a request which was made is in
  the queue, dropped or stale, and that neither its time nor its revision is in the
  future; `WorkInv` that the requests a client has still to run,
  with those it has handled, cover what the revision it works on carries.  It is
  needed because `ConfirmedMeansHandled` says nothing of the revision that is
  being applied.  `RunsInv` bounds the choices by the time since the request was
  made, since each needs a claim that has run out.  `JudgedInv` says that an
  unmute that is going to run found no newer mute on record when it was judged, so
  that a newer mute it undoes is one the record did not show
  (`OnlyUnseenMutesUndone`); of those the theorem says nothing, see section 5.
* `SigninDatabaseProofs`.  `Frame` holds the types, `LockInv` (a thread is at work
  exactly while it holds the lock), `JobInv`, `PostInv` (while an upload is accepted
  nobody changes the snapshot it is based on) and `RowsPaid` (a row is never without
  its credit).  On top of it: `PaidInv` (an answer that is a success was paid),
  `KnownInv` (no descriptor in use is ahead of the retained snapshot), `DerivedInv`
  (a thread's copy is its base and one change), `RowsInv` (the rows of a file that
  is about to be replaced are those of the base, whatever the game changed since),
  `WithinInv` (in every file that may come back, on the server, retained, local or
  on its way, a member's credits are at most the row of the day and the resets that
  left one).  The last one is why `OneRewardPerDay` survives the upload of an older
  copy: with the row the credit goes as well.

Only model-checked: every liveness property, since fairness and `ENABLED` are out
of the prover's reach.  Where a theorem has a hypothesis its run shows no more
than the theorem does; the cases it leaves out are in section 5, and `cards_shared`
shows what remains of the cards with two processes.

## 5. What the code does not keep

Two runs violate, on purpose, a statement of the code's own comments;
`findings` quotes each.

1. `portal_actions_replay`: a request is "one-shot", but its claim is forgotten
   after 600 seconds (`main.py:1150`) while it stays in the configuration, and is
   accepted, for 900 (`main.py:1198`): the next save runs it again.
2. `signin_old_snapshot`: the upload after a restart is "base-hash-protected",
   but the base it names is the newest one the bot knows and not the one its copy
   was made from.  When the descriptor of a committed sign-in has arrived and the
   pull has not, an older copy replaces the file (`qqadmin/web_sync.py:3320`).

TLC finds five more statements violated, over `ConfigSync` (the third with a
history variable) and `LicenseCards`; they have no run of their own.

* `SyncedMeansNobodyBehind` when a web account may leave and sources may be
  unreadable, with one client and no pull.  The client stores revision 2; the group
  is unbound; the ACK completes the row of a group that nobody claims, so the row
  records 2 as applied and the cursor stays at 1 (`web_client/remote_store.py:3790`);
  the group is claimed again and "pending" (`web_client/services.py:353`); an
  exchange that cannot read its configurations makes the row "protected"; the next
  complete one compares the recorded revision and shows "synced" (3284) with the
  cursor at 1.  The summary that would have seen the cursor was written at 3183 and
  discarded by the reading at 3265, although the comments at 2956, 3513 and 3636
  describe this very effect.  The client is still sent revision 2, since what is
  handed out is decided by the cursors.  `TooSoonOnlyByRecovery` says that there is
  no other way.
* `web_client/remote_store.py:3655`: "The remaining revisions stay in the database
  and are returned one at a time on subsequent polls" (3645).  A projection that
  cannot be applied is handed out first each time, and no other is.
* `web_client/remote_store.py:3763`: a manual pull that is accepted between an
  exchange and its ACK is consumed by that ACK, without the projection and the
  authorization it asked for (`qqadmin/web_sync.py:383` says that serializing
  prevents such a race).
* `auth/manager.py:259`: the lock does not reach the process of a portal in local
  mode, which can write an activated card back as unused (364 says that the lock
  prevents it).
* `auth/manager.py:233`: a command that cannot read `auth.json` writes the empty
  default back with its change; the next exchange publishes that as the
  authoritative list (204 says that it cannot).

Other behaviour that was met while modelling, that the modules reproduce, and
that no property excludes:

* `web_client/remote_store.py:3166`: a second client of a group starts with a
  cursor at the current revision and is never sent the stored projection.
* `web_client/remote_store.py:2566`: a save clears the error of the row and not
  those of the cursors, so the next summary that stays shows the old failure again:
  that after an ACK, a pull or a failure report of any client, and not that of an
  exchange, which is discarded.
* `web_client/services.py:353`: a group that is claimed while every cursor is at its
  revision is shown as "pending" with nothing to send, until the next save, pull or
  failure report, or until a mark on its row comes and goes.
* `web_client/remote_store.py:3647`: the order of the pending projections follows
  the last write of a row, which every heartbeat is, and not the last save.
* `web_client/remote_store.py:3299`: a pulled authorization is older than the one
  that the same exchange uploads, and replaces it on the bot.
* `auth/manager.py:1048`: a pull leaves the expiry of the group's card behind.
* `qqadmin/web_sync.py:4549`: a group whose authorization and configuration are
  gone is left out of a scoped exchange, so the portal keeps its last record.
* `main.py:7840`: a worker without a QQ account records a retry before it claims.
  That takes off the claim of a worker that is sending; its confirmation then
  records no slot (`qqadmin/timed_message.py:700`) and clears the back-off, and
  the slot is sent again.  `ConfirmedNotRepeated` and `SendsSpaced` exclude this
  case by `SlotLost`; without that condition TLC finds it.  It is one of messages
  only: an hourly report confirms the slot it names itself, and a one-time task that
  has been sent at all is never due again, so both are proved for them.
* `main.py:1255`: of two equal requests in one batch the second is skipped and not
  claimed, so it runs with the next delivery.
* `main.py:3556`: a restart or a hot reload loses the claims, and what was
  delivered last is run again.
* `main.py:1206`: the owner's unmute that was queued before the owner's own mute
  was executed is discarded as older than a "local" mute; so is one queued after a
  mute that QQ had accepted but the client records only later.
* `main.py:1206`: the comment says that an unmute "must never undo a newer mute".
  The check looks at what the client has on record, for the whole batch, before the
  first request to QQ.  It does not see, and the unmute undoes, a mute that was
  recorded after the batch was judged; one whose answer from QQ is still awaited
  (`main.py:29692`) or was lost, also through a restart; one that another client of
  the group carried out; and one whose record was removed by an earlier unmute, whose
  own answer arrived late.  `UndoneMuteIsUnseen` says that every
  other mute of a later second is kept.
* `web_client/services.py:3369`: saving a prefix keeps the newest 8 requests and
  drops others that no client has run.
* Each client of a group runs every request, with claims of its own.
* `main.py:21113`: the mirror refuses a member before the server is asked, while
  `qqadmin/stats.py` says "A stale local mirror must not suppress a legitimate
  reward".
* `qqadmin/web_sync.py:3502`: an upload that fails because the file on the server
  is not the retained one is retried for ever, and keeps the bot from pulling;
  `PendingSettles` excepts it.
* `web_client/integration_service.py:4066`: what the game writes between the second
  reading and STOR is lost; `SeenEditsKept` counts from the reading.
* `web_client/app.py:606`: when the snapshot cannot be saved after STOR, or its row
  is locked too long, the member is told of a failure although the reward was
  paid; a second try is refused as already signed.
* `web_client/app.py:3437`: the upload's handler is asynchronous and waits for the
  row inside the event loop, so the portal answers nobody meanwhile.

## 6. Not modelled

The merge of the fields of a projection, tombstones of configurations, retired
clients, the member directory; editing and deleting timed messages, the fields
of a cron expression, clocks that are set back; the requests of groups nobody has
claimed, whose ACK rewrites the configuration, and the steps inside a renaming or
a member refresh; the sign-in rewarded by a WebSocket command (which two
concurrent messages, or a lost answer and a second try, can be paid twice by),
groups with a local SQLite path and no profile, the streak and the amounts; the
forms and pages of the portal; the text commands' parsing; everything listed as
`not_modelled` in `PROJECT.json` with its reason.  Formatting, logging and wording
are left out everywhere.

The modules cover the parts where state is shared between processes and survives
failures.  Most of the remaining lines of the repository render pages, parse
commands, format answers or hold tables, and are one call to QQ or to a game
server each; a model of them would repeat the code.

## 7. Plan

In this order:

1. `TaskRegistry` (background tasks over a hot reload), the loops that
   `TimedDispatch` takes for granted.
2. `GroupFile` (cache, failing reads, read-modify-write) below `ConfigSync`.
3. The console journal: at least once over the exchange that `ConfigSync`
   models, stored once; `PortalActions` for groups nobody has claimed.
4. Tombstones and retired clients in `ConfigSync`.
5. `Lottery`, join requests, `SendGuard`, message cache: invariants of counters
   and bounds, over bounded inputs.
6. The WebSocket client's pending requests; the stages of the self-update.
7. Proofs: the task registry; an action property of the write queue (no release
   without a turn); abstract specifications of a timed message and of a reward.
