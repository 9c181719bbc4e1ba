# wMail in TLA+

A verification project for wMail, the webmail of this repository: SqWebMail and
the Courier libraries of 2003 with local changes. It holds TLA+ modules
translated from the C source, TLC configurations that check them on small
instances, and theorems about them checked by TLAPS.

Everything below refers to the code under `src/src/`; `maildir.c` without a
directory is `sqwebmail/maildir.c`.

## 1. The system and its parts

wMail has no server process of its own for mail. Every HTTP request starts a
CGI process (`sqwebmail`), which works on the user's maildir with `open`,
`link`, `rename`, `unlink` and `stat`, answers, and ends. Deliveries are
processes too (`deliverquota`). Nothing takes a lock on a maildir: correctness
rests on the order of the system calls, on which of them are atomic, and on
timestamps in whole seconds. Around this core there are three daemons
(authentication, calendar, and its login cache), and libraries for locks, MIME,
character sets and cryptography.

| Part | State it keeps | Operations | Talks to |
|------|----------------|------------|----------|
| Maildir quota (`maildir/maildirquota.c`, `deliverquota.c`) | the file `maildirsize`: a quota line and one line per change | open and sum, check, recount all directories and replace, append a line, set the quota | every part that stores or removes a message |
| Folders (`maildir.c`, `folder.c`, `sqconfig.c`) | names of messages in `new` and `cur`, their flags; a file that caches the counts of a folder | fetch new mail, count, move, delete, mark, empty, purge at login | quota, folder index |
| Folder index (`maildir.c`) | a database `sqwebmail-curcache`: names, subjects, dates by position | build, find current, read, update a record | folders |
| Sending (`newmsg*.c`, `attachments.c`, `token.c`) | drafts, a token of the last submission, the copy in Sent | create and edit a draft, attach, send, retry | folders, quota, `sendit.sh` |
| Sessions (`sqwebmail.c`, `auth.c`) | `IPFILE` (address, token), `TIMESTAMP` | log in, validate, time out, log out | login cache, authentication |
| Login cache (`maildir/maildircache.c`) | one file per user and interval | save by a child process, search, purge | sessions |
| Calendar store (`pcp/pcpdir.c`) | events, an index, a dot lock | book, cancel, delete, clean up; lock, break a stale lock | calendar daemon |
| Calendar daemon and client (`pcp/pcpd.c`, `pcpnet.c`, `sqwebmail/pcp.c`) | connections, proxies, tokens | a line protocol | calendar store |
| Locks (`liblock/`) | dot locks, lock files, pid files | lock and unlock a mailbox; start, stop, restart a daemon | mail programs, daemons |
| Authentication daemon (`authlib/authdaemond.c`) | a pool of children on one socket | answer, reload, stop | authentication modules |
| Shared folders (`maildir/maildirshared.c`) | links of a subscriber into a sharable maildir | subscribe, synchronise, unlink | folders |
| Filters, autoresponses (`maildir/maildirfilter*.c`, `autoresponse.c`) | a list of rules, texts | edit and write back | webmail pages |
| Creating, renaming, deleting folders (`maildir/maildirrename.c`, ...) | directories | mkdir, rename, remove | folders |
| Libraries (`rfc2045`, `rfc822`, `unicode`, `gpglib`, `cgi`, `http11`, `md5`, ...) | none that is shared | parsing, conversion, digests | everything |

Vendored or generated and left aside: the `configure` scripts, `pcp/intl`, the
tables of `unicode`, `Mail_Mime` of the PHP administration pages, the install
scripts under `dist`.

### Which behaviours are hard, and what makes each part correct

* **Quota.** Several processes read, check and append at once, and one of them
  may be recounting the directories and about to replace the file under the
  others. Correct means: while nobody fails and nobody changes a directory that
  is being recounted, the file and the lines on their way add up to what is
  stored; a recount that was accepted is exact; concurrent deliveries exceed
  the quota by no more than one message each; nobody is refused on the word of
  an old file; the file stays short; every operation ends.
* **Folders.** Requests come from pages of any age, cross each other, and are
  killed by the web server. Correct means: no message that nobody asked to
  remove disappears; a request that does not clash with another leaves one
  name, in one folder, with the right quota; cached counts that pass for
  current are right; a marked name is purged the next time the folder is
  opened; the purge at login takes only what was long enough in Trash.
* **Folder index.** An index is valid by its time alone, is kept open over a
  request, and is updated by position. Correct means: an index that passes for
  current lists the folder, and an update hits the record it was meant for.
* **Sending.** The browser may post twice, `sendit.sh` may fail or the process
  die half way. Correct means: one submission is sent at most once unless it
  failed, and the quota of drafts and Sent is settled exactly once.
* **Sessions.** One `IPFILE` per user. Correct means: a session is accepted
  only within its timeouts and until another login replaces it.
* **Locks, calendar.** Stale locks are broken by whoever finds them. Correct
  means: two processes never hold the lock at once; booked events never
  overlap.
* **Authentication daemon.** Signals arrive at any time. Correct means: after
  every reload or crash of a child the pool is complete again, and a stop is
  never lost.

`PROJECT.json` lists these hazards at the line where each of them bites, with
the properties that cover it, or why none does yet.
The mailbox locks break stale locks as the calendar does (`liblock/mail.c:323`);
they are not modelled and not in that list.

## 2. Modules and plan

| Module | What it is | State |
|--------|-----------|-------|
| `MaildirQuota` | the protocol around `maildirsize` | done |
| `MCMaildirQuota` | instances of it for TLC | done |
| `MaildirQuota_proofs` | types, accepted recounts are exact, the ledger, refusals, the length of the file, by how much a quota is exceeded | done |
| `MaildirFolder` | the life of a message in the folders, the count cache | done |
| `MCMaildirFolder` | instances of it for TLC | done |
| `MaildirFolder_proofs` | types, no message is lost, moves are exact, purges are due, settled counts are exact | done |
| `Mutex` | abstract: a lock that one process holds | done |
| `DotLock`, `MCDotLock` | the calendar's lock; implements `Mutex` as long as nobody unlinks the lock of a live process | done |
| `DotLock_proofs` | types, the implementation, exclusion on one host | done |
| `Calendar` | abstract: a set of lines that every operation changes in one step | done |
| `CalendarStore`, `MCCalendarStore` | the calendar's operations on top of `Mutex`; implements `Calendar` | done |
| `AuthDaemon`, `MCAuthDaemon` | the authentication daemon, the commands that start and stop it, its clients | done |
| `CalendarStore_proofs` | types, lines have files, what is committed stays, nobody overlaps unasked, the implementation | done |
| `AuthDaemon_proofs` | types, the names lead to the daemon, a stop waits, answers are genuine, the pool is whole, a restart is in force, a start is honest | done |
| `WebSession`, `MCWebSession` | login, pages, logout, login cache | done |
| `WebSession_proofs` | types, logouts are final, sessions last, the cache outlives the cookie | done |
| `Submission`, `MCSubmission` | drafts, attachments, sending, the token of a page | done |
| `Submission_proofs` | types, a page is sent once, nothing stored is lost, Sent and the quota tell what happened | done |
| `FolderIndex`, `MCFolderIndex` | the index of a folder and the pages that go by it | done |
| `FolderIndex_proofs` | types, an index that looks current is right, the page of a message shows what it names, the page of a folder is fresh | done |
| `MailLock` | the mailbox locks of liblock; would implement `Mutex` too | not begun |
| `SharedFolder` | copying moves, synchronisation of links | not begun |

`MaildirFolder` uses of the quota only the sum of the lines of each message.
`MaildirQuota` is about how such a line gets into the file; there a move or a
removal is one step, here it is several. The two meet in the lines of
`do_msgmove` that both model.

`CalendarStore` takes and releases its lock with the actions of `Mutex`, and
`DotLock` shows how far the code keeps that promise. Together they say: as long
as no lock of a live process is unlinked, the calendar's properties hold. What it
promises upwards is `Calendar`: lock, copies, renames and unlinks are gone there, and
what is left is what a caller of `pcpdir.c` may count on.

`Submission` leaves open what the quota answers, and `MaildirQuota` says what it
answers; the draft and the copy in Sent are two of the messages whose lines
`MaildirQuota` follows (`save`, `forced`, `pipe`).

`FolderIndex` is the other half of `MaildirFolder`: there the names are everything and
the index nothing, here a message has one name at a time and what counts is
which record of which file a request goes by.

`AuthDaemon` is asked by `WebSession`'s logins; the web mail sees of it only
"granted", "refused" or "try later".

Order in which the rest would be taken up: `MailLock`, `SharedFolder`. Liveness
stays with TLC.

## 3. MaildirQuota

### State and actions

A maildir has the counted folders `Folders`, each with `new` and `cur`. `at[m]`
says in which of them message `m` is (in two of them for a moment, while it is
moved by a link). `mtime` is the `st_mtime` of a directory. A file keeps its
identity (`Inodes`) when another is renamed over it, so `link` (the name
`maildirsize`) and the descriptors in `info` are separate. Sums are kept per
message (`Accounts`), not as totals, so that an error in one message cannot
hide one in another; `WithinQuota` adds the sizes up.

| Action | Code |
|--------|------|
| `Start` | which operation a process begins: `deliver` (store, then append), `pipe` (append, then store: the pipe of `deliverquota`, a message brought back from Trash, a saved message), `save` and its fallback `forced` (a draft: over quota it is charged with `maildir_quota_deleted` and a positive size), `warn`, `delete`, `move`, `recalculate`, `set` |
| `Open`, `OpenFails` | `maildir_openquotafile`: read, sum and keep the descriptor; too long a file asks for a recount |
| `Admit`, `Refuse`, `Recount` | the three outcomes of `docheckquota` before it counts |
| `StatDirectory`, `ReadDirectory` | `countcurnew`, one directory after the other, time first, then names |
| `Install`, `InstallFails` | the new file is renamed to `maildirsize` |
| `Restat`, `Accept`, `Outdated`, `Raced` | `statcurnew`, and the verdict: accepted, over quota, or disturbed (`EAGAIN`, at most `MaxTries` times, then "just punt") |
| `Record`, `RecordFails` | `maildir_addquota` through the descriptor |
| `Link`, `Remove`, `LinkDest` and their failures | the message itself |
| `CheckNew`, `SetFlag` | readers that rename a message within a folder |
| `Tick`, `Crash` | the clock; a process is killed |

Reading one directory is one step. A message belongs to one process at a time
(its temporary name is unique); what two sessions do to the same message is the
subject of `MaildirFolder`. The history variable `clean` holds as long as no
fault occurred and no process changed what another was recounting.

### Properties

* `Ledger` - while `clean`, the lines of `maildirsize`, plus the lines on their
  way, are what is stored, message by message.
* `QuietRecountIsExact` - a recount that was accepted, and whose directories had
  all last changed before it began, has the numbers of what was stored. The
  premise is needed: times are whole seconds and the code compares only the
  latest of all directories, so a change in the same second goes unnoticed.
* `RefusalRestsOnRecentCount` - who is told "over quota" is told so by a recount,
  its own or one less than `Recheck` old, and not by an old sum.
* `BoundedOvershoot` - deliveries that check at the same time exceed the quota
  by no more than one message for every process but one. That is meant for a
  quota that is in force from the start and stays what it is, and for operations
  that respect it: the instance has only such, and the theorem is about
  `SteadySpec`, which says so of every step.
* `FileStaysShort` - without faults the file never gets longer than the limit and
  one line for each process. With faults that would be wrong: a delete appends
  its line also when its recount could not be installed, so that a maildir in
  which renames keep failing has a file that grows.
* `OperationsEnd` - under fairness every operation of a process that is not
  killed ends.

## 4. MaildirFolder

### State and actions

A name is a record of message, folder, subdirectory and flags; `entries` is the
set of names that exist. All names of a message are links to one inode, which
makes `rename` of one of them to another do nothing (POSIX), a case the code
runs into. `mtime` and `ctime` are the times of `cur` and of the inode. `counts`
is the file `sqwebmail-curcnt` of a folder with its time. The flag R is treated
as S: it never matters to a move.

| Action | Code |
|--------|------|
| `StartList` | a page that calls `maildir_count`: `maildir_checknew`, then `dodirscan` |
| `StartDelete`, `StartMove` | `folder_delmsgs` or `folder_delmsg`: names from a page of any age (`shown`), `do_msgmove` for each, then `maildir_checknew` |
| `StartRead` | `folder_showmsg`: `maildir_markflag` |
| `StartEmpty`, `StartLogin` | `maildir_deleteall`, `maildir_autopurge` |
| `Pickup`, `ToCur`, `StatCur`, `SkipPurge`, `ScanMarked`, `Purge`, `Purged` | `maildir_checknew`, one system call at a time |
| `CountStat`, `UseCache`, `Tally`, `TruncateCache`, `WriteCache`, `RereadCache`, `Restat`, `ResetCache` | `dodirscan` |
| `Find`, `Account`, `LinkDest`, `Mark` | `maildir_find`, `do_msgmove` |
| `Gather`, `Wipe`, `Age`, `ExpireName` | `rmdirtmp`, `maildir_autopurge` |
| `Deliver`, `Tick`, `Crash` | the rest of the world |

`link` fails when the old name is gone or the new one exists; then a request to
move stops (`group_movedel`), a request to delete goes on (`groupdel` returns 0).
A selection never holds two names of one message. The page offers neither the
folder itself nor an unknown one as destination.

`expunged` collects the messages that were to be removed for good: deleted in
Trash, emptied, or found old at login. `calm` holds as long as no request was
killed and every request that changes messages ran alone (apart from pages that
only count) on a page that showed what was there.

### Properties

* `NoLoss` - a message that nobody asked to remove for good keeps a name without
  T, whatever crosses it and wherever requests are killed.
* `MoveIsExact` - while `calm`, between requests, a message has one live name and
  its lines add up to whether that folder counts.
* `SettledCountIsExact` - cached counts that are newer than the directory, and
  whose scan began after the second of its last change, are what a scan would
  find. The premise is needed: a change in the second in which the count began
  goes unnoticed. It holds of `RecheckedSpec`, in which requests are killed anywhere
  but between `write_sqconfig` and `change_timestamp`: one killed there leaves
  doubtful counts behind that look current. The file is empty for a moment
  (`TruncateCache`): another session that has just written its counts may find
  nothing and end with an error (`maildir.c:1508`), or set back the time of the
  empty file.
* `PurgeIsDue` - what the purge at login unlinks has been in Trash longer than
  `Expire`.
* `SkipIsSafe` - when the purge is skipped there is nothing to purge; that is
  so for one session, and wrong for two.

The run `folder_skip` is expected to violate what the code's comment says:
`SkipIsSafe` with two sessions.

A message that is taken out of a folder and back before the purge cannot be
marked again: its old marked name still exists and is a link to the same inode,
so `rename` does nothing and succeeds (`maildir.c:947`), and the message stays live
in both folders. `NoLoss` covers such states; `MoveIsExact` leaves them out through
`calm`.

Spam can be emptied too and, unlike Trash, counts; `maildir_deleteall` adds no
line for what it unlinks, so the sum of a message may stay above zero after it
is gone. No property covers that; the next recount repairs it.

## 5. The calendar

`pcp/pcpdir.c` keeps a calendar as a directory: a file for each event, and a file
`index` with a line for each that says when it takes place and whether it is only
booked, cancelled, or about to be replaced. Daemon, command line and webmail open
the same directory, so every change is made under the lock `.lock`.

### DotLock

| Action | Code |
|--------|------|
| `Acquire` | `acquire_dotlock` writes a file with its pid and host, whose time (`tmp`) is later that of the lock |
| `Look`, `Break` | `kill_stale_lock`: read `.lock`, ask for its owner with `kill(pid, 0)`; unlink it if the owner of this host is gone |
| `Retry` | count the looks at the same lock; the third one unlinks it, unless its owner is known to live: then give up |
| `LinkLock` | `link` the file to `.lock` |
| `Release`, `Check`, `Drop` | `release_dotlock`: read `.lock`, unlink it if it is still one's own |
| `Die` | a kill; `.lock` stays |

To look and to unlink are two steps, as in the code. The history variable
`intact` becomes false when a lock is unlinked whose owner lives. That happens
in two ways: the owner is on another host, or the lock that was found stale has
been broken by a third process and replaced by a fresh one before the unlink.

* `ImplementsMutex` - the dot lock implements `Mutex`, where the holders are the
  live processes for which `acquire_dotlock` has returned, while `intact`, and
  nobody afterwards.
* `Exclusive` - on one host, while nobody has been killed, no two processes hold
  the lock at once: the processes that wait never unlink it.

### CalendarStore

A line is a record; `pendel` is the field `d`, the update that has claimed the
event. `handle[p]` is the `PCPdir_new_eventid` of a process, `job[p]` the
operation for which it has the lock: arguments, the lines of `.index.tmp`, and
where it is.

| Action | Code |
|--------|------|
| `StartNew`, `StartSave` | `pcp_new_eventid`, `pcp_book` and `pcp_commit`, with or without `PCP_OK_CONFLICT` |
| `StartChange`, `StartCleanup`, `StartDestroy` | `pcp_cancel`, `pcp_uncancel`, `pcp_delete`; `pcp_cleanup`; `pcp_destroy_eventid` of a booked event |
| `Rewrite`, `GiveUp` | the loop over the lines, with its refusals and files that cannot be opened or written |
| `Sweep`, `SweepFails`, `InstallBroken`, `Scan` | `cleanup` |
| `NameFile`, `Install`, `UnlinkOld`, `RenameFails` | the two renames and the unlink that end an operation |
| `Tick`, `Kill` | time passes; a process is killed |

The loop over the index is one step, since it has the lock; each rename and
unlink is one of its own, since a process may be killed between them and readers
take no lock. The lock is obtained in the step that starts the operation:
nothing is read before. Creating the temporary file of an event touches nothing
that others see and is part of its first attempt. What a process leaves behind
in `.index.tmp` is not kept: the next one empties that file. Whether a booking
is older than an hour is left open.

* `NoDoubleBooking` - two events at the same time: someone gave `PCP_OK_CONFLICT`
  to put one of them over another (`overridden`; to have given it where nothing
  was in the way excuses nothing later), or one is the booking that is to replace
  the other. `missed` excepts what
  `uncancelevent` lets through, see below. The point of the property is the long
  way round: a booking is checked once, and may be replaced, deleted or expired
  by others before its owner comes back to commit it.
* `LinesHaveFiles` - at every step, the line of an event that is not just booked
  has its file.
* `CommittedStays` - what was committed keeps its line and file until it is
  deleted, replaced, or past. It holds while no `cleanup` meets a failing write:
  `cleanup` puts `.index.tmp` in place even then.

The lines that an operation leaves out are taken away by `Select`, which keeps
the order of the others. It is a recursive function and not the operator
`SelectSeq`, so that its properties can be proved.

* `ImplementsCalendar` - `CalendarStore` implements `Calendar` with the set of the lines
  of the index for `lines`. An operation takes place in one step, the rename of
  the index (`Install`), or not at all: no kill and no failed write or rename
  leaves half of it, and its effect is right for the lines as they are then,
  although they were read and the answer to the caller was found some steps
  earlier. `Calendar` also says what the other properties leave out: a booking is refused
  while another one has claimed the event that it is to replace; a commit of a
  booking takes away the event it was booked for and no other; a replacement
  of a cancelled event is cancelled; reviving changes nothing but the mark;
  `overridden` grows only with the event that was put over others; a cleanup
  takes away only bookings and what has expired, and one that
  fails to write only loses lines (`Lose`), though any of them.

When the `.index.tmp` of `cleanup` cannot even be opened, what an earlier
operation left in that file is renamed over the index (`pcpdir.c:1548-1628`).
That is left out: afterwards the calendar is what it was at some time, deleted
events are back and committed ones gone, and no property could be kept.

`uncancelevent` calls the check for conflicts for every line of the index and
remembers only the answer for the last one. The bookings that it lets through
are in the history variable `missed`, which `NoDoubleBooking` excepts.

## 6. AuthDaemon

`authlib/authdaemond.c` answers logins and changes of passwords from a pool of
children that share one socket; `liblock/lockdaemon.c` starts, stops and
restarts it. The daemon tells its children to go by closing the write end of a
pipe that they all read. One handler serves SIGHUP and SIGCHLD: it closes that
end if `sighup_pipe` holds it, and does nothing otherwise; the main loop then
finds the pipe at its end, reads the configuration, waits for its children and
starts new ones.

A command makes at most one daemon, so a daemon has the number of its command.
`daemon[d].pipe` says whether the write end is open, `daemon[d].hup` whether
`sighup_pipe` holds it. A request has a client's and a server's side; `hits` and
`noes` count the modules that granted and refused it.

| Action | Code |
|--------|------|
| `Run`, `StartFork`, `StartRead` | `ll_daemon_start`: fork twice, wait for the byte |
| `TryLock`, `Release`, `StopSignal`, `StopWait`, `RestartSignal` | `stop1`, `ll_daemon_stop`, `ll_daemon_restart`: try the lock; signal whoever the pid file names, SIGTERM first, SIGKILL afterwards, while another process waits for the lock |
| `DaemonLock` | the grandchild takes the lock, or pretends success |
| `DaemonInit`, `DaemonBind`, `DaemonAnnounce`, `DaemonPublish`, `DaemonSignal`, `DaemonNull`, `DaemonArm` | `readconfig`, `mksocket`, the pid file emptied and written, the byte, `/dev/null`, `sighup_pipe`; the daemon ends when the pid file cannot be opened or written (it stays empty, or has the pid), and when `/dev/null` cannot be opened |
| `DaemonSpawn`, `DaemonWake`, `DaemonReread`, `DaemonReap`, `DaemonCheck` | the loop: `startchildren`, the end of the pipe, `readconfig` again, `killchildren`, `sigterm_received` |
| `ChildAccept`, `ChildQuit`, `ChildCrash` | a child takes a connection, ends with the pipe, or dies |
| `ServeAuth`, `ServePasswd`, `ServeReply`, `Hangup` | the modules in turn; the answer is written in two parts |
| `ClientConnect`, `ClientRead` | `authdaemondo`, `authdaemondopasswd`: what a client makes of the bytes it has at the end of the connection or of its patience |
| `Edit` | someone edits `authdaemonrc` |

* `PoolIsWhole` - a daemon in its loop, able to hear signals, has every child its
  configuration asks for, and none of an older configuration.
* `DaemonIsReachable` - from the byte for "start" to its end, the pid file and the
  socket lead to the daemon.
* `StopMeansStopped` - a "stop" that met a daemon ends after that daemon.
* `StartIsHonest` - a "start" that ran beside no other command (`alone`) and reports
  success leaves a daemon. Beside a stop or a restart, whose test takes the lock
  for a moment, it may report success with no daemon. The byte is written before
  `/dev/null` is opened, so a start is not `alone` either when that fails.
* `HeardRestartIsInForce` - a restart whose SIGHUP was heard (`heard`) is in force
  once the daemon has settled, unless an unreadable file came between. A SIGHUP
  while `sighup_pipe` is -1 does nothing: between the end of one pool and the
  start of the next the signal is lost, and the daemon keeps the configuration
  it read before.
* `AnswersAreGenuine` - a client takes a login for granted only if a module granted
  it, for refused only if every module refused it, a password for changed only
  if it was changed, once; half an answer is none.
* `CommandsEnd`, `PoolComesBack` - under fairness every command ends, and after the
  last command, edit and crash a daemon has a whole pool and hears signals, or
  it is gone and its children are.

`MCInit` begins a step or two after `Init`, in one of two scenarios: three
commands and two edits to come and no client waiting, or two commands to come
and a client. Both are reached from `Init` by ordinary steps; the instance that
mixes them is too large.

## 7. WebSession

A session is two files of the maildir. `IPFILE` holds address and token, its
mtime starts the hard timeout; the mtime of `TIMESTAMP` starts the soft one.
`write_sqconfig` truncates with `fopen(f, "w")` and writes later, and
`read_sqconfig` takes an empty file for none. A login that finds a live session
of its address joins it instead of replacing it.

| Action | Code |
|--------|------|
| `Start`, `CheckIp`, `CheckStamp`, `Refuse` | `main2`: a page or a logout is let in, or is told that it has expired |
| `TruncStamp`, `WriteStamp` | `write_sqconfig(TIMESTAMP)` |
| `Logout` | `unlink(IPFILE)` and the cookie "NO" |
| `StartLogin`, `LoginReadsIp`, `LoginReadsStamp`, `NewToken` | a login: join the session or make a token |
| `TruncIp`, `WriteIp` | `write_sqconfig(IPFILE)`; the descriptor may have lost its name |
| `SaveCache`, `Answer` | `maildir_cache_save`; the cookies |
| `Purge` | `cleancache.pl`, `maildir_cache_purge` |
| `Tick`, `Crash` | the clock; a process is killed or cannot write |

* `LogoutIsFinal` - a token that a logout took out of `IPFILE` never returns to it
  and opens nothing, whatever is under way. `ended` has the tokens, except those
  that a login had read before the unlink and is about to write again
  (`Carried`). A logout that was refused ends nothing: the code answers
  "already logged out" (`sqwebmail.c:2351`).
* `SessionLasts` - a session ends only for a reason: `lost` collects the pairs of
  token and address that have one: a logout, a timeout seen by a login, a login
  from another address, a file that was found empty while another process was
  writing it, a kill that left it empty. Everything else, such as pages and
  logins beside it, does not end a session; a file that is empty for a moment is
  about to be filled again. A login replaces the session it finds in `IPFILE`
  when it finds `TIMESTAMP` too old, and that may be another session than the one
  it had read there and meant to share: a third process may have written its own
  in between and been killed before it wrote the time. `Outlived` counts both as
  ended. That case takes three processes and four tokens, more than the run
  has; it came up when the invariant for the proof was tried on larger instances.
* `CookieFindsCache` - the cache entry of a login survives until its hard timeout,
  across the purges of old intervals.

An entry that cannot be written, and the `read` and `fstat` of `IPFILE` as two
steps, are left out: the time of the file may then be later than what was read,
which makes a session last longer by what lies between them.

## 8. Submission

Writing a message. Requests save a draft, send, or add and remove attachments;
each page has a token, and `TOKENFILE` has the last one that was used. Requests
of a page overlap when the user clicks twice, and are killed.

| Action | Code |
|--------|------|
| `NewPage` | `newmsg_init`, `attachments.html`: a page, blank or about a draft, with a new token |
| `Start`, `Check` | a request; `tokencheck` |
| `Open`, `Write`, `Close` and their failures | `maildir_recreatemsg`, the text or the attachments, `maildir_closemsg`; a draft is rewritten under its name in `tmp` |
| `Copy`, `CopyRefused` | `newmsg_createsentmsg`: the copy in Sent, or over quota |
| `Fork`, `Deliver`, `Purge` | `sendit.sh` with the copy as its input; a failure takes the copy back |
| `Drop`, `SaveToken`, `Unfile` | the draft goes, the token is saved, an unwanted copy goes |
| `Crash` | a kill; a child that is sending goes on |

The quota line, the rename and the unlink at the end of `maildir_closemsg` are
one step, and so is writing `TOKENFILE`, which has one line. That the quota has
room is a choice. `stat` at `newmsg.c:938` is given a name without a directory
and always fails, so that only `maildir_msgpurgefile` takes the line of an unwanted copy
back; if it succeeded, the line would be taken back twice.

* `RepeatIsRecognised` - a page is sent once. `excused` has the pages for which the
  code cannot know: requests of the page that overlap (`newmsg.c:733` compares the token
  long before it is saved), a request that was killed between
  `sendit.sh` and the token, and pages before the last one, since `TOKENFILE`
  has room for one token.
* `NothingLost` - a stored version of a draft is in Drafts, or a later one is,
  until it was sent, wherever requests fail or are killed, as long as requests
  of one page or draft do not overlap (`calm`): two that overlap share the file
  in `tmp`, and may mix their texts.
* `SubmissionLedger` - when all is done and nobody was killed (`unharmed`), the lines
  in `maildirsize` are the sizes of what is in Drafts and Sent, on every path of
  failure.
* `SentTellsWhatWasSent` - unless somebody was killed, Sent has a copy of what was
  sent and was to be kept, and of nothing else, also when requests overlap.

## 9. FolderIndex

The messages of a folder are read once; their names and headers are kept,
sorted, in a database, and pages name a message by its position there. Each
request opens the index by its name and keeps it open to the end. GDBM lets one
writer or several readers open a file and refuses the others at once. A request
that finds the index missing, outdated, in another order than it prefers, or busy
makes a new file and renames it to the index.

`idx[i]` is what file `i` holds (`SAVETIME`, `SORT`, the records, the keys from a
message to its record), `named` the file that has the name, `held[r]` the file a
request has open. A file without a name lives on with whoever holds it.

| Action | Code |
|--------|------|
| `StartFolder`, `StartRead`, `StartFetch`, `StartDelete`, `StartDraft` | a page of the folder, a message, a part of one, the delete buttons of both pages, the preview of a draft and the removal of an attachment; positions and names come from pages of any age (`pages`) |
| `ReloadOpen`, `ReloadStat` | `maildir_reload` |
| `SaveStart`, `ReadName`, `SaveEnd` | `createmdcache`: the time of a file made now, the names one after the other, until there are no more or one cannot be read; sort and rename |
| `Check` | `maildir_getfoldermsgs`, `chkcache` |
| `Remove`, `Lookup` | `maildir_remcache`, `maildir_name2pos` |
| `Page`, `Read` | `folder_contents`, `folder_initnextprev` with `maildir_read` |
| `Find`, `Show`, `Mark`, `Rename`, `Update` | `maildir_posfind`, `folder_showmsg`, `maildir_markflag`, `update_foldermsgs` |
| `Locate`, `Unflagged` | `maildir_msgdeletefile`, `maildir_msgmovefile` and their failures |
| `Purge`, `Purged`, `Redirect` | `maildir_checknew`, the end of `folder_delmsg` |
| `Arrive`, `Tick`, `Kill` | the rest of the world |

Reading the directory is nondeterministic the way `readdir` is: a name that is
there all along is returned, one that comes or goes meanwhile may be or not. When
`opendir`, `readdir` or the opening of a message fails, the code goes on with the
names it has, and the index is not `Complete`.

* `CurrentIndexIsRight` - an index newer than the directory lists it: each name
  once, in order, with the reverse keys to match. The exceptions (`wrong`): an
  index that is not `Complete`, which looks current all the same; and a
  request that marks a message by the position on an old page, which writes its
  record over that of another message (`maildir.c:591`).
* `PageIsFresh` - a page of the folder lists what was there during the whole
  request and nothing that was never there meanwhile. The exceptions (`excuse`):
  the index was `wrong`; the request found it busy; or another request was
  already reading the directory. In the last two `maildir_reload` goes straight on to `chkcache`, which does
  not look at times, or a file made from older names is renamed over a newer one.
* `ShowsWhatItNames` - the message that a page displays, and marks as read, is the
  one whose name its buttons carry, however often the index is replaced
  meanwhile. It rests on the request's keeping its file open: opening the index
  anew each time breaks it. The exception: `folder_initnextprev` takes
  the name first and sorts the folder anew afterwards if the preferred order has
  changed, so that the page shows another message than its buttons delete.
  Previews of drafts look their name up in the index, and are excepted too when
  it was busy, `wrong`, or being made when they began.

Seen while modelling, and not claimed by any property: with two requests that
prefer different orders each can replace the index of the other without end
(`maildir.c:2079`); a page that finds the index busy has no record, and
`folder_initnextprev` dereferences a null pointer (`folder.c:704`), which the model
takes for the end of the request; `folder_delmsg` purges at once and then goes to
the next position, so that the message after the deleted one is passed over
(`folder.c:1086`).

`MCInit` begins after one request has shown the folder, with one message or two,
perhaps in another order than the one preferred now.

## 10. Runs and bounds

| Run | Instance | Asks |
|-----|----------|------|
| `quota_account` | 2 processes, 2 messages of different size, 2 folders (4 directories), all operations but `deliver` and `recalculate`, 2 seconds, all faults, 2 operations | `TypeOK`, `Ledger`, `QuietRecountIsExact`, `RefusalRestsOnRecentCount` |
| `quota_limit` | 2 processes, 2 seconds, no faults, 3 operations, files of one line; either 3 messages with room for one and `deliver`, `delete`, `recalculate`, or drafts saved while flags change; fairness | `BoundedOvershoot`, `FileStaysShort`, `OperationsEnd` |
| `folder_safe` | 2 sessions, 1 message, all operations (list, read, delete, move, empty, login), 3 seconds, `Expire` 1, kills except where section 4 says, 3 requests | `TypeOK`, `NoLoss`, `MoveIsExact`, `SettledCountIsExact`, `PurgeIsDue` |
| `folder_skip` | the smallest instance that shows it | the divergence |
| `index_pages` | 2 requests, 2 messages, 3 files, all pages, kills, 2 seconds, 2 more requests after the first page | all of section 9 |
| `lock_alone` | 3 processes on 1 or 2 hosts, kills, 2 tries, 2 lock times | `Exclusive`, `ImplementsMutex` |
| `calendar_safe` | 2 processes, 3 events in 2 slots of time, all operations, kills, failures, 4 operations | `TypeOK`, `NoDoubleBooking`, `LinesHaveFiles`, `CommittedStays` |
| `calendar_atomic` | the same with 3 operations | `ImplementsCalendar` |
| `authd_serve` | 3 commands, 2 edits (the first is unreadable), pools of 1 and 2, 2 modules, a crash, a client; fairness | all of section 6 |
| `session_lasts` | 2 processes, 2 browsers at 1 or 2 addresses, 2 tokens, soft timeout 0, hard timeout 1, 3 seconds, 4 requests | all of section 7 |
| `submission_safe` | 2 processes, 3 requests of 2 pages, failures of every step, kills | all of section 8 |

Bounds. `MaxOps` limits the operations or requests started in a behaviour,
`MaxTime` the clock, `MaxLines` the lines that fit into the 5120 bytes,
`MaxTries` is 5 in the code and 2 here, `Recheck` is 15 minutes in the code and
1 tick here, `Expire` is counted in ticks instead of days. The number of
`Inodes` bounds the `maildirsize` files that exist at a time; one that is no
longer open or linked is used again. Two processes suffice for every
interleaving that the properties speak of: what one does between two steps of
the other. Two operations let a recount meet a change, and `quota_limit` has three, for
two deliveries that a deletion or a recount crosses. Three requests to the
folders let a message be deleted and met by a purge and by another move. Two seconds give a time in and one after a change,
three also one before it. Three processes let one find a lock stale that a
second replaces by the third's; `MaxTries` is 3 in the code. Three events are
one that is replaced, its replacement and a rival, four operations a booking
that is lost, a rival, and the commit; three let two
updates be booked for one event, or one be booked and committed. Slots of time either coincide or not; a
recurring event, with several slots, is typed but not in the instances. Three
commands are a start, a stop or restart, and another that crosses it; two edits
are a bad configuration and a good one after it; two modules tell a refusal by
all from a refusal by one. Four requests to the web mail are two logins, a
logout and a page that is under way; timeouts of 0 and 1 let one run out before
the other. Three requests to a folder are the first page, and two that come from it and
meet each other; two files are the index of each, the third the one that both
replace. Three submissions are a draft, its sending, and a repetition. Sizes of texts are powers
of ten so that no two sums agree by accident. Behaviours end when the operations are used up, so deadlock is
not checked.

Fairness. `quota_limit` assumes weak fairness of the steps of each process: a
process that is not killed keeps running. `authd_serve` assumes it of each
command, each daemon, and the children of each daemon; the last includes that a
module answers in the end. Nobody must give a command, edit, connect, crash or
deliver, and the clock need not tick. The scheduler of the operating system
gives at least this.

## 11. Proofs

Every theorem holds for every value of the constants that the named assumptions
admit, so for any number of processes, requests, messages, pages and files, and with
kills and failures unless it says otherwise. Each invariant was checked by TLC on
the instance of its run, and some on larger ones, before it was proved.

### MaildirQuota

* `TypeCorrect` - `Spec => []TypeOK`.
* `QuietRecountTheorem` - `Spec => []QuietRecountIsExact`. By itself this does not
  follow from the step before: the invariant `RecountInv` says, at every point
  of a recount, that a directory which has been read and has not changed since
  its time was taken holds what was counted in it, and that a directory which
  the second look has passed changed either not at all or at a time that the
  verdict will see.
* `LedgerTheorem` - `Spec => []Ledger`. `LedgerInv` has three parts, and the last two
  hold while `clean`. `OpsInv`: which operation may be at which step with which
  message, and no two processes have the same one. `Held`: the lines of a
  message in hand and what its operation has yet to write or take away come to
  what is stored of it, step by step (`Pending`). `Current` and `Counted`: a
  descriptor leads to the file that has the name, and who counts is alone and
  has seen what is there of the directories behind it; hence the file it installs
  balances. The properties of one message are kept by a step of the one process
  that has it in hand (`BalancedByOne`).
* `RefusalTheorem` - `Spec => []RefusalRestsOnRecentCount`. `YoungInv` says that a file
  of one line has the time at which it was made, in whichever inode it is, and
  that a process which has read one line still knows that time. Appending makes a
  second line at once, which is what lets the code tell the two times apart.
* `ShortTheorem` - `NormalSpec => []FileStaysShort`, where `NormalSpec` is the system
  without faults (with them the property is wrong, see section 3). `ShortInv`
  counts those who may still append to a file: its lines and its `Holders`
  together are at most `MaxLines` and the number of processes. An append adds a
  line and takes away a holder; only a file that is still short gets a new one.
* `OvershootTheorem` - `SteadySpec => []BoundedOvershoot`. `OverInv` adds to
  `LedgerInv`, while `clean`, two sums over the processes. `Books`: the bytes that
  the file counts and those by which the maildir is ahead of it (`Ahead`, negative
  for a message whose line is written and which is not linked yet) are the
  bytes that are stored. `Promised`: the bytes that the file counts and those that
  a process may still add, because its check has succeeded, or has taken off
  for a message that is still there (`Out`), stay within the quota and `Largest`
  for every process but one. The check is the delicate step: who passes it knows
  that the file and its own message fit, and nobody else has promised himself
  more than one message. `QuotaKnown` says that whoever compares a total with
  a quota compares it with the one in force. What is stored exceeds neither sum,
  hence the property. A recount replaces the file by one with the same bytes,
  which is `Ledger` for the file that it installs.

### MaildirFolder

* `FolderTypeCorrect` - `Spec => []TypeOK`, with `WrittenOK` (who has written the
  counts finds them) and `FoundOK` (who works on a name has one).
* `NoLossTheorem` - `Spec => []NoLoss`. `NoLoss` is not inductive: two requests
  that each mark a name could mark the last two. The invariant `EnoughNames`
  says that a message has more live names than there are requests about to mark
  one after linking another. A request joins them only through a `link` that
  has made a new name, since `link` fails on one that exists; it leaves them with
  its mark, which takes at most one name; `rename` keeps the number; a purge
  unlinks only names that were marked when it read the directory, and a marked
  name never becomes live. `Control` holds the facts about single requests that
  this uses. If `link` replaced an existing name the lemma `LinkNoLoss` would
  fail, as does the model checker's run.
* `MoveTheorem` - `Spec => []MoveIsExact`. `ExactInv` says that while `calm` one
  request at most changes messages (`Alone`); that the names it still has to work
  on stand as its page showed them, one for each message (`Prepared`); and that
  every message is `Settled`, with one live name and the line for that folder,
  except the one whose line has been written and whose names are being changed,
  which is `HalfMoved`. Requests that only look rename names from `new` and purge
  marked ones meanwhile; neither touches the live name of a message in `cur`.
* `PurgeTheorem` - `Spec => PurgeIsDue`, an action property. The code looks at the
  ctime of the inode, which any `link` or `rename` by others changes. `DueInv`: a
  message was linked into Trash no later than that ctime, and the ctime is not
  in the future; so a stale ctime can only delay the purge.
* `CountTheorem` - `RecheckedSpec => []SettledCountIsExact`. `CountInv` allows what the
  code allows: counts on disk may look current and be wrong, but then there is a
  request that has yet to look at the directory again and will find it changed,
  and take them back (`TakesBack`). That request must not be killed there, which
  is why the theorem is about `RecheckedSpec`; kills at all other steps are in it.

### DotLock

* `LockTypeCorrect` - `LockSpec => []LockTypeOK`, with `SeenOK`; no run checks it.
* `DotLockImplementsMutex` - `LockSpec => ImplementsMutex`. The invariant
  `HolderInv` says that while `intact`, `.lock` is that of every holder, so there
  is one at most; who unlinks without holding the lock then either takes it from
  the dead, when there is no holder, or ends `intact`.
* `ExclusiveTheorem` - `LockSpec => []Exclusive`, from `SoloInv`: where all owners
  live on one host, nobody ever finds a lock stale.

### CalendarStore

* `TypeCorrect` - `Spec => []TypeOK`, which contains that no index has two lines for
  one event. That needs `TypeInv`: one process has the lock (`Lone`), an event
  that is not booked has no line (`HandleOK`), and what was written to
  `.index.tmp` is what would be written now (`JobOK`), since between the two
  renames nobody else may change the index.
* `FilesTheorem` and `CommittedTheorem` - `Spec => []LinesHaveFiles` and
  `Spec => []CommittedStays`, both from `KeptInv`. `BookingOK`: the line of a booking is
  there unaltered, or gone, until its process has committed it; `StepOK`: the
  rename of the index comes after the file that it names, what is unlinked is in
  no line and was promised to nobody, and a `cleanup` keeps the lines that are
  still wanted.
* `BookingTheorem` - `Spec => []NoDoubleBooking`. `ApartInv` adds the property to
  `KeptInv`, which is what makes it inductive: when a booking is committed the
  event it replaces loses its line in the same rename, and what was left out of
  the check when it was booked is exactly that event.

* `CalendarTheorem` - `Spec => ImplementsCalendar`. `KeptInv` is again all that it needs. By
  `JobOK` the index that is put in place is what would be written from the one
  it replaces, so every operation acts on the present lines (`BookedLines`,
  `CommittedLines`, `InstallAtomic`). `HandleOK` and `BookingOK` give the guards: an
  event that is not booked has no line, a booked one has the line of its booking
  and its `origin`. `StepOK` gives that of `CleanUp`. All other steps leave the set
  of lines alone.

What these need of `Select` (that it returns a subsequence, which lines it keeps,
that no line comes twice) is proved in the module too, see below.

### AuthDaemon

* `ReachableTheorem` - `Spec => []DaemonIsReachable`, and `StopTheorem` -
  `Spec => []StopMeansStopped`. Neither property is inductive; `CoreInv` is:
  `LockTells` says that the lock belongs to exactly the daemon that runs, or to
  the command that found none; `NamesTell` that socket and pid file are those
  of the daemon that has got so far; `CommandsKnow` what a command at each step
  knows of the daemon it met. Who writes a name has the lock, so nobody else can.
* `DaemonTypeCorrect` - `Spec => []TypeOK`, and `AnswersTheorem` -
  `Spec => []AnswersAreGenuine`, from `ServeInv`: `Tells` ties what has been written
  to the connection to how far the modules were asked. That `noes` stays within
  the number of modules needs it too.
* `PoolTheorem` - `Spec => []PoolIsWhole`, from `PoolInv`: while the pipe is armed no
  end of a child is overlooked, and all children of a round have the
  configuration of the daemon. The one handler for two signals makes this
  delicate: it does nothing while the pipe is not armed.
* `RestartTheorem` - `Spec => []HeardRestartIsInForce`. `ForceInv` says of a restart
  that was heard that the daemon has read the file since, or is at a step from
  which it must read it before it is settled (`UpToDate`).
* `StartTheorem` - `Spec => StartIsHonest`, an action property of starts that ran
  alone. `AloneInv` says that a command has the lock only until it releases it,
  that a daemon which was told to end has a command that still waits for it,
  and that the byte which a start waits for was sent by, or for, a daemon that
  has published its names.

### WebSession

* `SessionTypeCorrect` - `Spec => []TypeOK`; no run checks it.
* `LogoutTheorem` - `Spec => []LogoutIsFinal`. The invariant `TokenInv` says what
  token each process holds at each step, that a process whose descriptor has the
  name `IPFILE` is a login, and that no login under way holds an ended token.
* `SessionTheorem` - `Spec => []SessionLasts`. `LastInv` orders the tokens that are in
  `IPFILE`, in the hands of a login or in a cookie: only the newest may be that of a
  session that is not `lost` (`Newest`). What a browser or an answering login
  claims is named by `IPFILE` and has its `TIMESTAMP`, or these are just being
  filled (`Claims`).
* `CacheTheorem` - `Spec => []CookieFindsCache`, from `CacheInv`, with the
  arithmetic of intervals: an entry that is younger than the timeout is in the current
  interval or the one before.

### Submission

* `SubmissionTypeCorrect` - `Spec => []TypeOK`.
* `RepeatTheorem` - `Spec => []RepeatIsRecognised`. The invariant `TokenInv` says
  that a page which is not excused has one request at most, and that once it is
  sent either that request is on its way to save the token, or the token is
  saved.
* `NothingLostTheorem` - `Spec => []NothingLost`. `BookInv`: no two names lead to one
  file, and the file of a draft in tmp is not yet that of a stored one.
  `DraftInv`: a request that is alone with its draft finds in tmp what it wrote;
  the copy in Sent is what was stored, until `sendit.sh` has it; and what was stored of
  every draft is there, or was sent (`Kept`).
* `SentTheorem` - `Spec => []SentTellsWhatWasSent`. `SentInv` goes through a request:
  before it copies there is no copy (`Early`), then there is one and no entry of
  the log (`Midway`), then both, until the copy that was not wanted is removed
  (`Taken`); and what `Settled` says holds once it has ended.
* `LedgerTheorem` - `Spec => []SubmissionLedger`. The invariant `Balance` says at every
  step that maildirsize is the sum of the weights of the drafts and of the
  copies. That the sum of a function which differs from another at one argument
  differs by as much is a lemma of the module.

### FolderIndex

These are all that its run checks.

* `IndexTypeCorrect` - `Spec => []TypeOK`, with `Control` (who shows the folder has
  an index, who displays or renames a message has its name).
* `CurrentIndexTheorem` - `Spec => []CurrentIndexIsRight`. The invariant says it
  of every file, not only of the named one (`AllRight`); that no time is in
  the future (`Clock`); that a message has one name (`OneName`), so that a name
  that belongs where `update_foldermsgs` writes it is there already; and that a
  directory which has not changed since the second before a scan is the one
  that is read (`Scanned`). Any change of the directory makes the last two and
  all files void, since its time is then at least every `SAVETIME`.
* `ShowsTheorem` - `Spec => []ShowsWhatItNames`. The invariant says that two
  requests which have one file open both read it (`Exclusive`), that reverse keys
  lead to records of their message (`AllLead`), and that a request which displays a message
  has its file to itself from the record it read to the record it writes (`Reader`).
* `FreshTheorem` - `Spec => []PageIsFresh`. The invariant `Sure` says that whoever
  is reading the directory while a page waits has read, or will read, all that
  was there since the page was asked for, and nothing that was not; hence so
  does any index that is saved meanwhile. An index that passes the look at the clock is right by
  `AllRight`; a record written into it by others replaces a name that is gone.

### Assumptions, and what is left

Assumptions of the theorems are the named `ASSUME`s of the modules: finite sets
of processes, sessions and messages (some process at least), positive sizes and a positive hard
timeout, `None` no member of the sets it is used beside, Trash another folder
than the inbox, natural bounds.

Sums and `Select` are recursive over data, and the installed provers cannot
instantiate the induction rules of the library, which take a predicate as an
operator. The few facts that the theorems need of them are proved by a least
counterexample instead: the set of the sizes at which the fact fails is a set of
natural numbers, so if it is not empty it has a least member (`WFMin` of
`WellFoundedInduction`), and there the recursive equation contradicts it. For
sums this is done in `Submission_proofs` and in `MaildirQuota_proofs`, for
`Select` in `CalendarStore_proofs`.

Only model-checked are:

* `OperationsEnd`, `CommandsEnd` and `PoolComesBack`: liveness under fairness is
  outside what the prover can do.
* `SkipIsSafe`, which TLC refutes.

## 12. What is not modelled

* Within `MaildirQuota`: the `quotawarn` stamp that limits warnings to one a day,
  the percentage for the page, NFS retries. `,S=` is taken to be the size; that
  a name without one is measured with `stat` is left out.
* Within `MaildirFolder`: shared folders, whose messages are copied; names without
  a size; a directory that cannot be read to its end, which makes counts too
  small and spares names from a purge; `maildir_getnew`'s retries; files other than messages.
* Within the calendar: a line that a full disk cuts in the middle, an `.index.tmp`
  that cannot be opened (`cleanup` would then install an old one), the removal of
  temporary files after 36 hours, participants, and the file `changed`. What
  happens after the lock of a live process was unlinked is outside `CalendarStore`.
* Within `AuthDaemon`: failures of `fork` and `pipe`, which are retried for ever, the
  idle calls of the modules, names and values of an answer, a pid that another
  program has been given.
* Within `WebSession`: failed logins, changes of the password, preferences, how the
  login cache reaches another user's maildir.
* Within `Submission`: marking the original as answered, spelling, encryption, how a
  message is put together.
* Within `FolderIndex`: orders by sender and subject, counts of new messages,
  messages of equal dates, new mail that is in `new` only, searches, links to other folders and shared
  folders, a database that is damaged by a kill while it is written.
* Components with status `not_modelled` in `PROJECT.json`, each with its reason:
  those of the plan in section 2, and those that are parsers, converters,
  presentation or sequential queries without state that several processes share.
