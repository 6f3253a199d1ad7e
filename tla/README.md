# A specification of bbs-server

bbs-server is a bulletin board over TCP: users register, log in, upload files
with a description, list them and download them. It is one process with one
thread. Its concurrency is the interleaving of sessions that `pselect`
multiplexes, and of processes that are started in the same directory; its
memory between restarts is a folder of files, a database and a log. Paths below are relative to `src/src/`.

## The system

| component | state | operations | talks to |
|---|---|---|---|
| server loop, `components/server/server.c`, `main.c` | `connections[1024]`, the listening socket, `shutdown_requested` | build the set of descriptors, `pselect`, accept, serve each ready session in order, stop on a signal | sessions by direct call |
| sessions, `components/session/session.c` | per client: `state`, `buf`, `uname`, `uid`, `fd`, `file` | `make_new_session`, `session_do_read`, `perform_session_action`, `close_session` | dispatches to all handlers |
| users, `components/user/user.c` | `uname`, `uid`, `privileges` of the session | `create_user`, `process_user_name`, `login` | database |
| commands, `components/client/client.c` | none of its own | `process_client_command`, `download_confirm` | file protocol |
| file protocol, `components/file_p/file_p.c` | `sess->file` (`path`, `size`, `rest`, `package_rest`, `description`), `sess->fd`, the storage folder, the working directory | `file_receive_prepare`, `file_upload`, `file_upload_description`, `file_send_prepare`, `file_download`, `clear_file_from_sess`, `file_list` | sockets, file system, database |
| database, `db/db_sqlite.c` or `db/db_postgresql.c` | tables `users` and `files` | auth, create user, save file, get file, list files | |
| startup, `main.c`, `components/server/server.c` | the storage folder, the welcome file, the port | `prepare_start`, `get_welcome_mes`, `start_server` | the log, then the loop |
| utilities, `components/utils/utils.c` | the log file and its backup, `file.fd` | `init_log_file`, print | |
| hashes, `libs/murmur3`, `db/db_common.c` | none | name to path, password to digest | |

A session goes `OP_LOGIN_USR` -> (`OP_LOGIN_PSS` ->) `OP_WAIT`, and from there
through an upload (`OP_UPLOAD` -> `OP_UPLOAD_DESCRIPTION` -> `OP_WAIT`) or a
download (`OP_DOWNLOAD` <-> `OP_DOWNLOAD_WAIT_CONFIRM_PACKAGE` -> `OP_WAIT`).
Sessions never call each other. What they share is what makes the server hard:

- **the descriptor table**: sockets and files come from the same numbers, and
  a handler that closes a descriptor and keeps its number, or the reverse,
  meets another session there later;
- **the storage folder**: a path is the hash of a name, so that two uploads, or
  an upload and a published file, meet on a path; every failure unlinks a path;
- **the disk**: its space is looked at once, when an upload starts;
- **the working directory**, which `file_receive_prepare` changes and one of its
  failures does not change back;
- **the tables**, which outlive the process and the transfers in it.

What makes each part correct: a session works on its own file and descriptor,
and only on those (`TransferHasFile`, `DescriptorsOwned`, `PathsOwned`); the
database describes the folder (`RowsIntact`, `RowOwnerIsUploader`) and what it
describes stays (`ImplementsStore`); nothing is lost track of
(`DescriptorsReturned`, `OrphansOnlyWhileDescribing`); and the client is told
the truth (`SavedReplyIsTrue`, `RefusalIsTrue`). What crosses a socket arrives
as it was sent, whichever handler reads it (`BytesInOrder`, `FileArrives`,
`DescriptionIsText`), and is not called stored before it is (`NoShortFile`); a session is its user (`SessionIsItsUser`,
`AccountsDistinct`); nobody starves, and nobody waits for one who waits for him
(`EveryLineServed`, `MessagesAnswered`, `UploadEnds`, `NoClientWaits`); and a server
that is started beside another leaves it its port and its log (`LogIsOwn`, `LastLogKept`, `BackupKept`).

The behaviours that are hard to test are listed with their lines in
`PROJECT.json`, "hazards", each with the properties that cover it or the reason
why none does.

## Modules

| module | what it is |
|---|---|
| `Transfer` | the counting of bytes in `file_upload` and `file_download`: `rest`, `package_rest`, the two writes of a call and the package descriptor between them, in unsigned arithmetic modulo 2^w (`SizeMod`) |
| `Board` | the server at the grain of its handlers: sessions, descriptors, storage folder, disk space, working directory and both tables; one action for each way a handler returns |
| `Store` | what the board promises about published files: they stay, with their owner and their bytes |
| `Lines` | how `query_extract_from_buf_2` cuts a line off the receive buffer |
| `Stream` | one session at the grain of bytes: `session_do_read`, `file_upload` and `file_upload_description` on one stream that TCP cuts anywhere; composes `Lines` and `Transfer` |
| `Users` | `create_user`, `process_user_name` and `login` over either database, in several sessions |
| `Startup` | `main` up to the main loop, call by call, in several processes: the storage folder, the port, the rotation of the log |
| `ServerLoop` | `server_main_loop`: what `pselect` waits for, accepting, the pass over the sessions, transfers that block the loop, signals |
| `FileList` | `file list`: pages, totals and visibility of rows, for a client that pages through a table that grows |
| `MCBoard`, `MCStream`, `MCUsers`, `MCServerLoop`, `MCFileList` | instances for TLC |
| `TransferProofs`, `BoardProofs`, `SessionProofs`, `StreamProofs`, `LoopProofs`, `FileListProofs`, `UsersProofs`, `StartupProofs` | theorems, checked by TLAPS |

### Board and the code

A handler runs to its end before `pselect` is called again, so one call of a
handler is one step. The state corresponds to the code like this:

| Board | code |
|---|---|
| `connections[d]` | `connections[d]` of `server_main_loop`; `"NULL"` is a free slot |
| `.state`, `.uname`, `.uid`, `.fd` | the fields of `session`; `uname` is kept as a name |
| `.file` | `*sess->file`; `NullFile` is the null pointer |
| `open` | the descriptors of the process that are sockets of clients or files |
| `disk[p]`, `free` | the length of the file at `p`, or `Absent`; what the file system has left |
| `cwd` | where `chdir` left the process: `"work"` or `"storage"` |
| `users`, `files` | the tables; the name of user `i` is `users[i]` |
| `torn`, `told`, `by` of a row | history: files with a short write, files reported as saved, who uploaded a row |

The bytes the client sends are abstracted to their number and, where a package
descriptor is read, to any signal and any package size: that covers a
descriptor that was only half received. File names are abstracted to the path
that the hash, with its seed counted up on `EEXIST`, ends in: some path where
there is no file. A download names any row that the join with `users` shows.
Which failures happen (`mkdir`, `open`, `write`, the insertion) is free, as far
as the code and the disk allow.

### Stream and the code

`buf` is the first `buf_used` bytes of `sess->buf`, `wire` what the client has
sent and no `read()` has returned, `state` which of the three handlers reads
next. One step is one turn of the main loop: a read, which may return any part
of what is there, and what the handler does with it. `session_do_read` cuts one
line off and executes it; `file_upload` reads past the buffer of the session
into one of its own, takes packages apart with `UploadStep` of `Transfer` and
writes bytes, now themselves, to `stored`; `file_upload_description` collects
lines until it sees the end marker, and what it saves goes to `saved`.

Bytes are what the code tells apart: newline, carriage return, the two halves
of the end marker (`:END:` is cut down to two bytes), text, an upload command
(one byte), and a package descriptor of two bytes, a signal and a size. Bytes of
a descriptor that were not received, or are no descriptor, say anything, as
memory that is not initialised may. A client is a script: commands, a file with
the packages it sends it in (`packages`; the last one may announce more than it
has), and a text that ends with its marker and a newline. Clients send text outside of files, so the only zero in
the buffer is the terminating one. The zero that a full read puts behind `buf`
and a failed one in front of it land in bytes of `session` that are not read
again, and are left out.

`failures` counts reads and writes that went wrong. A failed read of a line
closes the session (`LineReadFails`). The -1 of a read in `file_upload` is not
looked for (`FileReadFails`): as a `size_t` it is more than `package_rest`, so that
this many bytes of an uninitialised buffer are written (`"?"`) and counted, and a
descriptor is looked for behind them. A write that returns -1 removes the file
(`FileWriteFails`); one that stores a part of its bytes is not noticed, and the
counters move as if it had stored all (`FileWriteShort`).

What a friendly network and disk would do is history: `whole`, every command read
so far was one message; `inStep`, `file_upload` and the description began to read
where file and text begin, and no read of the upload went past the beginning of
the text; `clean`, every package descriptor was read in one piece, with no more
than its package behind it, and no read or write of the upload failed or was
short; `torn`, a write was short; `cut`, a read has ended inside of the marker or a
line end.

### Users and the code

One step is one line of a client. `users` is the table, the id of an account its
position, `db` which of the two files the server was built with.
`PostgresCreates` and `SqliteCreates` are what `db_user_create` may leave of the
table and return, failures included: PostgreSQL asks for name and email and then
inserts, SQLite inserts and leaves the rest to its constraints, and may return
the id of an insertion that it then fails to commit (`lost`). `uid` and
`privileges` start as garbage, as `malloc` leaves them. Lines and words are
apart: a name is stored as `sscanf` finds it and entered as a whole line.

### Startup and the code

Here a step is one system call, since processes interleave between them. `After`
is the order of the calls in `main`; each call has its action with the exits it
may take, and the rotation of `init_log_file` has one for every branch. `log`
and `old` are who wrote the file that has the name of the log and of its backup,
`fd` what `file.fd` is. Every call may also fail for a reason of its own, and a
process may be killed anywhere; `disturbed` records it.

### ServerLoop and the code

`Board` lets any handler of any session run at any time, which is more than the
loop allows and right for safety. `ServerLoop` has the loop itself: `pc` and
`next` are where it is, `readfds` and `listening` what `pselect` has put into
the set, before the pass that uses it. Descriptors are numbers, given out lowest
first, since the pass goes by number and a number closed during the pass may be
given to a file before the pass is over. Handlers are reduced to the states and
descriptors they may leave; `rest` counts blocks, and is only there so that a
transfer comes to an end. An upload has no step while its client does not send,
and a download that has a block to write (`finds`) none while the send buffer of
its client is full: this is how the loop blocks. At the end of the file, and after
`continue 0`, with which the client asks for a package without bytes,
`file_download` returns before it writes, whatever the client does.

### FileList and the code

`uname` is the session's, `limit` and `page` the arguments of the command, `reply`
the numbers of the last line, `shown` the rows that were printed so far. Others
add users and rows between two pages. Names only matter by which one begins
another (`Prefixes`), since `file_list` compares the owner over the length of
the session's own name. The rows of a query are a set of ids, and a row's place
in it is the number of joined rows up to it (`Position`): `ORDER BY`, `LIMIT` and
`OFFSET` are about positions, and so are the proofs.

Queries fail as the code lets them. A step of SQLite that fails ends the rows of a
page early, and the rows read so far pass for all (`ListCutShort`). When a query
fails altogether, 0 is returned and `full_count` is not assigned: the last line is
made of 0 and of what was on the stack (`Garbage`), below whatever rows were read
(`ListUncounted`). `failures` counts such replies; `steady` is history: every page
before the last was full.

## Runs

`MCBoard` is run with small words: a buffer of one or two bytes, packages up to
3 and `SizeMod` 5, so that counters wrap within a few steps. Four descriptors
are two sessions with a file each, which is the least on which sessions can
meet. There is one disk of 2 or 3 bytes and files of up to 2, so that uploads
which fit alone do not fit together. `MCStream` has a buffer of 4 bytes, up to
three commands out of four messages, files of up to 5 bytes in one or two
packages, a package that announces more than the file has, a pause, a
cancellation and a file without bytes, and all texts of 0, 1, 2 and 4 bytes:
enough for a message, a package or a marker to end before, at and behind the end
of the buffer, for two lines in one read and for one line in two. A read or a
write fails, or a write is short, once in a behavior and at any point of it, for
the scripts of `Failing`: the files of three bytes, among them the one whose
package announces more than the file has and the one that is cancelled, commands
that may come in parts of a line, and a text. What follows a failure is the rest of
the same upload, or a session that goes on; none of it depends on the others.
`MCUsers` has
two sessions, two accounts, a name that is a command and one entered with its
newline. `Startup` is run with three processes: one that serves and two that
start beside it, or two rotations that were cut short and a third.

| run | shows |
|---|---|
| `storage` | two sessions, two paths, SQLite: `PathsOwned`, `RowsIntact`, `DescriptorsReturned`, `ImplementsStore`, `TypeOK` |
| `empty` | sizes and packages of 0 with the transfers that end before they start, over PostgreSQL, sessions whose `uid` starts as garbage, insertions that fail: `TransferHasFile`, `DescriptorsOwned`, `OrphansOnlyWhileDescribing`, `RowOwnerIsUploader`, `SavedReplyIsTrue` |
| `sqlite_reply` | a violation: over SQLite `SavedReplyIsTrue` does not hold |
| `stream` | a stream that is cut anywhere, with reads and writes that fail: `BytesInOrder`, `ReadHasRoom`, `NoShortFile`, `TypeOK`; as far as the network is friendly, `LinesAreMessages`, `FileArrives`, `DescriptionIsText`, `DescriptionKept`, `NoClientWaits`, and that something comes of it: `MessagesAnswered`, `UploadEnds`, `DescriptionEnds` |
| `failed` | a violation: `FinishedIsUploaded` |
| `marker` | a violation: `MarkerIsSeen` |
| `served` | three descriptors: `EveryLineServed`, `QuietWhenIdle`, `LinesDoNotWait`, `TypeOK` |
| `paging` | up to four rows in up to five pages of 1 to 3, a user who registers in between, and two replies of which a query fails: `ListedOnce`, `ListedAll`, `CountEndsListing`, `TypeOK` |
| `pages` | a violation: `PagesEndListing` |
| `users` | either database, queries and commits that fail: `AccountsDistinct`, `SessionIsItsUser`, `AcceptedAccountsEnter`, `RefusalIsTrue`, `TypeOK` |
| `privileges` | a violation: `PrivilegesOfAccount` |
| `startup` | starts at the same time or after one another, over whatever was left: `LogIsOwn`, `LastLogKept`, `BackupKept`, `SomeoneServes`, `TypeOK` |

Bounds, all of them constants: `MaxUsers`, `MaxFiles` (rows), `Desc`, `Path`,
`Size`, `PackageSize`, `Capacity`, `SizeMod`, `INBUFSIZE`; `Script`,
`MaxCommands`, `MaxFailures` and `Failing` of `Stream`; `MaxFd`, `MaxPending`, `MaxBacklog` of `ServerLoop`;
`MaxUsers`, `Sd`, `Line` of `Users`; `Process` of `Startup`; `MaxUsers`, `MaxFiles`, `MaxPages`,
`MaxFailures` and `Garbage` (a negative number, 0 and a small one) of `FileList`.
Three descriptors let three sessions meet, or two of which one has a file, and
reach the point where there is none left. Five rows in pages of two are the
least for which a page is missing from the announced number.

A state from which nothing can happen would be reported in `Board`: it has none,
since the process may always be stopped and started, and neither has `Users`,
where a client may always leave. A session of `Stream` ends when it is closed,
the process of `ServerLoop` on a signal, those of `Startup` when all of them
have ended, and a listing when its bounds are reached, so that deadlock is not
looked for there.

There is no fairness in `Board`, `Users` and `FileList`: their properties are
about safety only. `ServerLoop` assumes weak fairness of the loop as a whole: the process
runs when it can, and `pselect` returns when something is ready. Nothing is
assumed of clients, nor of the choice between sessions: that every session gets
its turn is shown. What the code does not promise is in the properties:
`EveryLineServed` exempts a loop that waits in the `read` of `file_upload` or the
`write` of `file_download` for ever, and `QuietWhenIdle` one that spins: a session
that is describing its upload, or that a transfer has left with a descriptor,
has a regular file in the set, which is always ready, and a connection for which
there is no descriptor keeps the listening socket ready. While the loop spins, a
signal is only delivered if the system does so in a `pselect` that does not wait.

`Stream` assumes weak fairness of the read of its session, which
`EveryLineServed` justifies while no transfer keeps the loop waiting; its client
need not send. `Startup` assumes weak fairness of each process that was started,
which the kernel runs until it waits; `SomeoneServes` exempts a missing welcome
file, calls that fail and processes that are killed.

### What the violations say

`db_save_file` of `db/db_sqlite.c` returns -1 when the row was not inserted
(line 304). `perform_session_action` takes any value but 0 as success
(`components/session/session.c:209`), so the branch that reports the error and
removes the file is dead over SQLite: the client reads `is saved!`, and the file
stays in the folder without a row. Over PostgreSQL, where 0 is returned, the
same property holds (run `empty`).

`file_upload_write` compares what `write` returns with -1 only
(`components/file_p/file_p.c:401`), and `file_upload` does not look for the -1 of
`read` (line 422). After a write that stored a part of its bytes, or a read that
failed, `rest` is reduced by bytes that are not in the file; the upload comes to
its end all the same, is logged as "uploaded to the server", and the client is
told `finished`. In the run the write of a file of three bytes stores one of them
(`failed`).

`file_upload_description` looks for `:END:` in the line it has just taken, not
in the description it has collected (`components/file_p/file_p.c:529`). A marker
of which one read ends in the middle is missed, without any fault of the
network when the text has an unlucky length: the session goes on describing,
with the marker in its description (`marker`).

`file_list` announces the number of pages in its last line. It rounds up when
the number of full pages is not a multiple of the page length
(`components/file_p/file_p.c:87`), where the rows left over were meant: of five
files in pages of two the third page is not announced (`pages`). The count in
the same line is right (`CountEndsListing`).

`db_user_auth_cb` reads the privileges from column 6 of a result that has four
(`db/db_sqlite.c:213`), which SQLite answers with 0: who logs in has no
privileges, while who has just registered has the 1 that `user.c:22` calls the
default and the table stores (`privileges`). The right column would not be enough:
`login` applies `atoi` to the address of the byte that holds them
(`components/user/user.c:75`), and the number 1 is no digit, so that `atoi` gives 0
as well. PostgreSQL leaves the digit there. Nothing asks for the privileges yet.

Some properties are stated with the exceptions the code makes necessary:

- `RowOwnerIsUploader` exempts anonymous uploads. `process_user_name` does not
  assign `uid`, so an anonymous upload is stored under whatever `malloc` left
  there, or not shown at all by the join.
  It is checked and proved over PostgreSQL only: over SQLite a registration
  whose commit was lost (`db_sqlite.c:169`) gives an id without a row.
- `RowsIntact` exempts files one of whose writes was short. `file_upload` only
  looks for -1, so on a full disk a row may announce more bytes than its file
  has; `file_send_prepare` then reports the file as damaged and forgets the
  descriptor it has just opened, which `DescriptorsReturned` exempts too.
- `LinesAreMessages` and `MessagesAnswered` are about clients that wait for each
  answer and messages of one line that arrive whole. Otherwise a line may be
  half a message or, when two messages without a newline arrive together, two
  of them, and the second of two lines in one read waits for the next read;
  `BytesInOrder` is what is left.
- `FileArrives` is about files that begin behind their command, whose package
  descriptors come in one piece, and of which no read or write fails or is short
  (`inStep`, `clean`). `file_upload` does
  not look into the buffer of the session, so bytes that came with the command
  are taken for the description; a descriptor in two reads is read from memory
  that was not received; what follows the end of a package in the same read,
  beyond one descriptor and its package, is counted for it; and a pause in the
  middle of a read leaves `package_rest` to be counted twice. What remains in all
  of these cases is `NoShortFile`, which only exempts short writes: a file is not
  finished before as many bytes were written as it has, be they the right ones or
  not; and, for uploads in step, `BytesInOrder`. What a read brings past the
  beginning of the text is dropped with the buffer of `file_upload`, and is exempt
  from `FileArrives` and `BytesInOrder` (`inStep`).
- `UploadEnds` exempts files without bytes, for which `file_upload` waits for a
  byte all the same, and those that the client cancels.
- `DescriptionIsText` is about texts of which no read cuts the marker or its
  newline. Six bytes are cut off for a marker of five: when the newline comes
  in the next read, the last byte of the text is lost, and of an empty text the
  marker itself stays (`DescriptionKept`).
- `ReadHasRoom` holds because `query_extract_from_buf` empties the buffer when it
  holds no newline, and takes a line out of it otherwise. The branch of
  `session_do_read` that refuses a line which fills the buffer ("Line too long!",
  `components/session/session.c:85`) is therefore never taken, and a long line is
  executed in pieces.
- `ListedAll` is about listings during which no query failed. A query that fails is
  taken for one without rows, or without further rows (`db/db_sqlite.c:169`; 508;
  `db/db_postgresql.c:379`), and `file_list` answers like for an empty or a short
  page, with a total that may never have been assigned: the client cannot tell such
  a page from the last one. `CountEndsListing` also holds
  when queries fail, for a client that does not believe a count of 0 and goes on
  from full pages only.
- `SessionIsItsUser` and `AcceptedAccountsEnter` exempt runs in which SQLite has
  returned an id and then failed to commit: the account is gone, the session
  goes on with the id of the next one. `AcceptedAccountsEnter` also exempts
  accounts whose name is a command (`exit`, `anonymous`, or anything that begins
  with `register`): they can be registered and not be entered.
- `LogIsOwn`, `LastLogKept` and `BackupKept` exempt a process that has closed its
  listening socket: when the backup cannot be opened for another reason than
  that it exists, `init_log_file` closes a descriptor it never opened, which may
  be any. The port is free then, and a second server rotates the log of the
  first. Nothing else of what may fail in a rotation loses a log.
- `ListedOnce` exempts a registration between two pages that gives an owner to
  rows an anonymous session had stored under its id: they appear in the middle
  of the list and shift what follows.

## Proofs

`TransferProofs` proves about one call of `file_upload`, for all counters of
the width of `size_t`, that what was written and what is left of `rest` add up
to what `rest` was, perhaps plus 2^w (`UploadStepCounts`), and that a download
asks for no more than is left of the file (`DownloadLenBounds`).

`BoardProofs` proves for any number of descriptors, sessions, paths and sizes
and for both databases:

| theorem | property |
|---|---|
| `TypeCorrect` | `TypeOK` |
| `FileOfEveryTransfer` | `TransferHasFile` |
| `OwnerOfEveryPath` | `PathsOwned` |
| `SizeOfEveryRow` | `RowsIntact` |
| `Refinement` | `ImplementsStore` |

They all follow from one inductive invariant, `IInv` of `Board`, which the runs
`storage` and `empty` were used to find. It is needed because none of the
properties is inductive by itself: that `disk[p]` is a number when a session
writes to `p` depends on no other session having unlinked `p`, which depends on
paths being stored by one session only (`StoresApart`), which depends on
`O_EXCL`. That the size of a row is the size of its file depends on an account
kept during the upload: bytes on disk plus `rest` is the announced size, or the
announced size plus 2^w after `rest` has wrapped (`Accounted`). The wrap itself
is possible in the code, but an upload cannot end there: 2^w more bytes would
have to fit on the disk, which is the assumption `Capacity < SizeMod` (a file
system holds less than 2^64 bytes). The refinement follows because every unlink
and every write is to a path that `SessionInv` keeps apart from `Published`.

`SessionProofs`, which extends it, proves the other properties of `Board`:

- `DescriptorsOwned` (`OwnerOfEveryDescriptor`), which is
  inductive given the types, because a handler keeps the descriptor of its
  session, closes it, or takes one that `open()` has just given; and, assuming
  `Postgres`, `RowOwnerIsUploader` (`OwnerOfEveryRow`) and `SavedReplyIsTrue`
  (`SavedIsInTable`). The first of the two needs that a session behind the login
  has the id of its name (`ActsAsItself`).
- `DescriptorsReturned` (`NoDescriptorLost`). The strengthening is
  that only a transfer has a descriptor (`IdleSession`), that rows have bytes,
  and that either nothing was lost or a row in the table refers to a file that
  was written short (`Damaged`): the history `torn` may forget a path whose
  upload was aborted, but not one that is published.
  And `OrphansOnlyWhileDescribing` (`OrphansOnlyFromDescribing`), from
  `DescriptorsOwned` (nobody closes the socket of a session that uploads) and
  `EmptyFirst`: an upload without bytes left in `OP_UPLOAD` never had any.

Assumptions: `TransferAssumption` (a package descriptor fits in the buffer, the
buffer in a `size_t`) and `BoardAssumption` (the null values are not values, the
disk is smaller than 2^w). TLC evaluates both in every run.

`StreamProofs` proves for all scripts of a client, any size of the buffer and
any way the network cuts the stream:

| theorem | property |
|---|---|
| `TypeCorrect` | `TypeOK` |
| `AlwaysRoom` | `ReadHasRoom` |
| `NoByteLost` | `BytesInOrder` |
| `MessagesExecuted` | `LinesAreMessages` |
| `FileStored` | `FileArrives` |
| `NoFileShort` | `NoShortFile` |
| `DescriptionSaved` | `DescriptionIsText` |
| `DescriptionNotLost` | `DescriptionKept` |
| `NoWaiting` | `NoClientWaits` |

The invariant of the bytes, `StreamInv`, adds to the first three that an upload
which began in step finds the session's buffer empty: `file_upload` reads past
it. Each of the three readers moves a front part of what waits, one byte at
least (`TakenBounds`, `CollectedBounds`, `BytesMove`), so that the buffer has
room again behind it. The others need to know where in the stream a handler is:

- `LinesInv`: as long as messages came whole, the stream is the first
  `Len(lines)` messages and what is on the wire.
- `FileInv`: an upload is at a `Place(i, y)`: `i` packages have begun, `y` bytes
  of the last one are to come, so many bytes of the stream are taken, and
  `stored` is the file but for `y` bytes and the packages behind. `rest` is what
  is left of the file, and `package_rest` is `y`, except in the last package,
  which may have announced more. A read in one piece moves from one place to
  another (`FileReadStep`): within a package (`StepWithin`), to the end of the
  file (`StepLast`), over a descriptor into the next package (`StepNext`), or to
  a pause or a cancellation (`StepOther`).
- `ShortInv`: while nothing was torn, the bytes that were written and `rest` are
  together the size of the file, or more once `rest` has wrapped. It needs none of
  the history of a friendly network, only the arithmetic of `UploadStep`.
- `TellInv`: after `c` bytes of the text the description is the `Unix` form of
  those `c` bytes, which may be taken part by part if no `\r\n` is between two
  parts (`UnixConcat`), or is the `c` bytes themselves, if there is no `\r\n`
  (`UnixSame`). The only marker is at the end, so that a read which does not
  bring it is collected whole, and one that does brings the last byte or the
  last but one (`CollectedAll`); what the last six bytes then are is `ToldSaved`.
- `ToCome`: who stores has bytes of the file to come, and who describes has three
  bytes of the text to come, or the marker has been cut. With them `NoWaiting`
  is what is left of the liveness of `Stream` when the fairness is taken away: a
  session that has read everything has done everything.

What was sent is `FlattenSeq` of the messages, and a file `FlattenSeq` of its
packages: a recursive function of the community modules. What it does with one
more element (`FlattenNext`), two sequences (`FlatConcat`) or a part of one
(`FlatPart`) is proved with the least index where something could differ
(`UpTo`), which takes the place of an induction theorem. It rests on
`StreamAssumption` (what a script is; a descriptor has two bytes, and a file and
a package fit in a `size_t`) and `TransferAssumption`.

`LoopProofs` proves for any number of descriptors, sizes and clients that
`ServerLoop` keeps `TypeOK` (`TypeCorrect`) and `LinesDoNotWait` (`NoLineWaits`).
Its invariant follows what pselect found through the pass (`ReadyHasInput`): only
the session itself takes its input, and no descriptor pselect has seen is given
to a new connection before the next pselect, since `accept()` comes before all
handlers, while everything that was found is still open (`ReadyOpen`, from
`FilesOwned`). It rests on `ServerLoopAssumption` (the bounds are numbers).

`FileListProofs` proves for tables and pages of any length, any users and any
uploads and registrations between two pages, with queries that fail, `TypeOK`
(`TypeCorrect`), `ListedOnce` (`NoFileTwice`), `ListedAll` (`NoFileMissed`) and
`CountEndsListing` (`CountTells`). Positions of rows only grow (`PosGrows`): a row
that was there for the client when it began and is not behind a page was on one of
those before (`Passed`), since it cannot come from behind a page to one before it.
A page that was cut short passes over rows, so that `BegunPassed` says which pages
do not: the last one while no query has failed; the one before it as long as all
before were full (`steady`); and the last one too if it is full itself. Whatever
fails, what a page shows has its place on that page while no registration reveals
rows (`PagesInPlace`). What may be told of a page, failed or not, is one predicate
(`PageRead`, `ListCases`). That a page which is not full is the last one is counted
with finite sets: as long as there are rows behind it, the positions of a page are
`limit` consecutive numbers (`PageLength`). It rests on `FileListAssumption`
(pages have a length, as a limit of 0 ends the process; ids are numbers).

`UsersProofs` proves for any number of sessions, accounts and names, over both
databases, `TypeOK` (`TypeCorrect`), `AccountsDistinct` (`DistinctAccounts`),
`SessionIsItsUser` (`UserOfSession`), `AcceptedAccountsEnter` (`AcceptedEnter`)
and `RefusalIsTrue` (`TrueRefusal`). Its `IInv` is their conjunction, where
`AcceptedAccountsEnter` is strengthened to accounts with any name. All rests on
`CreatedOutcome`: a row is added only when name and email are free, and a
positive result is the id of the row that was, or would have been, added.

`StartupProofs` proves for any number of processes `TypeOK`, which says that one
at most listens (`TypeCorrect`), `LogIsOwn` (`LogOfServer`), `LastLogKept`
(`LastLog`) and `BackupKept` (`BackupOfServer`). The argument of its `IInv` is
that the port is the lock of the log: whoever is at a step of the rotation
listens (`PortFirst`), and one listens at most, so that nobody else serves or
rotates; and the last log is the log, or the backup while there is none
(`LastKept`).

Assumptions: `UsersAssumption` (ids and garbage are integers) and
`StartupAssumption` (the process before is none of those that are started).

So every safety property of the passing runs is proved. Only model-checked are
the liveness of `Stream` (`MessagesAnswered`, `UploadEnds`, `DescriptionEnds`), of
`Startup` (`SomeoneServes`) and of `ServerLoop` (`EveryLineServed`,
`QuietWhenIdle`), and what the violations refute. Liveness, `ENABLED` and what
recursive definitions compute for every input, other than by the argument of a
least index, are outside of what the installed provers handle.

## Plan

In this order; every module takes its parameters as constants with a named
assumption, has one action for each operation, and uses no `RECURSIVE` operator
if it is to be proved about.

1. `Transfer`, `Board`, `Store` with their runs and proofs: done.
2. `Lines`, `Stream` with their runs, and `StreamProofs`: done.
3. `ServerLoop` with its run: done.
4. `FileList` with its runs and `FileListProofs`: done.
5. `Users` with its runs and proofs: done.
6. `Startup` with its run and proofs: done.
7. `SessionProofs`, `LoopProofs`: every property of `Board` and the safety of
   `ServerLoop` are proved: done.
8. Left to prove: what is safety in the liveness of `ServerLoop` and `Startup`,
   as `NoWaiting` is for `Stream`: that the loop blocks only when nobody can be
   served, and that a process only gives up for a reason.

## Not modelled

- The hash functions (`libs/murmur3`, `db/db_common.c`): pure functions of bytes;
  their results are any free path, and right or wrong.
- What is behind `file search`: the command answers that an argument is missing,
  or gives `sscanf` a null pointer for the value, which ends the process
  (`Restart`).
- The list of rows that `file_list` keeps in the session and never frees: no
  handler reads it.
- `last_login`, the wording of replies and log lines, the SQL engines behind the
  tables, the tests and build files.
- A server whose database does not open: `main` does not look at the result of
  `init_db_connection`, and what the first query does with it is the library's.
- `connections` is indexed by descriptors without a look at its bound
  (`components/session/session.c:37`); `Board` and `ServerLoop` stop opening
  there, as with a limit of `MAX_CONNECTIONS` on descriptors.
