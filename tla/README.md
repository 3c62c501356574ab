# Blue X-ray Eraser: TLA+ specifications, model checking and proofs

Blue X-ray Eraser deletes files on Gooroom desktops and collects a log of what
was deleted in a database. This directory holds a formal model of the parts of
it that keep state, move events or run concurrently; what TLC checks on small
instances of that model; and what TLAPS proves for every instance.

Paths in this text are relative to the repository. Line numbers are those of
the commit the model was made from; `PROJECT.json` gives, for every definition,
the lines it stands for.

## 1. The system

    desktop                       server                        database
    -------                       ------                        --------
    bxr_eraser (GTK)              bxr_server ---- INSERT -----> tb_log_event_law
      | Client_Log (SQLite)         ^                               |
      | D-Bus message               | nng req/rep over TCP          | SELECT
      v                             |                               v
    Gooroom server ---- bus ---> bxr_tracer                     bxr_parser
                                                                    | INSERT, UPDATE
                                                                    v
                                                           tb_log_event_detail

| component | state it keeps | operations | talks to |
|---|---|---|---|
| eraser client, `2.client/src/bxr_eraser.c` | the local log `Client_Log`, its copy `dBl[]` with the counter `colcnt`, `chk_method`, `auth_result`, `auth_cnt`, the files it erases | clicks on 3pass, 7pass, temp, trim, the log viewer, clear, quit; authentication; report | SQLite, the Gooroom server, the file system |
| event tracer, `1.server/src/bxr_tracer/bxr_tracer.c` | one REQ socket per event while it is handled | `bus_recv_handler`, `BXR_NNG_REQ` | the Gooroom bus (library), bxr_server |
| nng request/reply sockets, `1.server/src/thirdparty/nng-1.5.2` | send queue, retry timer, dialers; held requests, connections | send, resend, redial, hold, reply, drop | tracer and server |
| log server, `1.server/src/bxr_server/bxr_server.c` | the request being worked on, the database connections it leaks | receive, `Log_DBMS_Insert`, reply | tracer, MySQL |
| raw log, `tb_log_event_law` | rows in state `N` or `C`, dated, with a retry counter | INSERT by the server, UPDATE by the parser | server, parser |
| log parser, `1.server/src/bxr_parser/bxr_parser.c` | one connection, a result set read in one go, the row being worked on | SELECT, then per row INSERT and UPDATE | MySQL |
| file overwriting, `func_file_eraser` | the blocks of the disk | truncate, overwrite, rename, remove | the file system |
| client processes, `func_chk_psname` | which clients run | count the lines of `ps`, go on or refuse | `/proc`, other clients |
| log viewer | `dBl[]`, `colcnt`, the rows shown | read, push, clear, fill the rows | SQLite, GTK |
| daemons, `bxr_utils.c` and the start and stop scripts | which processes run, the addresses they read | look, start, kill; `BXR_LoadConf`, `BXR_Daemonize` | process list, configuration file |
| nng: asynchronous operations, `core/aio.c`, `core/taskq.c` | an operation, its deadline, its task | begin, schedule, finish, abort, stop, expire | everything in nng |
| nng: req0 and rep0, `sp/protocol/reqrep0` | requests, contexts, queues, pipes | send, receive, cancel, close, repeat | pipes |
| nng: sockets, endpoints, pipes, `core/socket.c` and others | references, lists, the reaper's queue | dial, listen, add a pipe, close, reap | transport, protocol |
| nng: TCP, `sp/transport/tcp/tcp.c` | endpoints with their handshakes, a message in each direction of a pipe | accept, connect, negotiate, match; send, receive, close | connections |
| nng: sockets of the system, `platform/posix` | descriptors, the poller's batch | arm, poll, call back, close, free | epoll |
| nng: identifiers, `core/idhash.c` | a hash table | set, get, remove, allocate | sockets, requests |
| json-c | objects, the reader of texts | add, delete; parse | tracer, parser |
| iniparser | the dictionary of a file | set, get, unset | `bxr_utils.c` |

What is hard about it:

* The parser closes a raw row in two statements that are committed one by one.
  A kill, a dropped connection, a failed statement or a second parser can come
  between them, and the batch it works off was read before either.
* One malformed row ends the parser, and nothing restarts it. The next run
  starts with the same row.
* nng sends an unanswered request again, on the same or a new connection, also
  to a server that has been restarted. Nothing in the program recognises a
  request it has seen before.
* The server leaks a database connection for every event the database refuses,
  and its fault is paid for by the events that come later.
* The client has one thread, but its handlers call `gtk_main_iteration()` in
  loops, so every click starts another handler on top of the running one. All
  share the same globals.
* A failed authentication calls itself, and during it, too, events are handled.
* `func_file_eraser` truncates before it overwrites, and always at offset 0.
* The scripts look at the process list and act on it later; clients that start
  beside each other count each other while `ps` is still reading.
* nng does everything in callbacks on threads of its own. An operation can be
  completed, aborted, stopped and expired at once; sockets, endpoints, pipes and
  connections are freed by a reaper that has to wait for all of them, and what a
  callback submits after a stop never calls back.

What makes each part correct:

* **parser**: no row is closed that was not copied; copies in excess of one are
  paid for by disturbances; a row is closed in the end unless something it
  depends on stops the parser first; a row that cannot be parsed is given up.
* **server and tracer**: an event that was acknowledged is stored; rows in
  excess of one are paid for by transmissions; an event that was handed over is
  answered; what is reported as a success has been stored.
* **all of it together**: an acknowledged event is never lost between the two
  tables, and reaches the detail table.
* **client**: the counter, the memory and the table of the local log agree; a
  file is not destroyed without an entry; `complete` means gone; every start has
  one end; the program can be closed.
* **file overwriting**: nobody reads old data from the file, and none is left.
* **processes**: one client of a desktop runs, not none; what the scripts report
  stopped has stopped; a start comes back.
* **nng**: every operation ends and calls back once; no request or reply goes to
  the wrong place, twice, or is forgotten; a dialer goes on dialling; nothing is
  freed while it is used, and everything is freed in the end.
* **tables and texts**: a hash table is the map it stands for; a JSON text is
  read as what it says.

`PROJECT.json` lists under `hazards` the lines where each of these could go
wrong and the properties that watch them.

## 2. The modules and how they correspond to the code

| module | models | composed with |
|---|---|---|
| `EventLog` | abstract: what raw log and detail table promise | - |
| `LogParser` | `bxr_parser.c`, its start and stop scripts, the two tables | refines `EventLog` |
| `LogParserProofs` | theorems about `LogParser` | extends it |
| `LogDelivery` | `bxr_tracer.c`, `bxr_server.c`, and of nng what they rely on | - |
| `LogDeliveryProofs` | theorems about `LogDelivery` | extends `LogDelivery` |
| `LogPipeline` | tracer, server and parser together | instances of `LogDelivery` and `LogParser` that share the raw log |
| `LogPipelineProofs` | theorems about `LogPipeline`, `Daemons` and `ClientInstances` | extends the first and `ProcessState`; instances of the proof modules of both halves and of the other two |
| `LocalLog` | the state of the client's handlers, and what is promised about their globals and the local log | extended by `EraserClient` and `MCClient` |
| `EraserClient` | `bxr_eraser.c` without the overwriting | keeps what `LocalLog` promises |
| `FileState` | a file and the blocks of its disk, and what is promised about its erasing | extended by `FileEraser` and `EraserClientProofs` |
| `FileEraser` | the overwriting in `func_file_eraser` | what `EraserClient` calls `chunk`; keeps what `FileState` promises |
| `EraserClientProofs` | theorems about `EraserClient` and `FileEraser` | extends the first, an instance of the second |
| `ProcessState` | the clients of one desktop and the processes of the server's host, and what is promised about how many run | extended by `ClientInstances`, `Daemons` and `LogPipelineProofs` |
| `ClientInstances` | `func_chk_psname`: how many clients run | what decides before `EraserClient`'s `Launch`; keeps what `ProcessState` promises |
| `LogViewer` | array, table and rows of the local log | the data `EraserClient` counts |
| `Daemons` | scripts, configuration and start of server and parser | what starts `LogParser` and the server of `LogDelivery`; keeps what `ProcessState` promises |
| `AioState` | the state of the aios on one expiration queue, and what is promised about them | extended by `NniAio` and `NngState` |
| `NniAio` | `core/aio.c`, `core/taskq.c` | the operations all of nng's models use; keeps what `AioState` promises |
| `NniAioProofs` | theorems about `NniAio` and `PollQueue` | extends the first, an instance of the second |
| `ReqRep` | the state of a socket that requests and of one that replies, and what is promised about them | extended by `ReqSocket`, `RepSocket` and `NngState` |
| `ReqSocket` | `req.c` | the requesting end, which `LogDelivery` has in small; keeps what `ReqRep` promises |
| `RepSocket` | `rep.c` | the replying end, which `LogDelivery` has in small; keeps what `ReqRep` promises |
| `ReqSocketProofs` | theorems about `ReqSocket` | extends it |
| `RepSocketProofs` | theorems about `RepSocket` and `TcpTransport` | extends the first, an instance of the second |
| `EndpointState` | the state of a socket with its endpoints and pipes, and what is promised about it | extended by `Endpoints`, `EndpointsProofs` and `NngState` |
| `Endpoints` | `core/socket.c`, `dialer.c`, `listener.c`, `pipe.c`, `reap.c` | above `TcpTransport`; keeps what `EndpointState` promises |
| `EndpointsProofs` | theorems about `Endpoints` | extends `EndpointState`, an instance of `Endpoints` |
| `TcpTransport` | endpoints of `tcp.c` with their handshakes | above `PollQueue` |
| `TcpPipe` | messages and bytes of `tcp.c` | refines `MsgStream` |
| `MsgStream` | abstract: whole messages in order | - |
| `PollState` | the state of sockets, poller and the reaper, and what is promised about them | extended by `PollQueue` and `NngState` |
| `PollQueue` | `posix_pollq_epoll.c`, `posix_tcpconn.c`, `posix_tcpdial.c`, `posix_tcplisten.c` | keeps what `PollState` promises |
| `IdMap` | `core/idhash.c` | refines `IdTable` |
| `IdTable` | abstract: a finite map | - |
| `LinkHash` | `linkhash.c`, objects of `json_object.c` | refines `OrderedTable` |
| `OrderedTable` | abstract: names with values in the order they came | - |
| `JsonText` | `json_tokener_parse_ex` | uses the objects of `LinkHash` as `OrderedTable` has them |
| `Dictionary` | `dictionary.c` of iniparser | refines `IdTable` |
| `NngState` | the variables of nng's models | extends `AioState`, `ReqRep`, `EndpointState` and `PollState`; extended by `MCLibraries` and `MCNngLive` |
| `MCLogParser`, `MCLogDelivery`, `MCLogPipeline` | small sets for TLC | each extends one of the above |
| `MCClient`, `MCProcesses`, `MCLibraries`, `MCNngLive` | small instances of several models for TLC | see *Models side by side* |

Definitions whose comment begins with *Mutant* are wrong on purpose. They are
variants of a definition with a plausible bug in it; no specification uses
them, and `PROJECT.json` lists which property each one breaks. They show that
the property depends on what the code does.

### LogParser

`law` is the raw log: a sequence whose index is `idx`, each row with its state,
date, retry counter and kind. `kind` stands for the text of the event, as far as
it decides what the parser does: *plain* is accepted by the detail table,
*rejected* is refused by it, *poison* has no `from`, for which json-c returns
NULL and `strcmp` ends the process. `detail[i][p]` counts the rows of
`tb_log_event_detail` that parser `p` made of row `i`.

`pc` is where a parser stands: `poll` before the SELECT, `insert` before the
INSERT of the first row of `batch`, `mark` before the UPDATE. `batch` is the
stored result; rows in it are not read again. Actions are `Poll`,
`InsertDetail`, `InsertRefused`, `DieOfRow`, `MarkRow` and `MarkRefused`, one
for each outcome of a statement. `Kill`, `ConnLost`, `InsertAnswerLost` and
`StatementFails` disturb a parser; `disturbed` counts them. Several parsers are
possible, because the start script looks for a running process and then starts
one, which two starts can do at once.

`DetailColumns` are the columns of the detail table. The INSERT names the
columns `InsertColumns`, the DDL script creates `ShippedColumns`, and the two
differ (see the findings). The other runs assume a table the INSERT fits.

`rCount` is part of a row because the SELECT reads it, and it is always 0
because nothing writes it. `attempts` counts what it ought to count.

### LogDelivery

One tracer handles one event at a time (`busy`). For each event `pc` goes
through `dial`, `send`, `queued` or `recv`, and `done`. An event is also the
socket that was opened for it. A connection is a pair of an event and a number,
with the client's view (`up`, `epoch`) and the server's (`conns`) kept apart:
either may learn later than the other that it ended. `inbox` and `replies` are
the wire. `ready` is rep0's list of connections with a request nobody has asked
for yet; rep0 reads no second one from them.

`Dial` and `DialFails` are the two outcomes of `nng_dial` without
`NNG_FLAG_NONBLOCK`: after a failure the dialer is gone, and the code goes on to
`nng_send` all the same. `ConnectionLost` puts an unanswered request back into
the send queue (`req0_pipe_close`), `Reconnect` is the redial timer, `Resend`
the retry timer. `InsertRow`, `InsertRefused` and `InsertAnswerLost` are the
outcomes of `Log_DBMS_Insert`; the second leaves the connection to the database
open when it was the query that failed. `Reply` loses the answer when the
connection is gone.

The tracer registers its callback under the name `recv_handler` while the
function in the file is called `bus_recv_handler`; the model takes the function
to be the handler.

### LogPipeline

It has the variables of both halves. `ServerStores` is an `InsertRow` or
`InsertAnswerLost` of the delivery and the `Accept` of the parser's raw log in
one step; every other step belongs to one half and leaves the other's variables
alone. `KindOf` says what the text of an event is to the parser.

### EraserClient

`stack` is the call stack of handlers, the running one first. A frame has the
handler (`op`), the place in it (`pc`) and where it goes after a push (`next`).
A step is what runs between two places at which events are handled, or between
two outcomes of a call: `chunk` is the loop of `func_file_eraser`, `authed` the
loop after `auth()`, `trimming` the one in trim's handler. Only there can a click put
a frame on top (`Listening`). At the start, events are handled but the window
is drawn only in the first of them, so a click there needs a second pass
(`deep`).

Dialogs are modal: click and answer are one step. Of a log entry the model keeps
name, work and code, because handlers fill them at different times and `BXDB_Push`
stores whatever entry `colcnt` points at. `fileState` is what became of a file.
`dbFaults`, `intruded` and `mixed` are history variables that state
the conditions under which the log can be relied on. The promises themselves,
with the variables they are about, are in `LocalLog`, so that the run `client`
and the theorems speak of the same definitions.

### FileEraser

A disk is a set of blocks of `ERASER_SIZE` bytes. `own` are those of the file,
`data` what is in each. `Truncate` is `fopen("w")`, which frees all blocks with
the data in them. A `Turn` flushes the buffer of the turn before to offset 0
(that is what `fseek` does) and fills the buffer again; memset patterns that are
overwritten in memory before `fwrite` never reach the disk, so only the last is
modelled. `Close` flushes, `Remove` renames and removes.

### ClientInstances

A client that starts looks at `/proc` through `ps`, entry by entry: `left` are
those it has not read yet, `seen` the installed clients it has counted. Others
start and end in between. `Decide` is the comparison with 1. A client started
from another directory is not listed under `/usr/bin/bxr_eraser`.

### LogViewer

The handlers are atomic here; their nesting is in `EraserClient`. An entry keeps
its number and its name, because `db_num` has room for `NumBytes` bytes and runs
into the name beyond that; numbers are written to `Base`. `Shown` fills the rows
from the array backwards. `overrun` is a write behind the array.

### Daemons

`script` is what an invocation of a start or stop script is doing, `process` the
processes: they load the configuration, fork, and bind the port or connect.
Between the look at the process list and what follows from it anything can
happen. `raced` remembers that a script looked while another was at work; the
promises of the scripts (`HostSound`) are about hosts where it did not.

### NniAio

Four parties work on an aio: its user, its provider, the thread of deadlines and
whoever aborts, stops or frees it. `a_...`, `eq_list`, `task_...` and `tq_tasks`
are the fields of the code; `owned`, `begun`, `listed` and `finishing` say what the
provider holds. A step is a section under one lock, and every call that is made
after a lock was dropped is a step of its own. The provider is external, as all
of nng's providers are written: an aio is completed by who takes it off the list.

### ReqRep, ReqSocket and RepSocket

An action is what is done under the socket's lock. Messages are identifiers;
`written`, `inbound` and `heard` are the wire and the peer, which may lose or delay
what it got. `readable` and `writable` are the pollable descriptors. What both sockets have
is `req...` in the requesting one (`reqCtx`, `reqUp`), because `ReqRep` declares both. `firing`
holds a timer that has run out and waits for the lock. `latest` and `given` are
history: the last request of a context and the reply it was given. In `RepSocket`
the history is `arrived`, the pipe of each request, and `replied`, the replies given
to pipes.

### Endpoints

`sock`, `ep` and `pipe` have the reference counts, lists and flags; `cb` are
callbacks under way, `reap` the reaper's queue, `user`, `closer` and `holder` the
threads that call. A callback, a close and the reaper are split wherever the code drops
a lock. `Faults` names what may fail: a peer, an allocation, the protocol's
`pipe_init`; `sock.failed` is a history variable, true once `pipe_create` had no
memory or failed half way. Where the reaper takes two endpoints in either order to the same
effect, one order is modelled.

### TcpTransport and TcpPipe

`TcpTransport` ends where a pipe is handed to the socket: a handshake (`nego`)
per connection, the pipes that wait, the operation of the socket (`useraio`), and
close and free of the endpoint with the count that keeps it. `TcpPipe` is one
direction of a pair of pipes with one operation at each end, as the protocols
have: bytes are pairs of message and position, and the connection takes and
gives any part.

### PollQueue

A descriptor has what it is armed for and the callback of whoever owns it; `data`
and `link` are the kernel's view, from which `Able` and `UsesUp` say what epoll
reports and what a read or write uses up. The poller takes events in batches and
calls back without the lock. `HangUp` says whether epoll reports a hang-up of a
socket that is not connected yet, as Linux does.

### Tables and texts

`IdMap`, `LinkHash` and `Dictionary` are three hash tables or arrays with holes;
each is shown to be the map it stands for. `IdMap` counts in each cell what
passed over it and wraps at its word size; `LinkHash` marks deleted cells and keeps
the entries linked; `Dictionary` looks for a hole from the number of keys on.

`JsonText` is the machine of `json_tokener_parse_ex`: `levels` is the stack, and
a step is a turn of its loop. The text is chosen while it is read, lexeme by
lexeme, and may end anywhere. What is returned is compared with a parser by
recursive descent over whole lexemes (`Value`, `Elements`, `Members`).

### Models side by side

TLC is run on several models at once where each is small: `part` says which one a
behaviour is about, and the others stay as they begin. Their variables are
declared once (`NngState`, with those of the aios in `AioState`, of req0 and rep0
in `ReqRep` and of the poller in `PollState`), and names that two models share are told apart by
`INSTANCE ... WITH`. A component's promises are gathered in its module under one
name (`AioSound`, `ReqSound`, `RepSound`, `EndpointsSound`,
`TransportSound`, `BytesSound`, `PollSound`, `HostSound`, `RowsSound`,
`ObjectSound`, `TextSound`), whose parts are named and explained one by one above it.

## 3. What is checked

Twelve runs, in `PROJECT.json` under `runs`; four of them find a disagreement
between the code and what the repository says.

| run | instance | shows |
|---|---|---|
| `parser_one` | 1 parser, 3 rows, all kinds, 2 disturbances, fair | `ImplementsEventLog`: a row is copied only while open and closed once, after a copy. `OneSurplusPerDisturbance`: a disturbance costs one surplus row at most. `NothingPassesPoison`: nothing younger than a poison row is copied. `PlainRowsClosed`: everything before it is closed in the end |
| `parser_two` | 2 parsers, 2 rows, 2 disturbances each | `ClosedHasDetail` and `DuplicatesBounded` hold of every parser also beside another |
| `delivery` | 2 tracers, 2 events, one of them refused by SQL, 2 faults, 2 transmissions | `AckedIsStored`, `CopiesConserved`, `HeldOnce`, `UndialedIsStuck`, `InnocentRefusedOnlyByLeaks` |
| `pipeline` | 1 tracer, 1 parser, 2 events (plain, poison), 1 fault, 1 disturbance, fair | `AckedIsKept`, `DetailsPaidFor`, `PlainEventsParsed`, `DialedIsAnswered` |
| `client` | a file on 4 blocks of 2 bytes; handlers with 2 files (one temporary): 3 clicks or launches with 1 failure and 1 expired session, 4 without; a viewer of 7 entries | `ErasureSafe`; `GlobalsSound`, `ErasedIsLogged`, `CompleteIsGone`, `StartsAreEnded`; `ViewSound` |
| `processes` | 2 installed clients and one from elsewhere; 2 scripts, 4 processes, 3 configurations, or 3 processes and a change of the configuration; handlers with 2 clicks after the launch and 1 expired session; all fair | `OneRuns`, `AloneRuns`; `HostSound`, `StartsSettle`; `HandlersReturn`, `OrderlyClose` |
| `libraries` | 17 instances, see *Bounds* | `AioSound`, `ReqSound`, `RepSound`, `EndpointsSound`, `TransportSound`, `PollSound`, `TablesSound`, `TextsSound` |
| `nng_live` | 11 instances, fair | `AioEnds`, `SocketsGoOn`, `EndpointsReturn`, `TransportDelivers`, `PollServes` |
| `parser_schema`, `delivery_success`, `client_quit`, `file_eraser_promise` | see below | violations |

The refinement needs one parser: with two, the second copies a row from a batch
it read before the first one closed it, which `EventLog` forbids. What is left
then is `ClosedHasDetail` and `DuplicatesBounded`.

Some properties have conditions, and each of them is a statement about the code:

* `CountMatchesTable` (in `GlobalsSound`) needs SQLite not to fail: `BXDB_Push` counts before the
  INSERT is executed (line 353), `BXDB_Update` resets before the UPDATE (470).
* `ErasedIsLogged`, `CompleteIsGone` and `StartsAreEnded` need that no click
  came while an entry waited for an authentication (`intruded`): after it the
  entry is read again from `dBl[colcnt]`, which another handler has moved.
* `StartsAreEnded` also needs that temporary files and a file were not erased
  inside each other (`mixed`): `chk_method` is read after the loop.
* `InnocentRefusedOnlyByLeaks` is about histories without faults.
* `StopStops` and `OneUnlessRaced` (in `HostSound`) are about scripts that did not
  race (`raced`), and `AloneRuns` about a client that met no other.
* The closing properties of nng have the exceptions of the windows named below
  (`FreedUnlessStranded`, `CloseEndsOrStrands`, and `StopIsFinalUnlessRefused` in
  `NniAio`): they hold of every history that does not go through one of them.
* `ReturnsDocument` (in `TextsSound`) excepts texts that end inside a comment.
* `PlainRowsClosed`, `DialedIsAnswered` and `PlainEventsParsed` need a parser or
  server that is started again each time it ends. Nothing in the repository
  does that: they say what a supervisor would gain.

### Findings

* `parser_schema`: the INSERT of the parser names columns `Code` and `Mesg`;
  the DDL creates `lsfCode` and `lsfMesg`. Against that table every row is
  refused.
* `parser_schema`, too: the SELECT drops rows with five retries, and the DDL calls
  `rCount` the parser's retry count, but nothing counts: the sixth attempt follows.
* `delivery_success`: the tracer tells the bus `S`, `000`, `Success` whatever
  the server answered.
* `client_quit`: a quit handled during the authentication at the start calls
  `gtk_main_quit` before `gtk_main` and leaves the program running. (A quit
  handled later, however deep, ends it: `OrderlyClose`.)
* `file_eraser_promise`: "recovery is impossible" (line 846), but a file of two
  blocks of `ERASER_SIZE` bytes is reported complete with its second block on the
  disk as it was: both turns of the loop have written the first. `Unrecoverable`
  assumes the kindest file system, one that hands a block of the file back to it
  after `fopen("w")` has freed them all; then a file of one block is overwritten,
  and the finding is about the missing advance alone. By `OneBlockIsWritten`
  no file has more than one block overwritten. (Where the file system hands out
  another block, nothing of the old data is overwritten at all.)

Met while reading and in no model: after "go on without the server?" a Cancel
makes `func_auth_api_gooroom` return -1, which `func_chk_psname` ignores; neither
tracer nor parser gives back the JSON objects of an event (`json_object_put`).

### Disagreements without a run of their own

Each of these is a named property of its module. TLC refutes it there, on an
instance as small as those of the runs; the configurations are not kept. They
are listed with the line where the code does it.

| property | module | what the code does |
|---|---|---|
| `ReportsOwnPid` | `Daemons` | `start_bxrgp.sh:20` looks for `bxr_server` and reports its number as the parser's |
| `ListensWhereConfigured` | `Daemons` | `bxr_utils.c:159` reads keys of `config`; the shipped file has the address in `[SERVER]` |
| `DbmsHasItsOwnKey` | `Daemons` | `bxr_utils.c:164` reads `DBMS_IP` from the key of the server's own address |
| `WrongPathRefused` | `ClientInstances` | `bxr_eraser.c:188`: a client from another directory runs beside one installed client, because it counts that one as itself |
| `RowsFit` | `LogViewer` | `bxr_eraser.c:353, 425`: `colcnt` is never compared with `MAX_CNT`, rows are written behind `dBl[]` |
| `StopIsFinal` | `NniAio` | `aio.c:384`: `nni_aio_schedule` on a stopped aio aborts the task, the stop returns, and the provider's error still calls back |
| `ExpiresItself` | `NniAio` | `aio.c:583`: an aio the deadline thread holds can be completed and used again; the thread then ends an operation that is not due |
| `NoRecvBehindSend` | `ReqSocket` | `req.c:575, 626`: a receive is accepted while the send still waits, against the assertion in its cancellation |
| `SenderKeepsMessage` | `ReqSocket` | `req.c:557`: cancelling that receive frees the message of the waiting send |
| `ReadableIsReady` | `ReqSocket` | `req.c:533`: a stashed reply is dropped with the descriptor left readable |
| `ClosingKeepsReplies` | `ReqSocket` | `req.c:236`: without retries the end of the pipe discards a reply that has come |
| `OneOutstanding` | `RepSocket` | `rep.c:204`: a context receives the next request while its reply waits; a second reply is then lost or a panic |
| `ReadableIsReady` | `RepSocket` | `rep.c:336`: the last pipe with a request closes, the descriptor stays readable |
| `WritableIsReady` | `RepSocket` | `rep.c:459`: a request of a busy pipe leaves the descriptor writable |
| `AllocInRange` | `IdMap` | `idhash.c:273`: after 0xffffffff comes 0, which is below the range |
| `CallersReturn` | `Endpoints` | `dialer.c:432`: closing the socket during `nng_dial` leaves it waiting for ever |
| `NeverIdle` | `Endpoints` | `socket.c:1502`: a failed allocation of a pipe leaves a dialer without timer |
| `CloseReturns` | `Endpoints` | `pipe.c:294`: a failed identifier lets `p_ref` become -1, and the reaper waits for 0 |
| `SocketOutlives` | `Endpoints` | `pipe.c:293`: a pipe whose `pipe_init` failed locks the socket after it was freed |
| `KeepsAsking` | `TcpTransport` | `listener.c:399`: EPIPE in one handshake ends the accepting |
| `EndpointFreed` | `TcpTransport` | `tcp.c:245`: a close between two pieces of a handshake strands its pipe, and the endpoint is not freed |
| `CloseEnds` | `TcpPipe` | `tcp.c:361`: a close between length and body strands the receive of the protocol, and the reaper with it |
| `OkIsConnected` | `PollQueue` | `posix_tcpdial.c:144`: a hang-up reported before `connect` makes a connection in progress count as made |
| `NeverPanics` | `PollQueue` | `posix_tcpdial.c:210`: the error path unlocks a mutex it does not hold |
| `CommentsEnd` | `JsonText` | `json_tokener.c:1202`: a text that ends in a comment behind an inner value returns that value (`{"a":"x"/*` is read as `"x"`) |

Where they contradict a text of the repository, the comment above the property
quotes it; the others contradict what their callers rely on.

### Bounds

Every bound is a constant. `MaxDisturb` and `MaxFaults` bound what goes wrong:
two are needed for a fault in the recovery from another; the hazards found need
one or two. `MaxRows = 3` has a row before, at and behind a poison row;
two of one millisecond and one of another. `MaxSend = 2` has the copy that races
the original's answer. Two tracers are what it takes for rep0 to hold a request
while another is worked on, and one database connection is the smallest pool
that can be leaked empty. `MaxClicks = 4` is a launch and three handlers inside
each other, enough for a handler to return into one that was itself
interrupted; three clicks are enough for a crash, and a second launch that reads
back what the first wrote.
`MAX_CNT = 12` is more entries than those clicks can make: the handlers do not
reach the end of the array. The viewer has numbers to base 2 in two bytes, so that
its third and fifth rows are what the 10th and the 100th are to the code. The
sizes from 0 to 7 bytes on blocks of two have the empty
file, one short block, whole blocks and a remainder. `AttemptCap` only keeps the
history variable `attempts` small; it is 6 where a property reads it.

Processes: two scripts are what it takes to race, four process numbers a start of
each and a fork of each; one change of the configuration makes two servers differ,
of which the second need not get as far as its fork.

Libraries, where the interesting case decides the instance:

| part | instance | because |
|---|---|---|
| `aio` | 2 aios, 1 operation and 1 abort each | the deadline thread works on a batch of two |
| `req` | 2 contexts (one without retries), 1 pipe, 2 sends, 1 loss | contexts compete for a pipe; a replaced request is answered late |
| `repeats` | 2 contexts, 1 send, 2 pipes, 1 loss | the repetition goes over another pipe |
| `rep` | 2 contexts, 2 pipes, 2 requests, 2 ends | two replies to one pipe, one pending |
| `ids` | identifiers 1, 9, 17, 14 of 5 bits, range 1..2, 6 entries | 1, 9, 17 meet in one cell of 8; the table grows, shrinks and wraps |
| `dialer`, `faulty`, `listener` | 1 endpoint, 2 pipes, 1 or 2 closing threads | a pipe is made while the other is taken apart; a close races a close |
| `accepting`, `dialing` | 2 connections or 1, resets | one handshake ends while the other waits |
| `pipe` | messages of 2, 0 and 3 bytes, limit 2, a length of 3 bytes, room for 4 | parts of length and body, an empty body, one too long |
| `dials`, `accepts` | 1 connection; a listener and 1; hang-ups and shortage | a batch of two; every callback of the poller |
| `object` | 4 names with hash 1 or 3, 2 to 8 cells | all meet, and growing changes where |
| `dict` | 4 keys, 2 values and NULL, 2 slots at first | holes before and behind the number of keys; a value replaced |
| `short`, `long` | any 4 of 13 lexemes; up to 9 of the signs, a string and a number | every state; a name given twice, a level too many |

`ids` and `object` have one value: which entry is found where is checked, not that
a second value replaces the first (one assignment to the cell that was found).
Identifiers end at 2, far below the word size: that the next one after 0xffffffff
is 0 is only looked at by `AllocInRange` (above).

### Fairness

* Parser: `WF(ParserStep(p))` - a running process is scheduled. No fairness on
  `Start`, on disturbances or on the server's INSERT.
* Delivery: tracer, nng and server threads run; the dialer's timer redials (nng's
  default reconnect times are finite); a connection the other side has dropped
  is noticed (TCP reports it). No fairness on faults, on the retry timer, on
  `ServerStart` or on the bus. `DialedIsAnswered` follows without the retry
  timer, because a lost connection also requeues the request.
* Pipeline: both, each for its own steps.
* Daemons: scripts and processes are scheduled. Clients: one that checks goes on.
* Aios, endpoints, TCP, poller: the threads of nng run, callbacks return, time
  passes, a handshake ends by its timeout of ten seconds. Nothing obliges a
  provider, a peer, the kernel or a user to do anything else.
* req0: pipes are dialled again, peers answer what they do not lose (losses are
  bounded), and the timer is strongly fair (`SF(Fires(c))`): the thread in
  `core/timer.c` takes the nodes that have run out in their order, so that each
  comes up although others keep the socket's lock busy. rep0: a server's context
  receives again when it has nothing to answer, and answers.
* Client: `WF(Step)` - the GTK thread runs, and whoever is asked in a dialog
  answers. None on clicks, launches or crashes.
* Files, the viewer, tables and texts: none; only safety is checked.

Deadlock is checked where a parser can always start or poll; elsewhere the
programs may be at rest, or the
bounds end the behaviours, and the configuration says `CHECK_DEADLOCK FALSE`.

## 4. What is proved

Every theorem holds for all values of the constants that satisfy the named
assumption of its module. The parts of the inductive invariants are defined at
the end of the specification they belong to; those that one proof alone needs
stand in its module.

| theorem | says | under |
|---|---|---|
| `LogParserProofs!TypeCorrect` | `Spec => []TypeOK` | `ParserAssumption` |
| `LogParserProofs!ClosedRowsHaveDetail` | `Spec => []ClosedHasDetail` | |
| `LogParserProofs!DuplicatesAreBounded` | `Spec => []DuplicatesBounded` | |
| `LogParserProofs!SurplusBounded` | `Spec => []OneSurplusPerDisturbance` | |
| `LogParserProofs!NothingGetsPastPoison` | `Spec => []NothingPassesPoison` | |
| `LogParserProofs!ParserImplementsEventLog` | `Spec => ImplementsEventLog` | and `SingleParser` |
| `LogDeliveryProofs!DeliveryTypeCorrect` | `Spec => []TypeOK` | `DeliveryAssumption` |
| `LogDeliveryProofs!AckedEventsAreStored` | `Spec => []AckedIsStored` | |
| `LogDeliveryProofs!RowsCostTransmissions` | `Spec => []CopiesConserved` | |
| `LogDeliveryProofs!RequestsHeldOnce` | `Spec => []HeldOnce` | |
| `LogDeliveryProofs!UndialedEventsAreStuck` | `Spec => []UndialedIsStuck` | |
| `LogDeliveryProofs!RefusalsComeFromLeaks` | `Spec => []InnocentRefusedOnlyByLeaks` | |
| `LogPipelineProofs!PipelineImplementsHalves` | the pipeline is a `LogDelivery` and a `LogParser` | `PipelineAssumption` |
| `LogPipelineProofs!TableIsShared` | `Spec => []TableShared` | |
| `LogPipelineProofs!AckedEventsAreKept` | `Spec => []AckedIsKept` | |
| `LogPipelineProofs!DetailsArePaidFor` | `Spec => []DetailsPaidFor` | |
| `EraserClientProofs!NothingOldIsRead` | `Eraser!Spec => []ReadsNothingOld` | `EraserAssumption` |
| `EraserClientProofs!OneBlockIsWritten` | `Eraser!Spec => []OneBlockWritten` | |
| `EraserClientProofs!FinalDataIsLast` | `Eraser!Spec => []FinalData` | |
| `EraserClientProofs!ErasureIsSafe` | `Eraser!Spec => []ErasureSafe`, all of these together | |
| `EraserClientProofs!RetriesAreRestored` | `Spec => []RetriesRestored` | `ClientAssumption` |
| `EraserClientProofs!CounterMatchesTable` | `Spec => []CountMatchesTable` | |
| `EraserClientProofs!GlobalsAreSound` | `Spec /\ []InArray => []GlobalsSound` | |
| `EraserClientProofs!CompleteFilesAreGone` | `Spec /\ []InArray => []CompleteIsGone` | |
| `EraserClientProofs!ErasuresAreLogged` | `Spec /\ []InArray => []ErasedIsLogged` | |
| `EraserClientProofs!ErasuresAreEnded` | `Spec /\ []InArray => []StartsAreEnded` | |
| `LogPipelineProofs!AtMostOneMisses` | `Clients!Spec => []NotBothMissed` | `InstancesAssumption` |
| `LogPipelineProofs!OneClientRuns` | `Clients!Spec => []OneRuns` | |
| `LogPipelineProofs!HostIsSound` | `Host!Spec => []HostSound` | `DaemonAssumption` |
| `NniAioProofs!AioIsSound` | `Spec => []AioSound` | `AioAssumption` |
| `NniAioProofs!PollIsSound` | `Posix!Spec => []PollSound` | `PollAssumption` |
| `ReqSocketProofs!ReqIsSound` | `Spec => ReqSound` | `ReqAssumption` |
| `RepSocketProofs!RepIsSound` | `Spec => []RepSound` | `RepAssumption` |
| `RepSocketProofs!TransportIsSound` | `Tran!Spec => []TransportSound` | `TransportAssumption` |
| `EndpointsProofs!EndpointsIsSound` | `Core!Spec => []EndpointsSound` | `EndpointsAssumption` |

The assumptions only say what the constants are: bounds are natural numbers (of
those that cannot be 0, positive), the kinds of rows are those named, the disk
is finite, endpoints and pipes are finitely many and not the same things.

**Parser.** `TypeOK` alone is not inductive, since `NextRow` takes the tail of a
batch and `Current` its head: `BatchShape` says that a batch is non-empty
exactly while a row is worked on, and holds stored rows, each once.
`ClosedHasDetail` is not inductive because `MarkRow` does not look at the detail
table: `CopiesOfStored` says that the row whose UPDATE is due has been copied.
`DuplicatesBounded` needs to know which copy is the free one: `CopiesAccounted`
says that copies of a row by a parser exceed its disturbances by at most one,
and that only if the row is closed or that parser is about to close it
(`Settled`), and that rows of a batch not yet worked on have no free copy. A
kill moves a row from `mark` back to open, and what it takes from `Settled` it
adds to `disturbed`. `OneSurplusPerDisturbance` says more: it is over all rows
together, so a disturbance pays for one of them. Surplus copies are made later
than the disturbance that causes them, and so the account must hold what has
been paid for and not yet been made. `SurplusPaidFor` counts with the surplus
copies the rows that have been copied and may be copied again (`Recopyable`):
those still open, those left in the batch. A kill or a failed UPDATE adds one
row to them, the one that was due, and one to `disturbed`; `InsertDetail` of
such a row moves it to the surplus; `MarkRow` takes it out; another parser can
only close a row, never open one.

**Poison rows.** That nothing dated after one is closed or copied depends on the
order of the SELECT, of the dates in the table, and on the parser's working
through its batch from the front. `DatesAscend` says that a row is not older
than those before it; `PoisonFirst` says that every poison row older than an
entry of a batch comes before it there, and that none is ever due for the
UPDATE. The row a parser works on therefore has no older poison row
(`CurrentIsFree`): at the head of a batch there is nothing before it. A row
the server inserts meanwhile is not older than what the batch holds.

**Delivery.** `TypeOK` bounds the number of connections of a socket, and that is
no local fact: `EpochBound` says that a socket had at most one more connection
than there were faults, and the additional one only while it is up on both
sides or when the answer came over it. `WorkedOn` says that the server knows
where its request came from. `AckedIsStored` follows an answer backwards:
`SuccessUnderWay` says that an `S` on the wire, or due to be sent, is about a
stored event; rows are never removed, and a lost, repeated or late answer
changes nothing about that. `CopiesConserved` is the account of one event: its rows, the
copies of its request on the wire (`OnWire`), in rep0 (`Held`) and in `main()`
(`BeingInserted`) are at most what was sent. It is inductive with the types: every
step moves a copy from one of these places to the next or loses it, and only
`Send` and a retransmission make one. `HeldOnce` is inductive with the types. `UndialedIsStuck` is proved
from `Stuck`: nothing of an event whose dial failed is on its way, no request in
an inbox or at the server, no connection is up, and its process never waits for an
answer. `InnocentRefusedOnlyByLeaks` follows a refusal
backwards as `AckedIsStored` follows an acknowledgement (`RefusalUnderWay`): with
no fault, the `E` of a well-formed event was made when every connection to the
database had been leaked, and a leaked connection is never returned.

**One parser.** `ImplementsEventLog` holds with one parser and not with two (see
*Findings*), so the theorem assumes `SingleParser`. A batch is a snapshot of the
table; what makes it safe to work through is that nothing in it is closed before
its turn (`BatchOpen`), which a second parser would break. With it every
`InsertDetail` is a copy of an open row, and every `MarkRow` closes an open row
that has been copied (`CopiesOfStored`); every other step changes neither
table, or is the server's.

**Pipeline.** Every step is a step of each half or leaves its variables alone
(`PipelineImplementsHalves`). One case needs more than the shapes of the actions:
the row stored must be of a kind the parser's table can hold, which it is because
the delivery's types say that the server has an event in hand. So every theorem about a half holds of the whole. `AckedIsKept` puts two of them
together: an acknowledged event has a row (`AckedIsStored`), that row is in the
parser's table too (`TableShared`), and there it is open or has a detail row
(`ClosedHasDetail`). `DetailsPaidFor` puts the two accounts together: the detail
rows of an event are its raw rows, each once, and surplus copies of them
(`PipelineCopies`); there are at most as many of the former as transmissions
(`CopiesConserved`), and of the latter as disturbances
(`OneSurplusPerDisturbance`).

**Overwriting.** `OwnsWritten` says that after the truncation the file owns what
was written, one block at most; `OldDataStays` that the others keep the old
data; `BufferOfLastTurn` that the buffer was filled in the last turn and that
turn began before the end of the file.

**Client processes.** That at most one installed client runs is about what was
seen in the past: of two clients that both counted only themselves, each would
have looked at the other before it was there. `NotBothMissed` says that this
cannot be, and it is inductive with the types: a client is in the process list
before it starts to look, so that the later of two looks finds the other.

**Server host.** The promises of the scripts are about what was seen in the
past and not about what is. Two things make them true. The start script waits for the
program's first process, and that waits for its fork: so as long as a program has not become
its daemon, its script is in `wait` with its number (`StartersWait`), and whoever
lives after a step lived before it or was just started by a script in `exec` or `wait`
(`LivesOn`). `StopStops` follows from `KillsAll`: what a start script that had
ended when the stop script looked has left running is on the list until it is
killed, and such a script starts nothing more. `OneUnlessRaced` follows from `ExecAlone`: of a
program that was not raced one script at most is about to start it, and only while
nothing of it runs. `ListenApart` is inductive with the types: only `Serve` makes a
process one that listens, and the kernel refuses what overlaps.

**Local log.** `InArray` says that `colcnt` indexes `dBl[]`. Nothing in the
program sees to that (`bxr_eraser.c:353`, see *Disagreements without a run of their own*): beyond
the array C promises nothing, and neither do the theorems about what the
entries hold (`RetriesRestored` and `CountMatchesTable` are about counters alone). The run checks the
stronger `colcnt \in 1..MAX_CNT` where `MAX_CNT` is larger than what its clicks can
use. Four things make the log right although handlers run inside handlers and share
`dBl[colcnt]`. Clicks are handled only in the loop of an erasing, not while its
entry waits, unless one intrudes during an authentication (`NestedInLoop`). So
what a handler prepared is still at `colcnt` when it is stored: `FirstEntry` for
the `J100` entry, `LastEntry` for an entry that says *complete*, whose file is
gone and stays gone. An erasing is in the log before it opens its file
(`LoggedFirst`), and this survives whatever nested handlers append, since rows are
only flagged and never removed. For `StartsAreEnded` the log and the stack are
counted against each other: of each file there are as many starts as ends and
erasings between the two (`Balanced`). These are counted by their depth from the
bottom of the stack, which a call or a return above leaves alone, and each ends
under the name it began with (`EndNamed`, which needs that a temporary-file
erasing inside does not change `chk_method`: `MethodKept`). Retries counted in
`auth_cnt` belong to an authentication that is still on the stack
(`RetriesOwned`).

`CountMatchesTable` is inductive with the shape of the stack: a handler runs only
while the process does, a stored row is one more visible row (`VisibleStored`),
and starts, clearings and reads of the log set `colcnt` by the rows they leave
visible. It needs no `InArray`, since what is counted does not depend on what
the entries hold. The types do: `Open` reads `dBl[colcnt - 1]`, which is in the
array because `colcnt` never falls below 1 (`Counted`) and, by `InArray`, does
not pass `MAX_CNT`.

The proof that the invariant is kept has a step for each action; what actions
share has a lemma (`NextRowFacts`, `ResultFacts`, `ConnectFacts`, `HangUpFacts`,
`EpochKept`, `AckKept`, `FlushFacts`).

**Asynchronous operations.** `AioSound` rests on three invariants. The first is the
account of an aio (`Account`), which puts `OnePlace`, `PreparedUnderWay`,
`ExactlyOnce` and `BusyIsExact` into numbers, with 1 for yes and 0 for no: an
operation is in one place for as long as its consumer does not own the aio, and
`nni_aio_begin` has made the task busy for it unless `nni_aio_schedule` refused
and took that back. `BusyIsExact` alone is not inductive: `nni_task_dispatch`
counts a task again that is not prepared. The account is what turns
`task_busy = 0`, all that `nni_task_wait` looks at, into `AtRest` (`IdleIsAtRest`);
a refused aio is excepted because there the count is given back before the
provider calls back (`StopIsFinal`, section 3). That the aio
stays at rest (`RestStays`) needs `a_stop`, which `EndsInOrder` has for every
stopped aio. `BatchHeld` says that the thread of deadlines holds what is in its
batch and takes cancel functions of its first only, so an aio that is not
`a_expiring` when `nni_aio_fini` gets by (`FiniHeld`) is not about to be cancelled
by it; the other three callers were waited for or excluded in order. No bound is
assumed: the numbers of aios, of operations on each and of aborts are any.

**The requesting socket.** `ReqSound` has two halves, and so has its invariant. `Books`
is about identifiers, and holds whatever pipes and timers do. An entry of
`requests` belongs to the context that has this identifier and made this request
last (`Registered`, `LatestApart`), no two contexts made one request, a stashed
reply answers the latest one, which is no longer listed (`Stashed`), and what was
given is neither listed nor stashed (`GivenApart`). That is why a late reply finds
nobody, and why what is found has its message still. A step does one of four things
to the books, or nothing: it gives requests up (`Drops`: a cancel, a close, the end
of a pipe), makes a new one (`Renews`), hands the stashed reply over (`Gives`), or
takes in a reply (`Answers`). Each has a lemma, and `OwnReplyOnce` is the fact that the last two
give what `Stashed` and `LatestApart` allow.

The other half is about waiting. `NeverForgotten` is not inductive alone: `Waits` adds
that a context which is never repeated and waits in the queue is on no pipe's list (or the end of that pipe
would drop it there), and that a timer runs, or waits for the lock, only for
contexts that repeat. `PipesServe` says that ready pipes are listed once and are up, that
only busy ones send, and that a request and a ready pipe do not wait for each
other. Of the two lists one was empty, and a caller of `req0_run_send_queue` adds one
entry to one of them: so one of them has at most one entry (`Few`), and the loop of
that function either does nothing (`Stalls`) or hands the first request to the first pipe
(`Serves`), and `RunOutcome` spares the proof everything else about the
loop. Numbers of contexts, pipes, requests and losses are any, and `NoRetry` is any
set of contexts.

**The replying socket.** `RepSound` is about four kinds of things that refer to
each other: contexts, pipes, lists of both, and requests. Each has its part of the
inductive invariant. Lists hold what they hold once, and a context is on one exactly
while it waits (`ReceiversListed`, `RequestsListed`, `SendersListed`). Without
*once* none of this is kept: `nni_list_remove` takes one entry out, and a context
that stayed on the list would be taken from it when it no longer waits. That the
context at the head of a `sendq` has a reply for this very pipe is the third of them
(`spipe`), and `rep0_pipe_send_cb` does not look. `PipesHeld` says of a pipe what
`PipesListen` says and two things more: what receives is up and holds nothing, and
one that has not been started holds nothing. It is why an arriving request finds
the place empty. For the requests the places one can be in are given one name
(`Spots`: what a context has to answer, what it has queued, what a pipe holds), with
what is there (`HeldAt`) and the pipe its reply would go to (`Home`). `Origins` says
that what is held or was answered did arrive, and from there; `HeldApart` that two
places do not hold one request, nor one that was answered. A step drops some
requests and moves, answers or brings at most one, so the proof has one lemma for
each of these (`HeldDropped`,
`HeldMoved`, `HeldSent`, `HeldArrived`) and each action is an instance. `OneHolder` counts
holders with cardinalities; `HeldOnce` derives it from `HeldApart`.
`PollsMissNothing` is inductive with the types and `PipesHeld`. Numbers of contexts,
pipes, requests and closed pipes are any.

**The poller.** `PollSound` says that nothing is freed under the poller and no
wake-up is lost, and both are about a thread that works without the lock on what it
took before. The invariant is stated of one descriptor at a time (`ConnOK`,
`ListenOK`), in three parts. `Shut`: a descriptor is closed for good only after it
was closed, and only when the poller has it neither in its batch nor in work. Here
`PollReap` is what counts: it runs between batches, and what it closes was closed
before (`nni_posix_pfd_fini` puts it on `reapq` after that), so that no later batch
has it. `Wakes`: what is waited for is among the events, and armed too unless the
poller has taken the descriptor, for as long as nobody is about to look at it. `WaitIsArmed`
alone is not inductive: `nni_posix_pfd_arm` arms what is among the events, so that
what is missing there is lost with the next event. A callback looks at what waits, but for that of a
dialer at a connection that is no longer dialing (`Looks`), and that such a
connection has nothing pending takes the third part. `Life` follows a connection:
which callback it has, that only one that is up has operations, that one not yet made has
never been seen by the poller, that one that is freed was closed for good. Besides these the
poller only calls what a descriptor's callback was (`CurrentOK`), and the reaper has
dead connections, each once (`ReapingOK`): *once* is why `FiniEnd` gives the
dialer back once (`DialerOutlives`, an account of cardinalities). `epoll_wait`
returns all that is signalled: that the batch has each of them is a counting
argument (`SetAsSeq`), without which an event would disarm a descriptor nobody then looks at. The
numbers of connections are any; there is one listener at most.

**The TCP transport.** `TransportSound` is about one endpoint and the pipes it
makes. That no ready pipe and waiting socket miss each other, and that a listener
goes on accepting, is inductive with the parts of `TranInv`. `WaitingOK`: the list
of ready pipes has each once and only such. *Once* is what `nni_list_remove`
relies on when a pipe on the list is closed. `NegotiatedOK`: a pipe whose handshake
has an operation is not ready, handed out or reaped. `CountOK`: `refcnt` is the
number of pipes that are not freed, so that the last of them and the endpoint's own
end, in either order, free it when nothing is left. `EndsOK` says what the close did
to the endpoint's operations: the socket's own does not wait once it was closed,
and both others are at rest after `tcptran_ep_fini`. `AttemptOK` is needed for the
dialer, of which nothing is ever on the list: an attempt is in one place, so that its
result meets the operation that began it. `AskingOK` is why a dialer that is open
goes on asking: without an `ECLOSED` from a broken connection, only its own close
tells it so. Numbers of connections are any.

**Endpoints.** `EndpointsSound` is about five kinds of things that free each other:
socket, endpoints, pipes, the threads that use them, and the reaper. Nothing
of it is inductive alone. `Counted` makes an endpoint's `d_ref` the number of
threads that hold it; the same is said of the pipe (its callback and the thread that
got hold of it, `PipeOK`) and of the socket (`SockOK`, by cardinalities). That a count
reaches zero while an operation of the endpoint still goes on is nevertheless
possible, and
harmless for another reason: whoever closed it shuts it down before giving the
reference back (`Shuts`), and the reaper stops its operations and waits for them. So `ReapOK`
says of all the reaper has that it is there once and was closed, shut down, and
is held by nobody; and of all that is alive, that it is listed or on its way to
the reaper. An endpoint whose pipe is listed is listed itself (`PipesOK`), and it is
that which makes `EndpointOutlives` hold: the reaper puts an endpoint that still has pipes
back and takes it up again when they are gone.
A socket that closes has either nothing listed or one thread that still has to wait
for it (`SockOK`); of two threads that close it, one is the last. `Works` says
of an open dialer or listener which of its four ways to go on it has: it connects,
its timer runs, its callback adds a pipe, or it has one. This and the part of
`ReapOK` about live pipes assume that `pipe_create` has not failed
(`~sock.failed`), as `SocketOutlives` and `NeverIdle`
do: after such a fault the code is at odds with both, as section 3 shows. `Kinds`
tells dialers, which have one pipe, from listeners. Numbers of dialers, listeners, pipes
and closing threads are any, the first three finite.

Model-checked only: liveness (`PlainRowsClosed`, `DialedIsAnswered`,
`PlainEventsParsed`, `HandlersReturn`, `OrderlyClose`, `AloneRuns`,
`StartsSettle`, and all of `nng_live`), which is outside the
prover's reach; the bound `MAX_CNT` of `colcnt`, which nothing in the code keeps; `LogViewer`; and
of the libraries all but `AioSound`, `ReqSound`, `RepSound`, `PollSound`,
`EndpointsSound` and, of `TransportSound`, what is about endpoints. The other half of the last,
`TcpPipe` as a refinement of `MsgStream`, is an equality of byte sequences that are
cut and joined, and is left to the runs. Of the rest `TextsSound` compares the
reader with a parser by recursion, and `ViewSound`, like `TablesSound` where a
table is rebuilt, is about what a recursive function computes from its data: induction
over data is outside the prover's reach.

## 5. What is not modelled

* Most of the code under `1.server/src/thirdparty` is never run by the programs:
  nng's other protocols and transports (inproc, ipc, WebSocket, ZeroTier, TLS),
  HTTP, statistics, the nanomsg interface, the platforms other than Linux, and
  json-c's printing, pointers and patches. It is nine tenths of the lines of the
  repository; a model of it would say nothing about the system.
* Of nng: options, URLs and name resolution, statistics, `core/message.c`,
  threads and locks (taken to do what they say). Memory runs out only where
  `Faults` or `Shortage` says so.
* Of json-c: `\u` escapes, fractions, exponents and signs, Infinity and NaN,
  reference counts, printing. `JsonText` has one digit, one word for each of null
  and boolean, and both kinds of quotes and of comments.
* Of iniparser: how a line is split (`iniparser.c`).
* `B_Log` and the names of log files, which nothing reads back.
* The widgets, labels and progress bar of the client; the file chooser.
* The tables of the DDL that only a web console uses.
* The text of events: SQL quoting is one bit per event (`Quoted`, `rejected`).
* `LogDelivery` has req0 and rep0 as far as tracer and server depend on them; that
  `ReqSocket` and `RepSocket` behave so is checked by their own properties, not
  by a refinement of `LogDelivery`.

Simplifications that a reader should know: `TcpPipe` has one operation in each
direction; `PollQueue` takes the kernel as `Able` and `UsesUp` describe it;
request identifiers are not used twice within the bounds (the real space is
2^31); process numbers are not used again.

## 6. Plan

Done: the parser; delivery and pipeline; the client, its files, its viewer and
its processes; the daemons; nng from the protocols down to the poller; tables
and texts; the proofs about parser, delivery, pipeline, overwriting, local log, client
processes, the processes of the server's host, nng's aios, its endpoints, its TCP
transport, its poller and its requesting and replying sockets. What would come next:

1. Compositions: `EraserClient` with `FileEraser`, so that `complete` is about
   blocks; `TcpTransport` under `Endpoints`.
2. Abstract specifications: a log that `EraserClient` refines, and an
   at-least-once channel that `LogDelivery`, `ReqSocket` and `RepSocket` share.
