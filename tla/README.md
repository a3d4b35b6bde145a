# minbif: TLA+ models, checks and proofs

minbif is an IRC gateway to instant-messaging networks: an IRC client connects
to it, and it shows the accounts, buddies and chat rooms of libpurple as IRC
servers, users and channels. This directory models the parts of it whose state
outlives one call, checks them with TLC and proves with TLAPS, for instances of
any size, the safety properties that TLC checks on small ones. Of the
protocol plugins that come with it, the HTTP client and the plugin that is
finished (coincoin) are modelled too.

All paths below are relative to the repository's `src/` directory, whose C++
code is again in a directory `src/`.

## Inventory

| part | state | operations | interacts with | hard behaviour | correct when |
|---|---|---|---|---|---|
| daemon-fork poll (`server_poll/daemon_fork.*`) | list `childs` (fd, user name), socket pairs, the forked processes | accept, refuse, fork; IPC messages USER, OPER, WALLOPS, REHASH, DIE; signals; exit | IRC session of each child, GLib | processes interleave, die at any moment, messages are lost when a stream is full | the limit holds; one session per user; DIE stops the server; dead children are forgotten |
| inetd poll (`server_poll/inetd.*`) | one IRC object | start, kill | IRC session | none of its own | - |
| IRC session (`irc/irc.*`, `irc/cmds.cpp`, `irc/user.*`) | nick, ident, password, flags, socket, timers | PASS, NICK, USER, QUIT, PONG, queries; ping timer; stop timer | socket wrapper, Auth, Purple, poll | several lines per read, quit in the middle, a peer that is gone, timers | who gets in may; the announced name is the account; sessions end |
| authentication (`im/auth*.cpp`) | the mechanism that accepted | exists, authenticate, create | IRC session, Purple | three mechanisms with different ideas of who exists | no login without a credential |
| libpurple instance (`im/im.*`, `im/purple.*`) | one static instance, user directory | init, uninit, account list | everything in `im/` | only one per process, left behind by a failed login | - |
| socket wrappers (`sockwrap/*`) | `sock_ok`, TLS session | Read, Write | IRC session | errors thrown from any callback | - |
| DCC SEND to the user (`irc/dcc.*`, `im/ft.*`) | listening or connected fd, position in the file, queue of acknowledgement bytes | listen, accept, progress report, acknowledgement, close, timeout | libpurple's transfer, the kernel's buffers | the file grows while it is read, three parties at three speeds | the user gets the file in order and whole |
| DCC SEND from the user (`irc/dcc.cpp`, `irc/buddy.cpp`, `irc/buddy_icon.cpp`) | list `dccs`, file, connection, nick and its callback | connect, read, finish, purge | nicks, servers, libpurple's transfer and icons | the nick or its server goes in the middle, two uploads of one name | a file goes whole, once, to the one it was sent to; nothing points at a deleted nick |
| DCC CHAT (`irc/dcc.cpp`) | listening or connected fd | listen, accept, send | media | - | - |
| IRC object graph (`irc/irc.cpp`, `nick`, `channel`, `server`, `buddy`, `chat_buddy`, `unknown_buddy`, `conversation_channel`, `status_channel`) | maps of users, channels and servers that point at each other | add, rename, remove; join, part, kick | libpurple's callbacks, DCC | removal of an object others still point at | every pointer in every map is alive, the maps agree |
| accounts (`im/account.*`, `irc/cmds_accounts.cpp`) | connection state, reconnect timer, delay and join queue, all in libpurple's settings | connect, disconnect, error, timer, add, remove | servers, conversations | a timer that outlives what armed it | one timer per account; a wanted account comes back |
| conversations (`im/conversation.*`, `irc/conv_entity.*`) | libpurple conversation, delayed messages | send, delay, flush, destroy | nicks and channels | a flush after the conversation is gone | messages in order, each once |
| requests (`im/request.*`) | queue of questions, fields of the first | ask, answer, close | libpurple's callbacks | callbacks that close or add requests while one is answered | the user answers the question he sees |
| media, caca images (`im/media.*`, `core/caca_image.*`, `core/mutex.*`) | frames shared with a GStreamer thread | enqueue, show | DCC CHAT | two threads | - |
| configuration (`core/config.*`, `core/minbif.cpp`) | sections that outlive a load, their copies, values and names | load at the start and at SIGHUP | main program, every reader of a value | a second file read into the sections of the first | a process runs on what its last file says |
| HTTP client (`plugins/lib/http.c`) | handler, its connections and lookups; sources of the main loop, sockets | ask, lookup, connect, read, callback, free | libpurple, the plugins | callbacks of a handler that is freed, callbacks that ask again | each request is answered once or reports an error, nothing is called after the end |
| coincoin plugin (`plugins/coincoin/*`) | last messages, users of the room, timer | login, check, post, parse, close | HTTP client, chat room of libpurple | reads of a board that overlap, messages of one second | posts once and in order, who wrote is in the room, replies name the right person |
| gayattitude plugin (`plugins/gayattitude/*`) | account, buddy list | login, buddy list, messages | HTTP client | HTML of a site | - |
| settings, log, strings (`irc/settings.*`, `core/*`) | single values | - | - | none | - |

The hazards these parts are exposed to are listed, each at its line, in
`PROJECT.json`.

## Modules

| module | models | extends |
|---|---|---|
| `DaemonFork` | the master, its children and the protocol between them | |
| `DaemonFork_proofs` | type correctness, the connection limit, one session per user | `DaemonFork` |
| `Session` | one connection: registration, lines, ping, end | |
| `Session_proofs` | who is let in, what is announced, who is timed out | `Session` |
| `DccSend` | one file transfer to the user | |
| `AccountLink` | connection, reconnect timer and join queue of every account, across restarts | |
| `IrcNet` | nicks, channels, servers, and libpurple's pointers into them | |
| `IrcNet_proofs` | the maps and pointers agree | `IrcNet` |
| `ConvQueue` | the delayed messages of a nick or room and their timer | |
| `Ranks` | the subsequence of a sequence at a set of positions | |
| `QuestionQueue` | abstract: what the user is promised about questions | `Ranks` |
| `Requests` | the questions of libpurple; implements `QuestionQueue` | `Ranks`, instance of `QuestionQueue` |
| `Im_proofs` | timers and servers of the accounts; order and timer of the delayed messages; the question shown, forms and the refinement | `AccountLink`, `ConvQueue`, `Requests` |
| `DccGet` | the files the user sends, `IRC::dccs` and the nicks they are for | |
| `Dcc_proofs` | order and wholeness of a file to the user; no dangling transfer, files from the user handed over whole | `DccSend`, `DccGet` |
| `Config` | the configuration parser and, beside it, what a file means | |
| `Config_proofs` | the parser agrees with what the file means | `Config` |
| `HttpClient` | abstract: what a plugin is promised about its requests | |
| `Http` | the HTTP client of the plugins; implements `HttpClient` | instance of `HttpClient` |
| `Http_proofs` | no dangling source or socket, the refinement | `Http` |
| `Coincoin` | the coincoin plugin on top of that promise | `HttpClient`, `Ranks` |
| `Coincoin_proofs` | posts once and in order, the room, replies | `Coincoin` |
| `MCDaemonFork`, `MCSession`, `MCDccSend`, `MCDccGet`, `MCAccountLink`, `MCIrcNet`, `MCConvQueue`, `MCRequests`, `MCConfig`, `MCHttp`, `MCCoincoin` | instances for TLC: constants, symmetry | the module they are named after |

Definitions keep the names of the functions they translate where TLA+ allows it.
A definition introduced by a comment "Mutant:" is a wrong version of the
definition that follows it; nothing uses it except the mutation runs listed in
`PROJECT.json`, which put it in the place of the right one and expect the named
property to fail.

### DaemonFork

Master and children are forks of one object, so each process `p` has its own
copy of `childs` and of the user names in it (`childs[p]`, `username[p]`). A
socket pair is two bounded streams (`toMaster[c]`, `toChild[c]`); a write to a
full or broken stream is lost, as it is in `ipc_master_send()` and
`ipc_child_send()`, which log the error and go on. The end of a stream is what
the reader sees once everybody who holds the other end has gone. A step is one
dispatch of a GLib main loop (`ReadChild`, `ChildLeft`, `ReadMaster`,
`MasterLeft`, `StopServer`, `Exit`), a command of a client (`Register`,
`BecomeOper`, `Wallops`, `Die`, `ClientQuits`), a new connection (`Refuse`,
`ForkFails`, `Fork`) or a signal. `LostRace` is the callback that finds its
`child_t` gone. The last argument of a message is reduced to what happens to
its line: it passes, it is dropped by `Message::parse` because it is empty, or
its end of line lies beyond the 511 bytes `ipc_read()` peeks at. All three are in
`daemon_shutdown`: `DieClosesServer` excepts a DIE without a reason and one behind a
long line, `ChildReaped` a child whose stream a long line blocks, by name.

`logins`, `lost` and `cutOff` are history: the order of announced logins, the
children whose DIE could not be written, the children forked without a socket
pair. When `socketpair()` fails the child has no line to the master and the
master no `child_t` for it; what the properties promise holds until then, which
is why two of them begin with `cutOff = {}`.

### Session

`readIO()` is one callback that goes through all lines of a read, so `buf` holds
the lines it has not handled and every other action waits for it to be empty.
Each line is one action with everything the handler does, `sendWelcome()` and
the authentication included: `Verdict` is the order in which mechanisms are
asked and accounts made. `IM::IM()` makes the directory of the user before it finds that
libpurple cannot start, or is there already after a refused login ("twice"): such an
attempt leaves an account behind (`InitFails`). A write on a connection the client has reset may throw
(`MayFail`); `quit()` deletes the socket wrapper and arms the stop timer. Time is
counted in seconds up to the ping period. `last_read` starts uninitialised: `Init`
chooses it.

### DccSend

Sizes are in units, one piece of 512 bytes is `Chunk` units. The file grows while
it is read; the connection takes what fits, and `dcc_send()` does not look at what
`send()` returned. An acknowledgement may arrive in two halves, kept in `rxqueue`.
The history variable `missed` is set when a piece was read that the connection did
not take. Two variables are chosen by `Init` and never change: `total`, the size
libpurple has announced, 0 when it does not know it, and `sticky`, whether the C library
lets `fread()` go on after an end of file that has grown since (glibc does not). With a
size of 0 any acknowledgement counts as the last one, which `InOrder` excepts; with a
sticky end a transfer may stop at a place where the file once ended, which `NoStall`
excepts (`CutShort`).

### AccountLink

Every account has a link (`off`, `connecting`, `on`), a possible pending error
(libpurple reports it and calls `disconnect_cb()` from a timer later: `Dropped`),
and the three settings `account.cpp` keeps in libpurple: number of the timer,
delay, rooms to join. GLib's sources are a set of numbered records of which some
belong to the rest of the process, because the code names timers by number only.
`Restart` keeps the settings and loses the sources. A number saved by one account may
be that of another one's timer in the next process, which is then removed: `robbed`.

An ID is a protocol and a number. One the user types must be free among all accounts
(`IdFree`); the one he is given when he types none is the first that no other account
of the same protocol has (`DefaultId`). The server of an account is named by its username
and ID (`Name`), so two accounts may come to share a server: `clashed` are the names for which
this has happened in the running process.

### IrcNet

A nick is a record at an address; `nick[o] = Null` after `delete`. The maps
(`IRC::users`, `IRC::servers`, `IRC::channels`, `Channel::users`, `Nick::channels`,
`ConversationChannel::cbuddies`, `StatusChannel::accounts`) hold addresses or names,
and so do libpurple's `ui_data` (`bnick`, `cnick`). Every action is a callback of
libpurple or a command, with all the destructors it sets off. A nickname is what
`nickize()` made of a name and the number of underscores appended to it; three
people whose names give the same nickname make every collision happen. `Null` is
assumed to be none of the values a pointer or a nick can have.

### ConvQueue

Every nick with a conversation and every room is an entity with a queue, a conversation that
may be gone, and the timers GLib still holds for it. `sent` is what libpurple was handed, line
by line, each with the number of the message it was joined to; lines are numbered in the order
the user sent them. `JoinedLines` says of each line of a queue at once how many messages begin
up to it, which is what the loop of `flush_messages()` counts. A nick or room that is deleted
takes its messages with it (`Deleted`; `lost`, a history variable, remembers them). Nothing in
the code removes the timer, so it may find its entity deleted or without a conversation:
`FlushCrashes` stands for the use of the freed object and for the assertion of
`Conversation::sendMessage()`. `overtaken` is history: a line was sent while others waited,
which `enqueueMessage()` does when the delay has become 0. Lines of no characters, which
libpurple discards, are left out.

### Requests and QuestionQueue

The queue holds for each question which of its fields is asked next; the position
after the last one is the question itself (for a form, its confirmation).
`prompt` is what the nick "request" has displayed last and not closed, `handles` the
questions libpurple has open. An image is displayed and closed at once, which
displays the next field: `AfterImages`. The callback of an answer is libpurple's
code: it may ask one more question and close one, or all of a handle, before the
answered one is closed, the answered one included. `RequestNick::send()` then uses a
deleted request: `intact` becomes FALSE and the run ends there. What a withdrawal leaves
of a queue is its subsequence at the positions that stay (`Kept` of `Ranks`). In the abstract
`QuestionQueue` questions wait in the order in which they came and an answer goes
to the first; its queue is the questions of `requests`, its set of answered questions
those whose callback has run (a file is answered without asking the user).

### DccGet

A transfer is a `DCCGet` object with its client at the other end of the socket; `dccs`
is the list of the session. `disk` says for each path which transfer's `fopen()` made
the file and how much of it has left the buffer of `stdio`: bytes reach the disk when
they are read, later, or with `fflush()` and `fclose()`. A path is made of the file's name
alone, so a second upload of the same name truncates the file of the first, and
`mixed` says that both have written to it. `handed` is what the callback of the nick
gives to libpurple: a buddy's file, which libpurple reads later (`PurpleReads`), or an
icon, which the accounts read at once (`SetBuddyIcon`). `removeNick()` tells the
transfers of the nick; `removeServer()` deletes the nicks of an account and tells
nobody, which makes a transfer `stale`: what its callback then does is any of the
outcomes of a call on freed memory.

### Config

One action per kind of line, applied to `cur`, the section the line stands in. A
section is `<<label, 0>>`, a copy of a MULTIPLE one `<<label, n>>`. `stack` and `given`
are the specification: the brackets of the file give each line its block, and the
last value of an item in its block counts. They follow the file independently of
`cur`, and `RunsOnItsFile` compares the two once the file is accepted. The sections are
constants, a part of those `Minbif::Minbif()` defines; they are assumed to be at most
three deep, and no section stands in a MULTIPLE one (the copy would not be the
parent of what is in it), as in `core/minbif.cpp`; sections that stand in another are
not NORMAL, and "none", which `given` uses for an item not given, is no value. A value "stale" was
never set: `ConfigItem`s are not initialised. Types and bounds of items are reduced to
correct and incorrect values.

### HttpClient, Http and Coincoin

`Http` keeps two views of the same connections: the lists and fields of the handler,
and what the main loop and the kernel hold (`loop`, `fds`). `Destroyed` gives back what the
fields name, so a field reset too early leaves something behind and one reset too
late is given back twice. When libpurple has no connection to give
(`pending` is FALSE) or `write()` says EAGAIN, a request stays listed and nobody will call
for it. In the abstract `HttpClient` a request is pending until its callback is called
or it reports an error, and freeing the handler ends all of them. `Http` implements
it with the connections of the handler as pending requests.

`Coincoin` extends `HttpClient`: each of its steps that begins or ends a request is a
conjunction with a step of the contract, so it relies on nothing of `http.c` that the
refinement does not show. The board is the server's list of posts; an answer carries the posts
there were when the server wrote it. Posts have times; the clocks in their texts are what is
left of a time without its date (`ClockOf`: it recurs every `Day`), and a post comes in the
second of the one before, in the next, or a day later (`Gaps`). A post that lacks an element is
skipped (`Whole`); one whose login or message is empty, or that has no id or no time, makes the
plugin read NULL and ends the process (`Fatal`, `Crash`). The loop of
`coincoin_parse_message()` puts the new posts in front of the list one by one; `Flushed` says
what the list is in the end, where the number of a message within its second is its rank among
the new ones of that second, after the number of the first old one if that has the same time.
`shown` and `replies` are history.

## Runs

| run | instance | states | what it shows |
|---|---|---|---|
| `daemon_login` | 3 connections, 2 users, limit 2, streams of 1 message, HUP and crashes, `socketpair()` may fail | 663k | the limit and the rule of one session per user hold under every interleaving |
| `daemon_shutdown` | 2 connections, 1 operator, texts of every kind, TERM, fair loops | 47k | DIE ends master and children, dead children are forgotten, orphans notice |
| `session` | 2 names, 2 passwords, local only or every mechanism, 2 lines per read, ping period 2 | 661k | who gets in may, the announced name is the account, sessions end |
| `dccsend` | file of 6 units, of known size or not, pieces of 2, a connection that holds 3, end of file sticky or not | 53k | order, wholeness, no stall without a loss, the end once the user has left |
| `account` | 2 accounts of one username, 1 room, 2 IDs, 2 processes, 2 doublings | 244k | one known timer per account, none unwanted, servers match, retries happen |
| `ircnet` | 2 accounts, 3 people with one nickname, 1 room, 2 addresses besides the user's | 537k | all maps and pointers agree |
| `convqueue` | 1 entity of any of 4 classes, 4 messages of 3 kinds, delay on and off | 90k | messages leave once and in order or are lost with their entity, actions alone, one timer while they wait, none waits for ever |
| `requests` | 5 questions of all kinds, forms with images first, last and in between, 2 handles | 2.6k | the question shown is the one answered, forms are complete, the queue implements `QuestionQueue` |
| `dccget` | 2 uploads to a buddy or as an icon, 1 name each, files of 0 to 2 units and one unit too many | 211k | nothing points at a deleted nick but what `removeServer()` leaves, files are handed over whole and once, transfers end with their client |
| `config` | 3 sections, one of each type, 8 lines, 2 values, 2 loads | 433k | a process runs on what its last file says, operators have a name each |
| `http` | 3 connections, 2 lookups, plain and SSL | 17k | nothing the main loop holds outlives what it is for, `Http` implements `HttpClient` |
| `coincoin` | 2 requests, 2 people and the user, 3 posts, 2 listed, 1 kept, days of 2 seconds | 2.6M | posts once and in order, the room holds the authors, replies name the right person |

Why the bounds are enough. Three connections with a limit of two give a refused one, a place
freed and taken again, and a third login while two of the same user are in question; a stream
of one message is full and empty in turn. Two lines in a read make one that follows a QUIT or a
registration. The file has three pieces, the connection less than two, so that `send()` takes a
part of one. Two doublings arm a timer again after a failed retry; the second process is the
first that finds saved settings; `MaxId` leaves one or two timers besides the one or two other
sources of a process, so that its numbers may mean other sources than before; two accounts of
one username and different protocols, each with the ID of its protocol, come to share a server
when one types the other's ID while that one is deleted. Entities share nothing but the delay,
so one of each class is enough; four messages give two lines of text, something between them
and one that overtakes. The five questions have every form, and the two forms meet an image at
the beginning, twice in a row, in the middle and at the end. Two addresses suffice for a pair
of nicks that hold the same person (a buddy and the same person in a room, an unknown buddy who
becomes a known one) and for reuse of a freed address; a third one multiplies the states
without adding a pair. Symmetry (connections and users, addresses) is used only where no
temporal property is checked.

Two uploads meet in one path, in one nick or in neither; with two units a file has a piece
before its last one, and the client sends one too many. With two buddies the run only repeats
what one buddy and the icon already show, in ten times the time. Eight lines are enough for a
section with a block of each kind inside, or for two operators with a name each; a third load
would meet the same sections as the second. Three connections are one whose callback asks for
another while a third is under way. `CC_LAST_MESSAGE_MAX` (100 in the code) is 1 so that three
posts are purged, and `Listed` (the board's choice) is one more; a day of two seconds gives
three posts two clocks. `Paced` is an assumption, not only a bound: while an answer travels,
the newest of its posts is not yet pushed out of the board or of the list of messages. Without
it a very late answer shows posts twice; with 100 messages kept and a read every 30 seconds it
must be late by as many posts as the board lists, or by 100.

Deadlock is checked where somebody can always do something: the accounts, the HTTP client, the
board, the files from the user. In the others the system may really stop: the processes have
exited, the session is deleted, the transfer is over, the process has crashed, all questions
have been asked.

## Fairness

Weak fairness is assumed of the callbacks of a GLib main loop whose source is ready, and of
time: GLib polls every source in each iteration and dispatches all ready ones of the highest
priority; minbif registers its sources with equal priority and none is ready for ever without
being served. In `AccountLink` the 0 ms timer that calls `disconnect_cb()` is served before a
reconnect timer of at least 30 s is due, so `Dropped` does not compete with `Reconnect`.
`DccSend` also assumes that libpurple brings a transfer to an end and that a client that stays
connected reads what it is sent. In `DccGet` only the watcher of a socket that has something to
read is fair; a client that neither sends nor closes is allowed, and its transfer stays.
Nothing is assumed of users, new connections, signals, crashes or the network. `Join`,
`Connect` and the like are choices of the user and are not fair.

## Proofs

All proofs are for arbitrary constants that satisfy the module's `ASSUME`.

The bounds that make the runs finite are constants like the others, so the theorems hold
for every value of them.
Each proof is laid out as invariant, one lemma per action or group of actions that
disturb it in the same way, and a last theorem per property.

`DaemonFork_proofs`
* `TypeCorrect`: one lemma per group of actions.
* `MaxConHolds`: `new_client_cb()` compares `maxcon` with the number of `child_t`,
  not of processes. The inductive invariant is therefore `Tracked` (no child has a
  `child_t` of its own; while the master runs it has one for each live process,
  whose end of the pair is open) together with `Bounded` (both counts stay below
  the limit). `Tracked` needs the open end: it is why `ipc_read()` cannot see an
  end of stream and erase a `child_t` too early. Both hold until `cutOff` becomes
  non-empty, and `CutOffGrows` shows that it never becomes empty again. The counts
  use the library's facts on finite sets.
* `ReloginHolds`, `DuplicateLoginHolds`: `m_user()` compares the new name with the names
  the master remembers. The invariant `LoginInv` ties those to the users who are there:
  a connection without a user has said nothing (`Anonymous`), a stream carries one USER, as
  its first message and before the login counts (`UserOnce`), and a remembered name is the
  user of that connection, whose login is in `logins` (`Remembered`).

`Session_proofs`
* `AnnouncedHolds`, `TimeoutHolds`. `AnnouncedIsAccount` is inductive with the types;
  `TimeoutDeserved` needs that the flag PING is only set on a registered user who has owed
  a PONG at least as long as the ping timer has been running (`Pinged`), and that
  no line is handled after a timeout (`Cut`).
* `CredentialsHold`: the action property `CredentialsFit`, from what `Verdict` can answer for
  every order of the mechanisms.

`Dcc_proofs`
* `InOrderHolds`, for files, pieces and connections of any size. The units received and
  those on the wire stay in order because none is beyond `pos`, which never goes back
  (`Follows`), and are in the file because `pos` is (`Within`), for a size that is known or
  not and an end of file that is sticky or not. That a transfer of known size ended by an
  acknowledgement is whole needs that no half on its way, or kept in `rxqueue`, names
  more than the user has (`Honest`), and that as many rising numbers from 1 on as the
  file has units are all of them (`RisingWhole`). That lemma is an induction; it is done
  by taking the least counterexample, which the library's `WFMin` provides.
* `NothingDanglesHolds`, `HandedWholeHolds`, from one invariant `GetInv`: a watched
  transfer is listed, not handed over yet and has its nick unless `removeServer()` took it
  (`Listed`); one that was handed over has received all it was announced (`CompleteGet`); a file no
  other transfer shares holds what its transfer has written (`OnDisk`); each file went to
  one nick (`ToWhom`) and libpurple found what was handed over (`WholeGet`).

`Im_proofs`
* `TypeCorrect`, `TimerTrackedHolds`, `QuietHolds`, `ServersMatchHolds`.
* The inductive invariant `LinkInv` is `TypeOK`, `TimerTracked`, `QuietWhenUnwanted`
  and `LinkWanted`. `TimerTracked` alone is not inductive: MAP add gives an account
  fresh settings, which would lose the number of a timer left from a deleted one, so
  it needs `QuietWhenUnwanted`; that one needs to know that only an enabled account,
  or one whose fatal error is already reported, has a connection whose failure could arm
  a timer: `LinkWanted`. `ServersMatch` follows with `LinkWanted` (the servers
  of a deleted account have gone) and with the fact that a name two accounts have is in
  `clashed`: any other name belongs to one account, so its server goes with that connection only.
* `OneTimerHolds`, about the messages of the conversations (`ConvQueue`): `OneTimer` is
  inductive with the types of the queue, of the number of timers and of the counter that
  numbers messages (`TimerInv`). What has been sent plays no part; of what was lost with
  an entity it counts that it was not nothing.
* `EachOnceInOrderHolds`: `OrderInv` counts what was sent and what waits, or was lost with the
  entity, together. They are as many lines as were accepted and every number is among them,
  which makes each occur once; while nothing has overtaken, the k-th of them is k; and the
  messages that lines were joined to are numbered upwards, where only lines of text share one
  (`PartsWell`). That a flush keeps the last is a fact about `JoinedLines`: the number of
  messages begun up to a line never falls, and rises at every line that is no text or follows
  none.
* `PromptIsFirstHolds`, `FieldsCompleteHolds`: as long as the system is `intact`, under
  `RequestsInv` the queue holds each handle libpurple has open once (`QueueOf`); a question
  that waits has a value for each field before its position that is no image, and its callback
  has not run (`WaitingWell`); what was displayed is the first one, where it stands now
  (`Prompted`). The second is what makes a form complete when its confirmation is answered, and
  a callback run once. That there is a next field to display (`AfterImages` exists) is a least
  element, and what a withdrawal leaves is shown to be a queue again, in the same order, by the
  facts about `Rank` and `Nth`.
* `AnswersInOrderHolds`: `Requests` implements `QuestionQueue`. Taking the names out of the queue
  commutes with taking questions out of it, since the same positions stay; each
  action then maps to `Ask`, `Withdraw` or `Answer`, and to a stutter where the user answers a
  field, is asked again, or libpurple asks for a file (which no user sees).

`IrcNet_proofs`
* `UsersExactHolds`, `ChannelsAgreeHolds`, `PointersAgreeHolds`, `ChannelsShowHolds`. The four
  are inductive only together, and with three more facts that make `NetInv`. `Kinds` says
  what each kind of nick is: which server it has and which channels it can be on. Without
  it, the destructors that leave the channels of a nick could empty any channel.
  `RoomsKept` says that a room has its channel only while its account is connected and
  keeps no member without it, so that a channel made again starts empty. `StatusKept`
  says that the status channel exists while an account has it.
* Most actions are compositions of few effects. There is a lemma for each: nicks are
  deleted together with all that names them, a nick is made, a nick or the user goes
  from some channels to others, conversations are let go. An action is then shown to be
  one of these, or two in a row.
* That `addNick()` finds a nickname nobody bears (`FreshNameFree`) is a count: there are as many
  names of one base as addresses and one more, and names in use belong to different
  nicks. The least free number of underscores exists by `WFMin`.

`Http_proofs`
* `NothingDanglesHolds`: the sources of the main loop and the open sockets are all named by
  a field of a listed connection or by a listed lookup (`Named`), which is what
  `http_connection_destroy()` and `http_handler_free()` go by.
* `ClientImplemented`: `Http` implements `HttpClient`. The initial state maps to the
  initial state, and each step, under the invariant, to a step of the contract or to none.

`Config_proofs`
* `RunsOnItsFileHolds`, `CopiesNamedHolds`. The invariant is only claimed while no error has
  been printed, since an error ends the process: the sections and numbered copies that
  exist (`Shape`), where a line can stand (`Place`), that only the copy the line stands in can
  lack a name and no two share one (`Named`), and the agreement of the parser with the
  brackets of the file: the same blocks (`Blocks`), the same values (`Found`), and the open
  blocks standing in each other down to `cur` (`Path`).

`Coincoin_proofs`
* `ShownOnceInOrderHolds`, `RoomIsAuthorsHolds`, `ReplyNamesNickHolds`, for any number of requests
  that overlap, posts, messages kept and posts listed, from one invariant `ChatInv`. Posts and
  messages are in the order of their times, and a message's time and number within its second grow
  along the list (`ListWell`). Of each answer in flight, its newest whole post is either newer
  than all messages or one of them (`Fresh`), so `coincoin_parse_message()`, which stops at the
  first post it knows, stops where it should. It stays so through the purges of other answers
  because they leave `CC_LAST_MESSAGE_MAX + 1` messages and `Paced` bounds how far an
  answer is outrun: the proof needs `Paced` in the actions that lengthen the board and nowhere else.
  `ReplyNamesNick` needs that the clock and number given for a message, in a post on its
  way or already on the board, are borne by no other message of that time now, and by none that
  will come, since those are above it (`Claim`). Only a message of another time with the same
  clock can be found in its place, which is the exception the property names.
* The lemmas about `Flushed` follow the ranks of the new posts: the list after an
  answer is the new posts, newest first, and then the old list.

Each proof module states the few facts about `Ranks` it needs: ranks grow along a set, and
`Nth` is their inverse. They are had by counting and, where an induction would be used, by
least counterexample (`WFMin`).

Each inductive invariant was also checked by TLC on the instance of the component's run
(that of `Http` with its quantifiers over the numbers of sources bounded).

Only model-checked:
* all liveness (`DieObeyed`, `DieClosesServer`, `ChildReaped`, `MasterMissed`, `QuitEnds`,
  `SilentDropped`, `NoStall`, `LeavingEnds`, `Ends`, `ComesBack`, `NoneWaits`): the prover does
  not reason about fairness and ENABLED.

Every invariant, every action property and both refinements that a run checks are also
theorems. The types of the components are part of the invariants, and so proved.

## What is not modelled

* `DaemonFork`: SIGCHLD and `waitpid` (zombies only), a second SIGTERM after
  `SA_RESETHAND`, binding the listening socket, lines split over two reads.
* `Session`: TLS, the PAM conversation, SET password, commands that only print.
* `AccountLink`: a crash before libpurple has saved; `account_signed_on_cb` and
  the mark `want-to-rejoin` it looks for, which is never set because libpurple marks
  the rooms as left first; overflow of the delay after some 18 doublings; statuses,
  aliases, icons, deny lists.
* `IrcNet`: the list of nicks in `Server`, modes and topics of channels, the
  deletion of an account as one step; DCC transfers that point at nicks are in `DccGet`.
  libpurple's calls of `update_node()` right after a connection are steps of their
  own, which only adds interleavings.
* The other parts of the inventory: see the component list in `PROJECT.json`.

* `ConvQueue`: how long the delay is, the conversion of a line to markup, `/me`.
* `Requests`: notifications, which are printed; what an answer says.
* `DccGet`: the acknowledgements written back to the client, which nothing depends on;
  how the name and address of a DCC SEND are parsed; descriptors.
* `Config`: comments, quotes and spaces of a line; the types of items.
* `Http`: headers, cookies, chunks and compression. `Coincoin`: markup, totoz, the
  conversion of character sets; clocks without seconds.
* `plugins/gayattitude`: unfinished, and mostly the extraction of HTML.

## Disagreements

Where the code does something else than its comments, its documentation or its user
would expect. The models follow the code: no property of a run excludes these, and the ones
that a property would otherwise forbid are excepted in it by name.

* a WALLOPS that is longer than the 511 bytes `ipc_read()` peeks at stays in the stream
  for ever, with every later message of that child and its end behind it
  (`src/server_poll/daemon_fork.cpp:334`; line 275 says "Send a message to every minbif
  instances."); `Blocked` in `ChildReaped` and `DieClosesServer`;
* a DIE without a reason, `DIE :`, passes `IRC::m_die()` and reaches the master, which drops it,
  as the empty argument is lost on the way (`src/server_poll/daemon_fork.cpp:395`); the
  server stays up (`DieClosesServer` excepts it);
* two accounts of different protocols can have one ID, because `getNewAccountName()` compares the
  accounts of one protocol only (`src/im/purple.cpp:270`), and with one username they share a
  server (`src/im/account.cpp:487`): the first one to disconnect removes it, and MAP uses the
  null pointer it gets for the other (`src/irc/cmds_accounts.cpp:392`, 412). `getAccountsList()`
  keeps only the later one of two accounts with one ID; the model lets commands reach
  either. `ServersMatch` leaves out such names (`clashed`);
* a reply to a clock names who posted at that hour, minute and second on any day, the last
  one it finds in the list (`plugins/coincoin/message.c:312`; so does the hour that
  comes twice when summer time ends): `ReplyNamesNick` excepts him;
* the callback of an answer may make libpurple close the very question it answers, and
  `close()` then runs on a deleted request (`src/im/request.cpp:79`); `intact` in `Requests`;
* when libpurple does not know the size of a file, the first acknowledgement ends the transfer
  (`src/irc/dcc.cpp:246`); `InOrder` excepts it. An empty file is never acknowledged, so its
  transfer lasts until the user leaves;
* `dcc_send()` stops at an end of file that it has met while the file grew, where the C library,
  like glibc, makes it sticky (`src/irc/dcc.cpp:197`); `NoStall` excepts it;
* the number of a reconnect timer, saved by one process, makes the next one remove
  whatever source has that number (`src/im/account.cpp:579`): that of another account, which
  `ComesBack` excepts (`robbed`), or any other;
* `disconnected()` runs also for a connection that was never established and begins with
  `abortChannelJoins()`: when the first attempt to reconnect fails, the rooms to rejoin are
  forgotten (`src/im/account.cpp:1237`; ChangeLog:145 says "Auto-rejoin channels when
  disconnect/reconnect to an IM account");
* nothing removes the timer of the delayed messages with its nick or room: when the user
  leaves in between, the messages are lost and `flush_messages()` runs on a deleted
  object (`src/irc/conv_entity.cpp:40`; `lost` and `FlushCrashes` in `ConvQueue`; `OneTimer` and
  `EachOnceInOrder` name what is left behind);
* a stranger who calls himself like a buddy's nickname is taken for that buddy
  (`src/im/conversation.cpp:437`; line 444 says "Ok, there isn't any buddy, so I create
  an unknown buddy to chat with him.");
* `removeServer()` deletes the nicks of an account without telling the transfers to
  them, so a callback of `DCCGet` may run on a deleted `Buddy` (`src/irc/irc.cpp:357`;
  `src/irc/dcc.cpp:402` says "IRC user left, can remove transfert."); `stale` in `DccGet`;
* `DCCGet`: the end of the connection leaves the socket open ("fd is already closed",
  `dcc.cpp:362`, is not so); a failed `connect()` has truncated the file and leaves it
  open; a file of size 0 is never handed over; nothing times out; two uploads of one
  name share a path (`src/irc/buddy.cpp:159`), which `HandedWhole` excepts; with
  `file_transfers` off, `process_dcc_get()` swallows every message to a buddy;
* the result of `ConfigSection::FindEmpty()` is not used: a file without a required item is
  accepted and its value is not initialised (`src/core/config.cpp:275`);
  `RunsOnItsFile` leaves such items out;
* a file that is missing or wrong at SIGHUP ends the process, and `Minbif::rehash()` goes on
  after its `quit()`; the operator's REHASH only relays the message and never
  reads the file;
* `coincoin_check_new_messages()` returns nothing where GLib expects whether to go on
  (`plugins/coincoin/coincoin.c:64`): the board may be read once or for ever (`CheckTimer`);
* after EAGAIN on the first `write()` no one waits for a request any more
  (`plugins/lib/http.c:325`, 350), and no request has a timeout: a message posted
  in this way is lost without a word;
* the number of a message within its second is counted from the first message read, so
  it differs from that of others who have read more of the board
  (`plugins/coincoin/message.c:398`).

Seen while reading besides:
* a failed `socketpair()` leaves the child with the `child_t` it inherited and
  takes it out of the count against `maxcon` (`src/server_poll/daemon_fork.cpp:228`);
* a post of the board whose login or message is empty, or that has no id or no time, makes
  the plugin read NULL (`plugins/coincoin/message.c:149`, 168, 258, 364; `Fatal`);
* a login that fails because libpurple cannot start leaves the directory of the user, hence an
  account without a password (`src/im/im.cpp:72`);
* a failed `fork()` leaves the socket pair open (`daemon_fork.cpp:188`);
* lines that follow a QUIT in the same read are executed, and may still register the
  user, which makes the master disconnect his other session (`src/irc/irc.cpp:531`);
* `User::last_read` is not initialised (`src/irc/user.h:32`);
* `dcc_send()` ignores what `send()` returns (`src/irc/dcc.cpp:200`), and a user who closes the
  connection leaves the descriptor open (`dcc.cpp:215`);
* a progress report before the user is connected makes `dcc_send()` read a piece and
  send it on the listening socket: it is lost and the transfer never ends
  (`dcc.cpp:199`; the history variable `missed` of `DccSend`);
* a negative send_delay makes a timer of some 49 days (`src/irc/settings.cpp:89`);
* a field of type list without items cannot be answered, and every later question
  waits behind it (`src/im/request.cpp:756`); two items of one name make the second
  one be selected under a changed name (`request.cpp:149`, `request.cpp:681`);
* `renameNick()` enters a nick into its server's list a second time, and the second entry
  outlives it (`src/irc/irc.cpp:225`), which MAP then reads;
* a change of the user's own name in a room uses a null pointer
  (`src/irc/conversation_channel.cpp:115`; the action `RenameMe` ends the process);
* the timer of `check_channel_join` is not cancelled with its session
  (`src/irc/cmds_channels.cpp:353`).

## Plan

Done, in the order of importance: `DaemonFork`, `Session`, `DccSend`, `AccountLink`,
`IrcNet`, `ConvQueue`, `Requests` with its abstract specification, `DccGet`, `Http` with
its abstract specification, `Coincoin`, `Config`; the proofs of all their invariants and
refinements. Next, in this order:

1. `IrcNet`: the lists of nicks in `Server`, the modes of channels and the statuses
   of accounts (`im/account.cpp`, `irc/channel.cpp`).
2. `Session`: SET password and the settings of `irc/settings.cpp`; the TLS wrapper
   as a second implementation of what `Session` expects of a socket.
3. An abstract specification of the server poll (one session per user, at most
   `maxcon`) that `DaemonFork` implements.
4. The frame queue of `im/media.cpp` that the main thread shares with GStreamer's.
