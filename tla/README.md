# A TLA+ verification of 42-Common-Core

The repository holds fifteen independent programs, numbered `0x01` to `0x15`.
This directory is a verification project for those whose correctness depends
on the order of events: threads and mutexes, callbacks that await a database,
pages whose requests overlap, connections that come and go. It has

- TLA+ modules that translate the control of these programs,
- TLC configurations that check them on small instances,
- theorems that hold for every value of the constants, with proofs for TLAPS,
- `PROJECT.json`, the machine-readable index: the components, the runs, the
  lines of source behind every definition (`map`), a mutant for every property,
  the hazards and the disagreements that were found.

To check a module with TLC: `tlc -config Irc_safety.cfg MCIrc.tla`; to check its
proofs: `tlapm UnixProof.tla`.

1. [Inventory](#1-inventory)
2. [Modules](#2-modules)
3. [Runs, bounds and fairness](#3-runs-bounds-and-fairness)
4. [Proofs](#4-proofs)
5. [Disagreements between the code and what is said of it](#5-disagreements-between-the-code-and-what-is-said-of-it)
6. [What is not modelled](#6-what-is-not-modelled)
7. [Plan](#7-plan)

## 1. Inventory

The programs share no state and exchange no messages; only the parts of
Transcendence interact. "Correct if" names what has to hold, not what was found.

### 0x08-Philosophers: threads and mutexes — modelled

- **State**: one mutex per fork; the mutexes `died`, `msg`, `checkdeath`,
  `times`; the shared flag `*die`; of each philosopher the time of its last meal
  (`count_die`) and the meals that are left (`nbr_of_times_eat`).
- **Operations**: each philosopher thread runs `find_your_self`: take the forks,
  eat, think, sleep, and print each time through `put_mssg`. The main thread runs
  `check_if_died`: look at the meal counters (`check_times`), then at the last meal
  of one philosopher after the other; announce a death and return, which ends the
  process with its detached threads.
- **Interaction**: only through the mutexes and what they protect.
- **Hard**: every interleaving of the locks; locks that an early return keeps;
  time that passes whatever the threads do.
- **Correct if** neighbours never eat together; a death is announced only of a
  philosopher that has starved, once, on the last line; a death or the last meal
  ends the process.

### 0x14-IrcServer: one thread, many connections — modelled in part

- **State**: `pfds` (the descriptors that are polled), `Clients` by descriptor,
  `Channels` by name, each with members, permissions and invitations by
  descriptor, a mode, a key and a limit; an input parser per client.
- **Operations**: accept; `recv`, then one command of one client: PASS, NICK,
  USER, JOIN, PRIVMSG, INVITE, KICK, MODE, TOPIC, PART, QUIT; the end of a
  connection; SIGPIPE, which `main` handles by exiting. `CBOT` is a client with
  a calculator.
- **Hard**: descriptors are reused, and the three tables that are keyed by them
  are updated in different places; rights depend on long histories; iterators are
  used after an erase; commands that share a segment.
- **Correct if** the tables agree; nicknames identify clients; only those enter a
  channel whom its mode lets in; the operator's right is only given by operators.

### 0x15-Transcendence: game server, chat, accounts, front-end

The backend is one Node process. Callbacks of sockets, requests and timers run one at a
time and give way at each `await` of the SQLite database. The front-end is a React
application; each tab keeps one socket, whose events the game server
(`game/socket.js`) and the chat (`chat/socket.js`) both handle, and sends requests with
`fetch`. What a page believes is a copy, made at some time, of what the server had.

**Casual matches.** `MatchmakerService` keeps the queue and `autoMatchId`;
`GameSessionService` keeps `activeMatches`; a `Match` has two players, a status, a timer
and goals; table `Games` and the scores of `Users` keep the results, from which
`game.js` and `gameController.js` compute histories, counts and levels. Events:
`matchmake`, `matchmake::pvp`, `im_left`, `disconnect`; the timer that begins play; the
goal that ends it. *Hard*: each event may come at any moment of a match or of another
match of the same player; a match ends in three places (`endMatch` twice,
`match_someOneWins`). *Correct if* a match is prepared, then given up or played and
decided once, gives one row of `Games` and one prize, and profiles tell it as it was.

**Online game.** The match as the server plays it frame by frame (ball, walls, paddles,
goals), the packets to the tabs, and the pages of search and game, with profiles fetched
meanwhile. *Hard*: packets of one match are heard by the page of the next, or come before the
page listens to them; handlers of keys keep the values of the render that made them. *Correct if*
whoever sees a verdict sees the one that was stored, with its score; keys that are held reach the
match; no ball is too fast for a paddle.

**Local game.** Two players at one keyboard; everything is in one tab. *Hard*: the
winner is found by effects that run after a render, while frames go on; scores, pause
and names live in the layout and outlive the page. *Correct if* the verdict matches
the score, each game starts at zero, every game comes to its end.

**Tournaments, lobby and pages.** `TournamentService` keeps `activeTournaments`; a
`Tournament` has players, free slots and a status. Events: create, join, leave,
disconnect; the pages ask, listen, and leave when their path changes. *Hard*: each
handler awaits the database between a test and what depends on it; a tab may lose its
connection. *Correct if* a tournament starts once and is never overbooked, its
players are those who think they are in it, and the field does not change once it is played.

**Tournaments, bracket.** Rounds with players, matches and a counter of matches;
`startooo`/`start` pairs the players of a round, `someOneWins` carries a winner over and
closes the round. It is called by `match_someOneWins` and by `endMatch`, which is the
same code as for casual matches. *Hard*: players leave before, during and after their matches, while
the database is awaited, or when all are gone. *Correct if* the prize is given once;
the final follows both semifinals; a match has one row; the page tells who is out.

**Chat.** `onlineUsers` and `online_players` hold the sockets of users; tables
`Messages` and `BlockedUsers`; events `privateMessage` and `gameInvite`; the page with
its conversation, badges and buttons; table `Logtime`, which the end of each session
of the game server adds to. *Hard*: blocks are asked before an await and what they
protect is done after several more; a user may have several tabs. *Correct if* a block
holds, every sender is answered once, a user is online while the game server has its tab,
pages show what is stored, and the chart shows time that was spent.

**Friends and notifications.** Tables `Friendships` and `Notifications`, the profile
page with its button, the list of requests, the bell. *Hard*: the status is read,
awaited and inserted on; the lists that a user acts on are old; a notification comes over two
connections. *Correct if* friends have both wanted it, and nothing is shown twice.

**Accounts and tokens.** Registering, signing in with a password, a code or Google;
codes and links by mail; password, second factor and deletion; access and refresh tokens.
*Hard*: handlers decide on a row as it was when they read it, several browsers act on
one account, tokens expire between a request and its repetition. *Correct if* a call that is barred all
along fails, whoever is signed in has proved the address, a password is changed only by who may,
and an access token that expires costs nobody the session.

**Settings, search, messages.** Names, language and pictures of a user, with the copy in
the tab's context; the search in the header; the toasts. *Hard*: requests overlap, fail and
overtake each other; timers outlive what they were set for. *Correct if* what the page shows is stored,
the results fit the text, and the newest message stays in view.

**Display, vault, nginx — not modelled**: pages that fetch once and show what they got;
configuration of services.

### The other programs — not modelled

| program | state and operations | hard | correct if |
|---|---|---|---|
| 0x01-Libft | pure functions on strings, memory and lists | arithmetic at the bounds of `int` | agrees with the C library |
| 0x02-Printf | formats to standard output | none beyond I/O | prints what `printf` does |
| 0x03-GetNextLine | the rest of the last `read`, per descriptor | lines across reads, end of file | the lines of the file, for every size of buffer |
| 0x04-Born2BeRoot | a script that prints figures | none | – |
| 0x05-MiniTalk | two processes, one bit per signal, a counter of bits in the receiver | signals merge while one is pending; two senders | the receiver prints what was sent |
| 0x06-PushSwap | two stacks and their operations | long sequences of operations | sorts every permutation |
| 0x07-SoLong | map, position, collected items | the flood fill that decides whether the map can be won | accepts only maps that can be won |
| 0x09-MiniShell | lexer, syntax tree, processes and pipes of a pipeline | order of `fork`, `close`, `wait`; signals | no pipe stays open, the status is that of the last command |
| 0x10-Cub3D | ray casting over a map | geometry | – |
| 0x11-NetPractice | saved answers, no code | – | – |
| 0x12-CppModel | exercises; RPN, `Span`, Ford-Johnson sort | evaluation order, bounds | agrees with a definition |
| 0x13-Inception | start order of containers | a service before what it needs | every service finds what it needs |

## 2. Modules

An arrow points from a module to the one that extends it.

```
Philosophers --> PromptPhilosophers                threads, then with a clock that they keep up with
MatchLife ~~~ Matchmaking --> MatchHistory --> MCMatchmaking     (~~~ is implemented by)
MatchHistory, LocalGame --> GamesProof
Bracket --> MCBracket                              a tournament that is played
        --> BracketProof
Lobby --> TournamentPages --> MCTournamentPages    a tournament that fills up, and its pages
                          --> LobbyProof
OnlineGame --> MCOnlineGame                        the loop of the server and two pages
           --> OnlineProof
LocalGame --> MCLocalGame                          one page, one keyboard
Irc --> MCIrc
Philosophers, Irc --> UnixProof                    the two programs in C and C++
Notifications --> Friends --> MCFriends
                          --> FriendsProof
Presence --> Chat --> ChatPage
         --> LogTime
                      ChatPage, LogTime --> MCChat, ChatProof
Users --> Accounts --> AuthPages
     AuthPages, Settings, SearchBox, Toasts --> MCAccounts
                                            --> AccountsProof
```

A definition with a comment that begins with "fault" is the code with a plausible
bug in it; `PROJECT.json` names the definition that it stands in for, and the
property that this breaks. Nothing else uses these definitions.

Everywhere in Transcendence an action is what a callback does up to its end or
its next `await`; sets and sequences named for their operation (`calls`, `creating`, `requests`, `writes`)
hold the callbacks that wait. Answers and packets that are under way have variables of their own wherever
something may happen before they are taken.

### Philosophers, PromptPhilosophers

An action is a `pthread_mutex_lock` with the code up to the next lock, sleep or
return. `at[p]` is the place in `find_your_self`, `saying[p]` the one in `put_mssg`,
and each mutex is a variable that holds its owner. `LockMsgAndReturn` is the early
return of `put_mssg` that keeps both mutexes (utils.c:36). `CheckTimes` reads the
counter of the first philosopher for all of them, as the loop in `check_times`
does (died.c:23), and the line of a death names the first one (died.c:55).

Time is relative: `since[p]` counts the ticks from the last meal and saturates at
`TimeToDie`, beyond which no test of the code distinguishes; `rest[p]` is what is
left of a `my_usleep`. In `Philosophers` a tick may come at any moment, so a
thread may be delayed for any time. `PromptPhilosophers` restricts the ticks to
moments when every thread waits and the monitor has gone round: the machine
on which the examples of the README are meant.

### Matchmaking, MatchLife, MatchHistory

None of the callbacks modelled in `Matchmaking` awaits anything.
`Matchmake` is `addPlayer` with the `tryMatch` that follows it; `NewMatch` is
what `tryMatch` and `requestPVPMatch` share; `Walkover` and `Abandon` are the
branches of `endMatch`, taken from `PlayerLeaves`, with the statuses as they are at
that moment. Clients may send any event at any time: a player in the queue may
queue again, play another match meanwhile or be its own opponent, as nothing
in the code keeps it from that. A `Player` object belongs to one socket, so a user
that returns is a new session.

`MatchLife` is what the server promises of its matches: prepared, then given up, or
played and decided once for one side, then nothing. `KeepsMatchLife` maps
`stage` to itself and the rows of `Games` to the verdict.

`MatchHistory` adds what is written and read of it. Whoever decides a match asks `createGame` for a row (`CreateGames`), with the winner as
`match_someOneWins` passes it (an object) or as `endMatch` does (an id); the row is there at some later moment (`RowWritten`) and only then is
`addScoreToPlayer` asked for, which is answered later still (`ScoreAdded`). `writing` and `paying` are the statements under way, `games` and `score`
the tables, in which the statements of several matches interleave. A statement may fail instead, which nobody catches: the process ends
(`StatementFails`, `running`). Tournaments write to the same tables: `TournamentGame` is a row with a `tournament_id` (`TournamentRows`), `TournamentPays` a
prize, added up in the history variable `prizes`; what they depend on is in `Bracket`. The cards show the rows without a `tournament_id`
(`CasualRows`), 50 at most (`HistoryLimit`), while the counts are over all rows; `ProfileAddsUp` says what they have to do with each other at every moment.
Rows are ranked, not sorted: `Newest` is the j-th row in `ORDER BY g.time DESC`. `Earned` reads what every user has won off the results of the matches.

### Bracket

One tournament of four from the moment it is full. `Init` is the state in which
`updateTournamentStatus` is awaited before `startooo`. `Start` is `start` with
`addPVPMatch` for each pair; `Won` is `someOneWins`, split in `Counted` and `Advance`;
`Default` and `Walkover` are the branches of `endMatch` for a match of a tournament,
which stays in `activeMatches` when it is over. What leaves: `ImLeft`,
`LeaveTournament`, and `disconnect` in three forms, by where the callback gives way:
`DropOut`, `DropOutAfter` with `Depart`, `Disconnect`. A `TypeError` in a callback
ends the process (`Crash`). `Seats` and `Dimmed` are what the page of the bracket computes from the
data of `getBracketData`.

### Lobby, TournamentPages

`Lobby`: create, join, leave and disconnect, cut at their awaits: `Create`/`Created`,
`Join`/`Joined`/`Start`, `Disconnect`/`Closed`. The sets `creating`, `joining` and
`starting` hold the callbacks that wait. `players` is the array of a tournament: its entries are numbered for each
player (`Copies`), as `addPlayer` pushes one that is listed already: who asks for a tournament, joins another one before its
awaits end and comes back to it stands there twice. `RemovePlayer` goes by the id of the user, takes all its entries
and gives back one slot, as `removePlayer` does.

`TournamentPages` adds tabs. A tab has one socket object with one session of `Lobby` after the
other; `page`, `path` of the last effect and the queues of packets in both directions are its state.
`Navigate` with the effect of `SocketContext` sends what leaving a page sends; the `On...` actions are
the server's listeners, which call the operations of `Lobby`; the `After...` actions are
what the tab does with a packet. A session without a tab (`NoTab`) is a client that sends any event at
any time.

### OnlineGame

`Frame` is one turn of `Match.loop`: the paddles (`Pushed`, which is `input_handle`), the step of the ball (`Fly`), the hits
(`Hit` with `Beside`, `Touches` and `Offset`, which is `collision_detection`), a goal and its packets (`Scorer`, `Serve`, `News`), and the walls (`Fall`), in
integers of a coarse unit that keep the code's order of tests; `Spin` is the divisor of the offset of a hit. `outbox[d]` and `inbox[d]` are the packets
from and to a tab, in order. The search and the page of the match listen to different ones; what comes while the other page, or none, is shown is gone (`Deaf`, `Unheard`).
`AfterStart` asks for the page of the match, and `Mount` shows it some packets later: its effects name the players by the `vid` of that moment (`named`), make
the handlers of the keys (`bound`, renewed by every change of `lastPress` in `Press`) and begin to listen. `Search`, `Leave`, `KeyDown`, `KeyUp`, `Profile`, `Dialog` are
what else the pages do. `held` are the keys that are down, `pressed` the flags of the server, `vid` the side that the page believes it has. The header pairs
scores and names by the `vid`, the dialog scores by the `vid` with the names of the mount: `Card(d, place, names)` is either. Two
histories say when a page cannot be right: `missed`, a goal was told before the page listened, and none since; `late`, a
profile was on its way when the page came. The game server queues and
challenges as in `Matchmaking`; here two players are enough to follow a match through both pages.

### LocalGame

A callback sets state (`view`), `Render` draws it (`rendered`), and `Effects` runs the effects whose dependencies have
changed since they last saw the state (`seen`); `Frame` comes in between, with the state that its closure has. `Countdown`, `Second` and
`Dialog` are the intervals, `Leave`, `GoOnline`, `OpenCreate`, `Play` the ways in and out of a game. `Show` is a change of pages in the order
of React: the new page is rendered with the context as it is, the old page cleans up (`CleanUp`), the first effects of the new page run with what was
rendered. `carried` is a history variable, the score that the page was first rendered with; `Inherits` is a game that such a score decides. `TableAssumption` says what the sliders of the settings guarantee about a table: speeds
10 to 20 and a column of 20, balls of 20 to 35, paddles of 100 to 150, a table of 960 by 640. A ball is then not faster than the column is wide
and is not over both columns at once, and a hit turns it by no more than its radius.

### Irc

An action is one turn of the loop in `MonitorClientMovements` with the handler it
calls. `polled`, `clients` and `channels` are `pfds` and the keys of the two maps;
they are separate variables because the code updates them separately: a wrong
password leaves its entry in `Clients` (`WrongPass`), a lost connection leaves its
descriptor in the channels (`Disconnect`), and accept takes the lowest free
descriptor. `QUIT` erases its client, and its `continue` goes round the loop with the same entry of `pfds`:
two actions, `Leave` and `GoRound`, with the entry in `again` between them. `GoRound` reads and writes through
`Clients.end()`, so `MayCrash`. So is
a send to a client that has hung up: `main` exits on SIGPIPE, when the kernel has
noticed. `gone` is the set of those clients, and `left` is a history variable: what lost connections have left in which channel.
Modes are the flags `i`, `k`, `l`; `t` is left out, since TOPIC asks for an operator in
any case.

### Notifications, Friends

`notes` is the table `Notifications`; of each browser `bell` is the copy, `edits` the requests that the bell
has sent. A copy is changed before the server knows of it (`MarkRead`, `Delete`, `ClearAll`), and filled by
`NotesArrive` and by events. `rows` is the table `Friendships`; a call of add
is `PressAdd`, `Test` (the status), `InsertRow`, `NoteRow` or `NoteFails`, `Answer`; `profile` and `list` are
what the pages have fetched, and only what they show can be pressed. `wanted` is a history
variable: who has asked or accepted whom.

### Presence, Chat, ChatPage, LogTime

`Presence` has the two tables and the order of the two handlers of a connection, which depends on
whether the game server accepts the tab; `Removed` is the end of the await in its disconnect. `Chat` cuts
`privateMessage` and `gameInvite` at each query (`Handler`), any of which may fail; a call carries `barred`, a history
field that tells whether a block has stood since it was sent. `ChatPage` is what a tab shows, fetches, marks and
presses. `LogTime` adds the calls of `updateLogtimeOfToday`, which nobody waits for, `Midnight`, and the chart.

### Users, Accounts, AuthPages

`Users` is the table with the columns that signing in reads and the queries on them.
`Accounts` has one handler for each route; `calls[b]` is the call of browser `b`, with the query it does next, the row that it has read,
and its answer. `AuthPages` has what the browsers do: forms, storage of tokens, `fetchWithToken` with its refresh and repetition, and
where the pages go. `Breaks` is a query that fails or a network that does, at any step before the answer; its status 0 stands for every such end. A token is a number; `Expire` makes one useless. `barred` says that a call has had the wrong
password (or met only accounts with a second factor) at every moment since it was sent.

### Settings, SearchBox, Toasts

`Settings`: `stored` is the row, `uploads` the files, `tab` the context, the form and its timers, `requests` the slots of requests that
may overlap; each is served, refused or broken off, and then taken by whatever form is mounted by then. A save
whose form is gone ends without effect (`Left`). `SearchBox`: text, the text that waits for the pause, the searches under way, results and
overlay. `Toasts`: the reducer of `use-toast.ts` with its limit, `toastTimeouts`, and the timers.

## 3. Runs, bounds and fairness

| run | instance | shows |
|---|---|---|
| philo_safety | 2 philosophers, 2 meals, any scheduling | exclusion, true deaths, the death on the last line |
| philo_prompt_four | `./philo 4 410 200 200`, two meals, ticks of 100 ms | the meals end the process, so nobody dies first |
| philo_hang | 2 philosophers, no limit | *violated*: a death that never ends the process |
| match_safety | 3 users, 4 connections, 2 matches, one goal to win | `MatchLife`; scores, counts and cards agree with the matches |
| bracket_safety | 4 players, all or none of whom may quit | one prize, one row per match, the final after the semifinals, the page as a tree; the champion is paid when nobody quits |
| tournament_pages | a tab with two connections and a free client, 2 tournaments of 2 | one start, no overbooking, a fixed field; a player's page and its tournament go together |
| irc_safety | 2 descriptors, 3 nicknames, 1 channel, all flags | tables agree, entry, operators |
| friends_safety | 2 users, 2 rows, 2 calls, 1 notification | friends have both wanted it, tests overlook nothing older, the bell shows a notification once |
| chat_safety | 2 users, 3 tabs; on a scene of its own the log of a week of two days | presence, blocks, answers, pages; the chart |
| accounts_safety | 1 address, 2 browsers, 2 rows, 2 tokens; on scenes of their own settings, search and messages | barred calls fail, sessions and passwords are proved, no sign-out without reason; what is shown is stored |
| local_game | a table of 13 by 9, 2 speeds, 2 sizes of ball, limits 1 and 2 | verdict, fresh starts, reachable goals, timed games end |
| online_game | a board of 6 by 6, 2 goals to win, 2 matches, inboxes of 2 | verdicts and scores of the pages, mounted any time after the start; held keys, reachable goals |

**Several parts in one property.** Where a name below stands for a conjunction, each part has
its own definition and comment: `ProfileAddsUp` (the ranges, `ScoreIsEarned`, the counts), `GivenOnce` (`PrizeOnce`,
`OneRowPerMatch`), `PageTellsBracket` (`BracketIsTree`, `DimmedIsOut`), `LobbyIsKept` (`StartsOnce`, `NoOverbooking`,
`MembersAreListed`), `PageFitsPlayer` (the ranges, `MembersAreOnPage`, `BracketIsForMembers`), `TablesAgree` (`PolledAreClients`,
`NicksAreUnique`, `ChannelsHoldClients`), `PresenceIsKept` (`NewestIsOnline`, `OnlineCanPlay`), `LogIsKept` (the ranges,
`ChartIsTrue`), `PagesMatchMessages` (`ReadWasOpened`, `ShownIsStored`), `SessionsAreProved` (the ranges, `SessionsAreConfirmed`,
`ProvedByMail`), `SettingsAreStored` (the ranges, `PicturesExist`, `SavedIsStored`, `QuietPageIsStored`), `PageTellsMatch`
(the ranges, `VerdictIsTrue`, `ScoreIsCurrent`). The `TypeOK` of `Philosophers`, `Matchmaking` and `Irc` are proved and in
no run; those of `Bracket`, `Friends` and `Chat` are stated for the reader and for the proofs.

**Why these bounds.**

- *Two philosophers* share both forks, which is the tightest table, and the
  monitor goes round after two tests. The prompt run uses four, as the README does,
  so that some neighbours do not wait for each other. `TimeToDie = 5`
  for 410 ms is the ceiling in ticks of 100 ms: `since` reaches it only when more than 410 ms
  have passed.
- *Four connections of three users* in `match_safety`: a queue of two, a third player that waits
  or is challenged, and one who comes back after losing its connection. Two
  matches are enough for a player to be in two at once. `MaxMatches` bounds
  `autoMatchId`; when it is reached no further match is created and the other events
  go on. `MaxWork` bounds matches and the statements of tournaments together: two let those of a match and of a tournament, or of two matches, overlap. `MCBound`
  leaves out behaviours where all four connections are made, and those where both of the first user's are and more than one thing is written; the
  users and the connections that are alike are symmetric. `WinGoals = 1`: what decides a match is the last goal; the ones before it
  change a counter that only the walkover overwrites.
- *Four players* is the size of every tournament of the code. `Quitters` is `{none, all}`: liveness is asked where
  nobody quits, safety where everybody may.
- *Tournament pages*: a tab whose connection is lost once, so that the callbacks which still wait for
  the first connection meet the second one, and a client of another user that sends what it likes, which
  covers any number of well-behaved tabs as far as one of their connections goes. Slots are 2 instead of 4: a tournament fills
  up and empties in the same ways. `MaxClicks = 3` suffices to be in one tournament, ask for another and go away; both
  tournaments are alike (symmetry).
- *Two descriptors at a time*, but any number of connections one after the
  other, as descriptors are reused; three nicknames leave one free when both
  clients have one. A limit of 1 is the only one that two clients can exceed. The
  properties relate two connections, or a connection to an earlier one with its descriptor.
  The proofs lift the bound.
- *Friends*: two users are a pair; two calls of add overlap, two rows are the duplicates they
  make. The proofs lift these bounds, too. One notification is shown twice or not at all; which user it is for does not matter (symmetry).
- *Chat*: one event at a time is enough for a block, a lost connection, a second tab or a failure to come at each of its
  awaits, and the proofs hold for any number of events, tabs and users. `PageSize = 1` instead of 50 makes the fetched list shorter than the table.
- *Log*: three sessions, of which two overlap, and a midnight; a week of two days has a day that
  falls out of it.
- *Accounts*: two browsers of one person (symmetry), two rows, as two registrations can make two of one
  address, and two tokens, one old and one new. A second address shares nothing with the first but the table.
- *Settings*: one tab whose two requests overlap, one name and a missing one, two languages, two files. *Search*: two words, one a part of
  the other, three searches, of which two can overtake each other. *Toasts*: the limit of the code, and four messages.
- *Local game*: a table on which the ball crosses in a few frames at either speed and hits walls, edges
  and both paddles; two sizes of ball, of which one is the default; limits of 1 and 2 with
  `MaxScore = 2` let a goal fall after the one that ends the game. A timed game lasts one second of any number of frames. `MaxPages` bounds the
  browser's history; a game beyond it cannot be opened.
- *Online game*: the ball passes the paddles' columns after two frames, so that goals, hits with each offset and
  walls occur. Two goals to win have a score in between; two matches make the packets of the first meet the pages of the
  second, with inboxes of two. One of the players presses keys; section 5 says what a second one may do.

*Scenes.* `MCChat` and `MCAccounts` explore parts that do not change each other's state one at a time, so that
their numbers of states add up instead of multiplying; each part starts from all of its own initial states.

Deadlock is checked in `accounts_safety`, where users can always do something. In the other runs the system may
stop: all players are gone, the process has ended or crashed, or a bound is reached. Whether it
stops for a bad reason is what the liveness properties and the violated one ask.

**Fairness.** `Philosophers` assumes that the operating system runs each thread that can
run and that time passes (weak fairness of each thread and of the ticks); it does not assume
that a mutex is handed to its waiters in turn. `PromptSpec` has the same fairness, and
ticks that wait for the threads. `Bracket` assumes that timers fire and the
database answers (`TimerFires`, `Start`, `Pay`), which Node guarantees while the
process runs, and that a match that is played ends by a goal, which is an assumption on its players:
nothing in the code limits a match in time. `ChampionIsPaid` is
checked with it and only while nobody quits. `LocalGame` assumes that React renders and runs its effects and that the
browser's intervals go off; it does not assume that frames are drawn, as a tab in the background draws none. The other runs
are about safety and assume nothing.

## 4. Proofs

The proofs hold for all constants that satisfy the named assumptions of the modules
(the `ASSUME`s of the modules that a proof module extends). No other
assumption is used. Most say that a constant is of its kind; those that say more are `PlayersAssumption` (four different players, and nobody else), `WeekAssumption`
(a week has days), `LobbyAssumption` (a tournament has seats), `AddressAssumption` (each browser's user has an address),
`BoardAssumption` (the board has room for the column and the ball, is no lower than a paddle, and the ball no faster than a column is wide) and
`TableAssumption` (the table is one that the sliders allow). Each inductive invariant also holds on the instances of the runs, where TLC can be asked about it.

**UnixProof, the philosophers.** `TypeCorrect`; `Exclusion` (neighbours never eat together);
`VictimStarves`; `NothingAfterDeath`. The invariant ties the mutexes to the places of
their owners: who has locked a fork owns it until `put_fork` unlocks it, the right one first (for `N = 1` both forks are
one, and nobody comes to eat); who stands between its `printf` and its unlock in `put_mssg` owns `msg`;
the monitor owns `checkdeath` from the test that finds a death, and so no philosopher can write
`count_die`; once the line of a death is printed the monitor owns `msg`, and so nobody prints.
The converse, that a locked mutex has its owner at such a place, is false:
the early return of `put_mssg` keeps `died` and `msg` for good, which is why `MsgHeld` speaks of
the time after the print only.

**GamesProof, matches.** `OneResult`, `OwnMatch`, `LiveIsActive`, `Paired`, and
`ImplementsMatchLife`: every step of the server is a step of `MatchLife` or
stutters. The invariant relates stage, timer, `activeMatches` and rows of each match: a timer
is set only while the match is pending, a match that is pending or played is active, one that is not
completed has no row, and one that is has one at most. `MatchIdIsOwn` is what makes
the walkover write one row: the player that leaves is idle, it is a side
of the match that its `matchId` names, so only the other side can win. Without that conjunct the
induction fails at `Walkover`, and so would the code.

**GamesProof, history.** `RunsMatchmaking`: writing rows and scores only observes, so every theorem
above holds of `MatchHistory`. `CardsAreTrue` follows from one more invariant, that a row which names a
winner has three goals for it and none against: an id is stored as the winner by `endMatch` only, which sets the score; rows under way are like
those in the table (`OrdersAreTold`).
`ProfileIsRight` needs two more: a match that goes on is short of `WinGoals` on both sides (`GoalsBounded`), and `Tally`, of each user: the score with
what is under way is what was earned, and the prizes that are paid, or whose row is there, are no fewer than the casual rows that name the user
and no more than all of them. To the tables a step of the matches is `Quiet` or `Wins`: whether the last goal or a leaver decides a match, it adds one
result to a side that had none and one order, for a leaver since just one stays (`OneStays`). `RowIsTallied` and `ScoreIsTallied` move that
order on to a row and to a prize. The counts agree without induction: ranking is a bijection from the cards to the rows (`NewestFirst`), and sets that
correspond under a bijection have one cardinality (`CountAlong`).

**BracketProof.** `ResultsGivenOnce`, `FinalAfterSemifinals` and `PageTells` for any four players. `someOneWins` takes what it does from the counter of
the current round, whichever match has ended, and a match that is over may be ended again; the invariant says how far that can go.
A round that was not started has nothing left to count (`Opening`, `Ending`: its counter is 0 at most), so that ending a match again
never closes it; the last round has nothing left at all (`PaidOnce`), so that the tournament is completed, and the prize prepared, once.
A seat of the final with a player in it is the winner of a match (`Ending`), and a match with a winner is completed (`Decided`):
`start` crashes for an empty seat, and so the final is made after both semifinals. One row per match needs, as in `GamesProof`, that
the player that leaves is a side of the match and idle (`OwnMatch`), also when it leaves after `getBracketData`.

`PageTells` reads the same state from the page's side (`PageInv`). `Drawn` follows each player upwards: the sides of a match are the entrants that its pair had
when it was made, an entrant of a later round is one of its two, or nobody, and a winner is a side of its match. The tree on the page holds
whoever quits for that reason alone. `Calm` is about the tournaments that nobody quits: the counter of the round is the number of its matches that are
not over, so that the next round holds the winners of both semifinals by the time its counter opens; then who is missing from the last round drawn
has lost. Both rest on `GoesOn`, what `someOneWins` makes of a tournament: one result, the entrants of the next round, and one of three ways on.

**LobbyProof.** `LobbyKept` and `FieldFixed` for any number of connections, tournaments and seats. A tournament is started by one
callback because its status is set before the next await: `StartingOK` says that a start that waits is the only one, and that
nothing has started before. The list stays within the seats because `join` measures the list itself, in the callback that
pushes; `empty_slots` goes out of line with it (section 5). `removePlayer`
goes by the id of the user and would take others out too: that it does not is `OneKnown`, that a user has one connection the server
knows, together with `Fresh`, that a new one is in no tournament. `TypeCorrect` needs that no more seats are given back than were taken.
`PagesRunLobby`: the tabs drive a behaviour of `Lobby`, so that all this holds of the composition. `PagesFit` adds an invariant of each
tab: its connection was made for it; every leave in its queue is followed by a question for the bracket while that page is
shown; and if the page was shown through a connection whose player is in no tournament, the answer that takes it away is on its way.

**UnixProof, the chat server.** `TablesInAgreement` from `PolledFound`, `NicksDiffer`, `ChannelsCurrent`, and the
action properties `EntryIsAllowed` and `OperatorsFromOperators`. The invariant adds
`Named` to what the run checks: whoever has a nickname is polled and has given the password, and whoever has just quit is no client,
so that the loop looks for a missing client once for each QUIT and never else.
`NicksAreUnique` needs it, as `nick` looks for the name among all `Clients`, among them the
ones that a wrong password left behind; they never have a name. The two action properties
follow from `TypeOK` alone: each action either adds one member in `Enter` under the
tests of `join`, or takes members away; and a right is only given by one who has it.

**FriendsProof.** `BothWanted` and `RowsAreSeen`, for any number of users, rows and calls. The invariant says
that whoever has a row, a call or a place in a list of requests has asked: `respondFriend` does not
look who asked whom, and it is the list on the page that makes up for it. Ids of rows only grow, and a call has
looked at the table before the next id is given.

`ShownOnce` is about the bell, for any number of notifications. `BellInv` says that each list, shown or under way, has each id once. A list that was read is
sorted by id and a filtered list keeps its order; both say which element comes j-th by its rank, the number of smaller ones, so that
`NthOf` and `NthOnce` are the whole of the argument: in a finite set of numbers the ranks run from 0 to the last, each once. An event is
added only if its id is not listed, and that is the one place where a fault would show.

**ChatProof.** `ChatPresenceIsKept`: a connected tab is the socket of its user's `Player`, which is what makes
it enough for the chat to keep one socket of each user. `ChatBlockHolds` and `ChatOneAnswer` rest on an invariant of each call
(`CallOK`) that says for every place between two queries what has been stored, notified and answered by then; a call that is barred never gets
past the test. `ChatPagesMatchMessages`: what is on the way to a page or shown on it has a row, and a row is marked read
only if its receiver has had its sender selected.

The log of the time has an invariant of its own (`LogInvariant`, `LogKept`). The time that is stored for a day and what the calls under way will
still add is at most what the sessions have spent (`Budget`): a rising function of the calls stands for the partial sums, since a sum over a
sequence would need induction. Without overlapping calls there is one row, one call, and equality (`Exact`). `Named` and `Spoilt` say which days a call
that saw midnight can put under a wrong name; `Dated`, that nothing is dated tomorrow; two dates with one name are a week apart.

**AccountsProof.** `SessionsProved`, `BarredFail`, `NewPasswordProved` and `SignedOutForAReason`, for any number of browsers, rows and tokens. A call remembers an
id or a token across its queries while other calls change the rows. What it remembers stays true since an id is never given again, an
address never changes, a confirmed row stays so, and a token is made for one row and mailed to that row's address (`RowsAreSound`,
`MailsAreSound`, `Remembers`). `SettingsStored`: the files are numbered in order and there is room for the uploads under way
(`FilesAreNumbered`), at most one save is still heard by the form (`SavesAreSound`), and a request that was alone since it was sent differs from the row
in what it changes only (`LoneIsSound`). `ResultsFit`: while no text waits for the pause, the text in the box is the word of the search that was sent
last (`LatestIsShown`). `NewestStays`: the ids of the messages go down from the newest one, and only closed messages are waiting to be removed.

**GamesProof, the local game.** `GameTypeOK` keeps ball and paddles on the table. A step of the ball ends within the walls since a hit turns it
by no more than its radius, and it is over one column at a time. `LocalGoalWasReachable` follows from it: the ball cannot pass a paddle in one frame.
`VerdictIsRight` and `StartsFresh` need to know which change of state still waits for its effect: a score that the page took over (`Waiting`, `Stuck`), the
end of the countdown (`StartWaits`), a goal
(`GoalWaits`) or the verdict about it (`VerdictWaits`), of which there is one at a time, because a ball that was just served is more than a
frame away from the next goal (`Near`). A timed game has its verdict as soon as the effects have seen that no seconds are left (`TimedGame`).

**OnlineProof.** `OnlineGoalWasReachable`, `PageTellsOnline` and `HeldKeysMove`, for any board, speed and number of matches. The ball moves across
by `Speed`, whatever turned it, which is no more than a column (8 and 20 in the code, `BoardAssumption`): so a goal falls one frame after the ball was in the
column of the paddle it passed, where it could have been hit; faster balls would break it. This needs the shape of the state only (`ShapeOK`).
`OnlineInvariant` says what the packets under way tell (`Tells`): the last score among them, or the one shown if there is none, is the score of the
match, and a verdict comes behind the last score and names whoever leads. It is true of a tab that follows the match of
the server (`InTouchAt`, with the score that was told last: the tab shows it unless it `missed` it), and already of a start in an inbox that was not heard (`StartOK`), counted from that start on: all that was said of
an earlier match comes before it. A tab follows a match only once it has begun, so the score of a match that is made anew is not told to it.
The names of a page are those of its `vid` unless a profile came `late` (`NamesOK`).
`HeldKeysMove` looks at the packets the other way: the last one about a key that is held is a press (`Arrives`), since `lastPress` is a key that is held
and a press is left out only after another one; and nobody is out of a match that is pending or played (`NobodyIsOut`), so that the server drops none.

**Only model-checked**: liveness (`MealsEndProcess`, `ChampionIsPaid`, `TimedGameEnds`), which needs fairness and is
out of the prover's reach, as is `ENABLED`. All safety properties and action properties of the passing runs are theorems.

## 5. Disagreements between the code and what is said of it

One run ends in a violation; `PROJECT.json` quotes the lines. **philo_hang**: a philosopher enters `put_mssg` between
died.c:52 and died.c:53, finds `*die` at 0 and returns with both mutexes; the monitor waits for `msg` forever, and the process
neither prints the death nor ends.

The models show more that no run is devoted to. The properties of the runs are stated so that they hold in spite of these,
and say what remains true.

*Philosophers*: all take the right fork first, and only the `usleep(100)` of the odd ones keeps
them from waiting in a circle (rotine.c:17); the line of a death names
philosopher 1, whoever died (died.c:55); the process stops when the first philosopher
has had its meals, not "when all eat 7 times" (died.c:23).

*IRC*: after `QUIT` the loop looks for the client of a descriptor that has none and works with `Clients.end()` (Server.cpp:131, 149): with the map of
libstdc++ what lies there is `pfds`, and the server ends with `std::bad_alloc` at the first QUIT; it goes on where zeroed memory lies there.
`PolledAreClients` therefore excepts that one entry, for that one turn. A member loses its connection, and the next connection gets its descriptor and its place in the
channel without PASS (Server.cpp:157; 0x14 README.md:15); `MODE -o` takes the right from its sender (Server.cpp:578); an empty channel
with `+i` can never be entered again; the limit is not tested when the channel is `+i`; an invitation is not used
up, so who was kicked may return.

*Matches*:
- `match_someOneWins` gives `createGame` the winner's Player object instead of its id (match.js:183; init.sql:73
  `FOREIGN KEY (winner_id) REFERENCES Users(id)`), which is stored as the text `[object Object]`: a match that is
  decided by the last goal is a loss for both in histories, counts and the leaderboard's wins, while the score is paid. Only walkovers count as wins.
- Nobody catches a rejected `createGame` or `addScoreToPlayer` (match.js:183; gamesession.js:50, 77): the process ends with its matches, and what was under way
  is not paid. A profile that is read between the two statements tells a match whose prize is not yet in the score.
- A queued player that disconnects stays in the queue and is given an opponent (matchmake.js:139); `matchmake` sent twice
  pairs a player with itself (matchmake.js:44); `endMatch` resets players that are in another match by now (gamesession.js:118).
- Levels in histories (wins × 300) differ from the level of the profile (score / 1000).

*Online game*:
- `opponent_left` of a match that is pending or over is sent to `player1` even when that is the leaver (gamesession.js:91), so `player2`
  stays on "Match Preparing" and is in no queue, and a new search of `player1` may queue it twice.
- A player that leaves the search stays in the queue; a page that still shows the old result gets the new match made. A goal
  or an `onEnd` that is told before the page of the game is mounted (matchmaking/page.tsx:61, online/page.tsx:97) is missed: the page shows 0:0 until the next goal, or stays
  without a verdict; `VerdictIsTrue` and `ScoreIsCurrent` except scores that were missed (`missed`). A late `match_start` may show the page of a match already left.
- Late answers of `getPlayerProfile` set an opponent and a `vid` of an earlier match, so that keys move the other paddle, and the
  release of such a key stops the other player, who still holds it (gameplay.js:7): `HeldKeysArrive` is therefore about one player's keys. The
  dialog has the names of the `vid` with which its page was mounted and the scores of the current one, so that after a `late` profile it gives each
  player the other's score; `VerdictIsTrue` excepts that.
- `key_up` stays true on the server when a page is left with a key held; the ball may creep along a wall after a paddle has hit it there.

*Local game*: a local game that is left for an online one (a challenge is accepted) and returned to is rendered with the score of the online game, as its
cleanup (online/page.tsx:106) shows only in the next rendering. If that score has reached the limit, the first effects set a winner (local/page.tsx:106),
whom the dialog names beside 0:0, and no game is played: `VerdictMatchesScore` and `FreshStart` except this. The cleanup of an online game clears the name of player 2, so that Play is disabled until one is typed; `resetGame`
puts speed and sizes back to the defaults, whatever was chosen.

*Tournaments*:
- Matches of a tournament stay in `activeMatches`: the loser of a semifinal that leaves during the final ends the
  semifinal a second time, which is counted as the final and given the prize (gamesession.js:98; README.md:132). Before the second semifinal is
  over the first is counted twice, the final is made with `null`, and the server crashes (tournament.js:73; README.md:94).
  In the three seconds before the final the counter becomes −1, and the tournament never ends.
- `removePlayer` takes out all entries of a user and counts one slot (tournament.js:44); the test `in_plrs >= 4` in
  `tournament::leave` never holds. A create followed by a join before its awaits end puts a player in two tournaments, of which
  leaving quits one (translation.json:79, "Once you leave this page, you will quit this tournament!"). It can join that one again and is listed
  twice (tournament.js:38), so that a tournament may start with one player in two seats; when it leaves before that,
  a slot is lost, and the tournament fills up without ever starting. After a reconnection a tab stays on the page of
  the bracket of which it is no member.
- After the first semifinal `finals` is `[winner, null]`, whose length is 2, so the two that still play are dimmed (bracket/page.tsx:100); a champion
  that leaves disappears from the others' pages. `getTournamentsHistory` is malformed SQL, and `addPlayerToTournament` is not exported; nothing calls them.

*Chat and log*:
- A second tab of a user is refused by the game server and takes the user's entry out of `onlineUsers`: with its first tab connected the user
  is shown as offline and gets no live messages until it registers again (README.md:15, 133); the second tab reconnects in a loop.
- A message that is both fetched and delivered is shown twice; a fetched list may replace live messages; messages can be marked
  read without having been shown; the list of a conversation is its oldest 50 (savedMessages.js:25). `blockModel` compares `err.code` with
  `SQLITE_CONSTRAINT_UNIQUE`, which node-sqlite3 never gives.
- The chart is all zero in other languages than English (lineChart.tsx:51 compares translated names with those of userModel.js:241). Sessions that
  end together give two rows of a day; a row inserted after midnight mixes two days.

*Friends and notifications*: overlapping adds give duplicate rows; `respondFriend` accepts rows of both directions, so answering a
request that was withdrawn may accept one's own; a notification that was pushed is lost when an older list arrives after it (SocketContext.tsx:74).

*Accounts*:
- `UserProvider` takes every failure of the profile for a missing session (types.tsx:411-415): a request that breaks, a 500 of the handler and the 403 that
  `refresh` answers to any error (authController.js:163) lead from a page of the application to `/auth`, although both tokens are still good.
  `SignedOutWithReason` says that nothing else does.
- Registrations at the same time give two rows with one address: authController.js:77 expects an error of a UNIQUE that the live table has not.
- The handler of logout never replies, so that the page waits and stays signed in. `clearRestorationTokens()` is called without an id and clears nothing;
  `verify2fa` without a stored code is a TypeError; an older verification may delete a newer code (2fa/verify/page.tsx:90).

*Settings and search*:
- A saved account is not put in the tab's context, so a later change of picture or language resets the form to the old
  names, and the next save stores them (account-settings.tsx:26). A refused upload makes the tab show no picture, while the
  stored one remains (profile-settings.tsx:57). `deleteIMG` doubles the path and always answers 404; no page calls it.
- `fetchProfile` switches to the language that the user had when it began, not to the one that came (types.tsx:406, "Update i18n
  language when user is loaded"): a language chosen meanwhile flips back, and a stored one is applied only after a second navigation.
- Answers of searches come in any order: a late one is shown for another word, or in an emptied box (header-side-bar.tsx:97), and a failed
  search reads as "not found".

## 6. What is not modelled

`PROJECT.json` lists every component with its reason. In the modelled ones:

- Philosophers: allocation failures and the parsing of arguments.
- Matches and tournaments: more than one tournament that is played at a time and casual matches of its players (`Bracket`); aliases; a restart of
  the server, which loads every tournament that is not completed as an empty one (no document says what should become of it).
- Games: colours, the preview of the table, the drawing; speeds and sizes that are not multiples of the unit.
- Irc: USER, TOPIC, the bytes of commands, and what is delivered to whom.
- Chat, friends: lists that are only displayed, with their filters; texts.
- Accounts: an answer that is lost after its handler has ended; the avatar from Google, the rules for a good password or name, the hash of a password (two passwords are equal or not).
- Settings: an upload's bytes; two uploads of one name in one millisecond, which would share a file.
- Search and header: the menu at the side.

Whole parts that are left out:

- *Pages that only display* (profiles' charts aside, leaderboard, landing page) fetch once and show what they got: there is no order of
  events to go wrong. `TournamentBracket.tsx` and `game/local/create/GameMode.tsx` are used by no page.
- *Vault and nginx*: configuration of external services. *Inception*, *NetPractice*, *Born2BeRoot*: no program of their own.
- *Libft, Printf, GetNextLine, PushSwap, CppModel*: sequential functions on memory and text, without state between calls
  that another actor could change; a reference definition would restate the loop, and running the program on small inputs shows the same.
- *MiniTalk*: pending signals of one kind merge and nothing is acknowledged. With any scheduling nothing that the receiver prints is promised; with a
  scheduling prompt enough nothing can go wrong.
- *MiniShell*: lexing and expansion are text; the processes and pipes are the kernel's. *SoLong, Cub3D*: drawing with vendored libraries.
- *IRC's parser and bot*: commands that arrive in one segment are read as one (Server.cpp:133), and the bot sleeps for that (Bot.cpp:48).

Memory and strings of the C and C++ programs are not modelled, except where using them is undefined and the
server may crash.

## 7. Plan

Done, in this order: `Philosophers`; `Matchmaking` with `MatchLife`, then `MatchHistory`; `Bracket` with its page; `Lobby` with
`TournamentPages`; `Irc`; `Notifications` and `Friends`; `Presence`, `Chat`, `ChatPage`, `LogTime`; `Users`, `Accounts`, `AuthPages`; `LocalGame`;
`OnlineGame`; `Settings`, `SearchBox`, `Toasts`; and the proofs of section 4.

Next, the composition of `Bracket` with `Matchmaking` (players of a tournament that queue for casual matches), and the
restart of the server if a document ever says what it should do.
