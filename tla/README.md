# Oryx.VoteApp in TLA+

Oryx.VoteApp is a WeChat voting system: phones vote in a mini-program, an ASP.NET Core server
queues the votes in memory and writes them to MySQL in batches, RabbitMQ and WebSockets carry
commands and results to phones and to the big screens of a show, and administrators open, start,
end and reset votes from web pages. The repository has no unit tests of this logic, only load
tests (`Oryx.PressureTest`, `PressureT.go`); what is hard in it is the order in which threads,
requests, timers and messages meet.

Paths below are relative to the repository; `SRV` is `Oryx.VoteApp.Server/Oryx.VoteApp.Server`.

## 1. The system

| component | state | operations | where |
|---|---|---|---|
| Write-behind queue | a static `Queue<Object>`, `timerIsRunning`, `isDbRuning`, `timerSteps`, `_timer` | `InsertOptAutoRun`, the timer callback | `SRV/PostManager/DbOperationMngr.cs` |
| Request limiter | a counter of slots, a linked list of waiters, a lock | `Invoke`, `EnqueueAsync`, `CancelEnqueue`, `Dequeue` | `SRV/Middlewares/` |
| Vote lifecycle | table `VoteInfo` (`IsOpen`, `IsEnable`, `Expired`), table `VoteLog` | create, update, open, delete; start, end, reset | `SRV/Controllers/GameController.cs` 255-385, `VoteController.cs` 297-411 |
| Live results | the screens' counts of options, buffs; the load test's totals in memory | `AddBuff`, `AddBossBuff`; the screens' counting and ranking; `PorcessResult` (from `PostTest3` only) | `VoteController.cs` 234-294, 416-502; `SRV/Pages/HugeScreenGD.cshtml` |
| Information caches | memory caches with a sliding expiry | `getInfo`, `InfoByOpenId`, `GetVote` | `VoteController.cs` 64-116, `JdlyController.cs` |
| Broadcast | the pool of sockets, the exchanges | publish, consume, send, connect, close | `SRV/Services/RabbitMQClient.cs`, `SRV/ApplicationBuilderExtension/UseRabbitMQClient.cs`, `Oryx.WebSocket/` |
| Voter mini-program | page, countdowns, vote chosen, socket, `globalData` | login, wait, countdown, post | `VoteWeapp/` |
| WeChat wall | table `WxqLog`; a guest's text and photo; what check pages and walls show | send, pull, check, publish, show, rotate, delete | `SRV/Controllers/WxqFuncController.cs`, `SRV/Pages/Wxq*.cshtml`, `jquery.kaibanner.js`, `WxqApp/`, `VoteWeapp/pages/wxq/` |
| JDLY quiz | tables `JDLYQuestion`, `JDLYLog`; the answers chosen, a countdown | check of a code, start, clear, post | `SRV/Controllers/JdlyController.cs`, `WxJingdianyinxing/` |
| Users and login | users by `OpenId`, the session of the admin pages | login, check | `UserController.cs`, `AccountController.cs`, `Startup.cs` 161-183 |
| WeChat access token | a cached token and its age | `GetAccessToken` | `Oryx.Wx.Core/AccessToken.cs` |

Left aside: the deployment tool (`Oryx.OnePublish`, `InstallBash`, nginx and supervisor files),
the vendored SSH library, `wwwroot/lib` and `wwwroot/js/bootstrap.js`, migrations, site templates,
pressure tests (`websocketT.js` among them), and projects that are trials or unfilled templates
(`TestMysql`, `RabbitMQTest`, `Oryx.Distribute.Admin`, `Oryx.WxDisplayWall`, `Oryx.Wx.MiniApp`).

How they interact:

- *Phone -> server.* A phone posts a vote to `VoteController.Post` (through the limiter, were it
  switched on: `Startup.cs:160` has it commented out). `Post` hands the row to the write-behind
  queue and publishes its option to the screens.
- *Server -> MySQL.* The queue's timer callback writes batches with a singleton `DbContext`; every
  administrator's request has a `DbContext` of its own.
- *Server -> phones and screens.* `StartVote`, `EndVote`, `OpenVote`, `Post`, `AddBuff` and the
  checkers' `PostCheckedMsg`, `PostCheckedPic` publish to fan-out exchanges; consumers on the same
  server send each message to the sockets of a pool.
- *Screens, walls and phones* load a state from the server and then change it message by message.
- *Guests -> checkers -> walls.* A guest's message is a row of `WxqLog`; check pages pull new rows
  and pass some; these are saved, published and shown on the text or the picture wall.
- *Administrators* change `VoteInfo` and `VoteLog` while posted rows are still queued.

What is hard, and which properties make each part correct:

- *Write-behind queue.* Enqueue runs under a lock, Dequeue without it, on threads that may
  overlap; the timer stops itself while inserts may come; the process dies on any exception of a
  callback. No row may be lost while the process lives, written twice or out of order; a stuck
  flag must not silence it; no row may starve. The first fails where a growth of the array meets
  a `Dequeue` (finding 1).
- *Limiter.* Slots move by compare-and-swap and by hand-over under a lock; waits end by timeout,
  abort, drop or hand-over; continuations run inside the lock. The counter must equal the slots in
  use, each waiter gets one answer, the lock comes free, waits end.
- *Vote lifecycle.* Requests read and save at different times, some in two transactions, and race
  posts and flushes. At most one vote is open; no stale save starts a vote again; a vote that has
  been reset is as good as new.
- *Broadcast.* Consumers never acknowledge, so a lost connection replays everything; a pool that
  changes while a consumer iterates over it ends that message. What was published is shown, and
  replays do no harm.
- *Voter mini-program.* Countdowns and callbacks outlive their pages, share one timer handle and
  one `globalData`, and meet commands, stale caches, error answers and lost ones. A voter who is
  thanked has had a vote taken; who is told that he is late is late. (The second is not so:
  finding 3; nor does a countdown nobody can clear any more spare a voter who has just voted.)
- *WeChat wall.* Which photo is sent is read after an answer; two kinds of lists are kept in step
  by hand; rows are saved as they were read; a carousel's timer restarts at each change. Nothing
  unchecked is shown, what is passed stays passed unless pulls overlap and gets shown, walls keep to
  their places, each picture is shown again.
- *JDLY quiz.* A tap may come before the photos, the quiz may be cleared, started again or replaced
  while phones have it, a cache outlives all that, and an error answer counts down from `NaN`.
  Answers are whole, thanks are due as far as the page can know, and the page ends.
- *Live results* should count every vote once, whether it was loaded or received; *the token*
  should stay valid while its callers use it.

`PROJECT.json` lists the hazards line by line, with the property that watches each, or the reason
why none does yet.

## 2. Modules

| module | models |
|---|---|
| `AsyncWriter` | what an asynchronous writer promises: accept, persist in order and once, forget only by dying |
| `DbOperationMngr` | the write-behind queue, statement by statement where threads meet |
| `DbOperationMngr_proofs` | types and the flag, proved of the full specification |
| `DbOperationMngrSerial_proofs` | conservation and refinement of `AsyncWriter`, proved of `SerialSpec` |
| `MaxConcurrentRequests` | the limiter |
| `MaxConcurrentRequests_proofs` | its slots, waiters and lock, proved for any requests and settings |
| `VoteLifecycle` | administrators' requests over `VoteInfo` and `VoteLog` |
| `VoteLifecycle_proofs` | one open vote, no stale start, resets that start over, proved for any administrators and votes |
| `Broadcast` | exchanges, queues without acknowledgements, the sockets of the pool |
| `VoterApp` | the voters' mini-program and the server's side of it; an instance of `Broadcast` |
| `VoterApp_proofs` | types, and what phones believe, proved for any phones and votes |
| `WxqApp`, `WxqPage` | what guests of the wall do: the mini-program `WxqApp`, the page `wxq` of `VoteWeapp` |
| `KaiBanner` | the carousel of the picture wall |
| `Wxq` | the wall: composes `WxqApp`, `WxqPage`, `KaiBanner` and `Broadcast` with checkers and walls |
| `Wxq_proofs` | the wall's safety properties, proved for any messages, places and check pages |
| `Jdly` | the quiz: its mini-program and its controller |
| `Jdly_proofs` | whole answers and deserved thanks, proved for any employees and quizzes |
| `SequenceLemmas` | lemmas about sequences and finite sets of numbers the proofs share |
| `MC...` | constants and symmetry for TLC, one for each of the six specifications that are run |

### DbOperationMngr

A row is the number of its Enqueue; `rows` keeps the type of each (`VoteLog`, `JDLYLog`).
`array`, `head`, `tail` and `count` are the fields `_array`, `_head`, `_tail` and `_size` of
`Queue<Object>`, a circular array (positions count from 1, `Null` is an empty slot), because an
`Enqueue` under the lock and a `Dequeue` without it change them field by field. `insert` is the one
insert inside `lock(blockObj)` (lines 33-84): `Enqueue` compares `_size` with the length and, where
they are equal, copies the rows into an array twice as long, or longer by `MinimumGrow`; `Grow`
installs the copy, with the head at its start; `Put` stores the row at the tail, over whatever is
there, and loads `_size`; `StoreCount` stores it plus one; `ResetSteps`, `TestTimer` and
`StartTimer` are the rest. `Wrapped`, `Grown` and `CopyFails` are .NET's `MoveNext` and
`SetCapacity`. `cb` are the timer callbacks: `Enter` and `Claim` test and set `isDbRuning` (46-50);
the loop of 57-61 is `Dequeue`, which reads the slot at the head, `Clear`, which empties it,
`Advance`, which moves the head and loads `_size`, and `Shrink`, which stores it minus one; `Write`
and `Resave` are the batch function and its save (64-67); `Release`, `CountEmpty`, `Bump`,
`TestSteps`, `StopRunning`, `Dispose`, `Forget` the rest (68-80). A Timer is named after the row
whose insert created it, since its callbacks use that insert's type and batch function: a row of
another type fails the cast and kills the process.

Abstractions. `timerSteps` saturates at 4, as the code only asks whether it is 3. `Crash` may
happen at any time, so a save that fails and the `InvalidOperationException` of an empty queue
need no action of their own: each of them ends in it (an exception in a timer callback ends the
process, supervisor starts it again). `_version`, which only enumerations ask, is left out. The
copy of a growing array is one step, and so are its installation with the new head and tail, and
`Put` with the load of `_size`. An insert that throws (`CopyFails`, or a tail that is no position)
leaves its row refused, which `Post` answers with an error. `Collect` is the runtime finalizing a
Timer nothing refers to. `Resave` (a commit whose acknowledgement is lost, run again by
`EnableRetryOnFailure`) is bounded to the first save. Two callbacks inside the loop at once
interleave slot by slot; what the shared singleton `DbContext` does when two threads use it is not
modelled beyond the two saves, which is one reason why the results about rows are stated for
`SerialSpec`.

`OneFlushSpec` allows the behaviours in which at most one callback is between lines 50 and 68. The
code does not enforce it (its test and set of `isDbRuning` are two steps), but the ticks that would
have to meet inside those two statements are 500 ms apart. `SerialSpec` excludes two things more:
lost acknowledgements, and torn updates (`Untorn`), in which a `Dequeue` is under way between the
copy of a growing array and its installation, or an insert and a `Dequeue` have both loaded `_size`
to store it. Nothing in the code excludes those, and `dbqueue_race` shows what comes of it: a
row is overwritten by the next. With them excluded, inserts still fall between any other two steps
of a `Dequeue`, and the array wraps around and grows meanwhile.

### MaxConcurrentRequests

`pc[r]` is where request `r` is; a request served or refused may come again. `Arrive` is the
compare-and-swap loop of `CheckLimitExceeded` by its outcome; `EnqueueAsync`, `CancelEnqueue`,
`HandOver` run under the enqueuer's lock. `SetResult` runs the waiter's continuation in line:
`inline` is the waiter that runs inside the lock, until `Yield`, its first asynchronous await.
`Fail` is an exception of the next middleware, which skips the code that gives the slot back
(lines 53-59); `leaked` counts those slots.

### VoteLifecycle

A request reads, assigns and saves with its own `DbContext`. Entity Framework updates only the
columns whose value differs from the one read, in one transaction, which fails when a row it
updates or deletes is gone; so a request carries the set of its `changes` from its reads to
`SaveChanges`. `CloseOpenVotes` is the loop that closes "other" open votes, which finds the
request's own vote too when that is open in the database. `DelVote` of an open vote has two
transactions with a read between. Posted rows wait in `pending`, and `Flush` writes the oldest
ones as `AsyncWriter` allows (so with the restrictions of `SerialSpec`). `meanwhile` is a history
variable: which starts and ends of its vote were saved, and which rows written, since a reset
under way read them. Left out: the commands these requests publish (`VoterApp` has
them), the in-memory totals `ResetVote` clears, options of votes, and retries of administrators'
saves after a lost acknowledgement (a create so retried would insert two votes).

### Broadcast

A fan-out exchange with one queue and one consumer is `queue[q]`; `SendTo` is the consumer's
handler, which sends to the sockets of the pool one after another (`Deliver`), or to some of them
only, when the list of sockets changes under its iteration (`Interrupted`). Messages are never
acknowledged: `unacked[q]` keeps what was delivered, and `Recover` is the client library's
recovery of a lost connection, after which the broker delivers all of it again. `inbox[r]` is what
is on its way to a client, in order; a socket that closes loses it. A server that starts anew
makes queues of its own (their names have a new Guid), so a restart replays nothing.

### VoterApp

One action per handler of `VoteWeapp`: `Launch` and `UserKnown` are `onLaunch`, `OnSocketMessage`
its handler of commands, `GoVote`, `CheckedVoted`, `LoggedIn` the index page with its two
callbacks, `FormSubmit` and `Submitted` the login page, `Refresh` and `Refreshed` the waiting
page, `GotVoteInfo`, `GotNoInfo`, `CountDown`, `Voted`, `Cancel`, `ProcessVoted`, `Posted` the
vote page. The operators `Index`, `Login`, `VoteWaiting`, `Vote`, `VoteTimeout`, `Thanks`,
`VoteStop` are `wx.redirectTo`: they say what the page that opens does. A page that is left goes
on: `view[p]` is the sequence of a phone's vote pages that can still act (an answer awaited, a
countdown, a question to the voter), the shown one last, and `handle` tells which countdown the
one global `votePageTimer` names. `call[p]` are requests under way; the server's handlers
`CheckVoted`, `CheckEnable`, `Post` run when they like and their answers arrive when they like.
`Lose` is a request or answer that never arrives: no page has a handler for it. `Post` may answer
an error without having queued the row (no vote in the request, an enqueue that throws, nginx with
no server behind it) or after it has (the publication fails); `processVoted`'s callback sets
`globalData.voted` in any case, and thanks only for `msg == 'ok'`. `taken` and `refused` are
history variables: the phones of which `Post` has taken a vote, and answered one with an error. An
error that `Info` answers has no `CloseSeconds`: `GotNoInfo` starts a countdown from `NaN`, on a
page with nothing to choose. An error answer to the other requests has no `success`, and does what
`Lose` does.

Time is discrete: a time stamp is its age in seconds, capped at `Old`; `Tick` ages everything, and
countdowns whose second is up run before anything else in that second, in any order. `NaN` is
what `timeToStop` becomes when `endTimeStamp` or `CloseSeconds` is undefined.

Abstractions. The phone's `openId` is known from the start (it is asked for at launch). What
`getInfo` answers is a choice: that the page asks for a code, or not. `Info`, the login's and the
submission's answers are taken in the step in which the server gives them; for `Info` a late
answer is the same as a cache that lives longer. A command is published in the step that saves
it, and administrators take turns on the open vote. The option chosen has no name, and rows
of `VoteLog` are told apart by vote and phone. Phones' clocks agree with the server's. The button
of the retry page does nothing in the program either: it is bound to `'retryLoad '`, with a blank.

### Wxq, WxqApp, WxqPage, KaiBanner

`rows` is the table `WxqLog` with the status of each row. `OpenCheck` loads a check page and
`PullWxqLog` taps its button, which nothing disables; each begins one of `Pulls`, of which `ReadLog`
is the handler's read, `SaveLog` its save and answer, `LosePull` a failure before the save. A page
may have several pulls under way, and a page that is loaded again sees none of the answers it was
waiting for. `CheckedData` asks the server
to pass a row; `PostChecked` saves it, `BasicPublish` publishes it, in two steps. `OpenWall` loads
a wall's page, `OnMessage` takes a message off its socket, `Delete` removes a message and asks the
server to mark it deleted. `shown[w]` is what the page displays, `dataObjList[w]` the length of
the list it keeps beside it, which is what the code compares with its limits. `passed` is a
history variable: the rows a checker's request has ever saved as checked. `alone` is history too:
whether no other pull has been between its read and its save while this one was.

`WxqApp` and `WxqPage` are the two programs guests have, over the same variables; a behaviour of
`Wxq` uses one of them. `confirmed` is a history variable: the photo for which the token was
asked. `KaiBanner` has the carousel's index, direction and last count of its pictures.

Abstractions. A text is empty or not, a photo a model value, a name nothing. Guests stop after
`MaxRows` messages, and the walls start open and empty. A request to the file store has one
answer. Identical requests under way (two deletions of one row) are one. The carousel's buttons
for the next and previous picture are not on the page.

### Jdly

The server keeps `question` (the quizzes by Id), the rows queued and written, and the cache of
`GetVote`; `AddPost`, `StartVote`, `ClearUp`, `ChekcUserCode`, `Post`, `Flush` are its requests. A
phone has a page, the check of its code, a vote page (`GotVote`, `BindChange`, `Voted`, `Timer`)
and answers under way. `GotNoVote` is an error answer (`GetVote` answers its exception with status
200): no quiz, and a countdown from `NaN`, which ends at its first second. History variables are
`taken`, the employees of whom `Post` took an answer, and `current`, kept with the cache and with
each vote page: nobody has started the quiz again or cleared it since it was read from the table.
Time is as in `VoterApp`. `view.chosen` counts the photos answered; which answer, and whether it
is right, is left out. The mask of a loading screen stays after a lost request, as in the program,
and the form comes back only with a restart. Identical answers under way are one.

## 3. Runs

| run | specification and bounds | shows |
|---|---|---|
| `dbqueue_safety` | `SerialSpec`; 2 types, 2 threads, 3 rows, batches of 2, growth by 1 | `TypeOK`; `Conservation`: no row lost or overwritten; `IsAsyncWriter`: written in order and once |
| `dbqueue_overlap` | `FairSpec`; 1 type, 2 threads, 2 rows, batches of 1, growth by 2 | `FlagOwned`: no exit leaves `isDbRuning` set, even with overlap; `NoStarvation`: no row waits forever while a Timer is scheduled and the count says it is there |
| `dbqueue_race` | `OneFlushSpec`; 1 type, 1 thread, 3 rows | violation of `InsertsKept` (finding 1) |
| `dbqueue_stop` | `SerialSpec`; 1 thread, 2 rows | violation of `TimerStopsDrained` (finding 2) |
| `limiter` | `FairSpec`; 3 requests, the settings of `MCMaxConcurrentRequests` | slots, waiters and lock agree; the lock comes free; waits end; nobody is passed over forever |
| `votes` | 2 overlapping administrators, 3 votes, no posts | `AtMostOneOpen` while requests do not overlap; `EnabledByStart` even when they do |
| `votes_reset` | 2 administrators, 1 vote, 3 posts | `ResetStartsOver`: what a reset saves is as good as new, but for what others saved meanwhile |
| `voter` | 1 phone, 2 votes, one just started, votes of 2 seconds, 2 events, 2 vote pages alive | `TypeOK`; `BeliefsFounded`: who is thanked has had a vote taken, who is taken for a voter has had one taken or refused |
| `voter_timeout` | the same, no vote started yet | violation of `TimeoutMeansTimeUp` (finding 3) |
| `wall` | 1 guest with 2 photos, 2 rows, 1 check page and pull, a text wall of 1 and a picture wall of 2+1, 1 event, 1 lost connection per run | `OnlyPassed`, `WallsBounded`, `CarouselCurrent`, `SentAsConfirmed`, `PassedIsShown`, `PicturesTurn` |
| `wall_pulls` | 1 row, 2 check pages, 2 pulls, 1 event | `PassedStays`: only a pull that read together with another one takes a passed message back |
| `quiz` | 1 employee, 2 quizzes of 2 photos and 2 seconds, 4 events | `NoPartialAnswers`, `ThanksMeansDone`, `QuizEnds` |

Why the bounds are enough. With three rows and batches of two a flush is full, another is not, a
row arrives in every step of both that `Untorn` leaves, and a restart finds rows before and after
it. An array that grows by one at least has 0, 1, 2 and 4 places: with three rows it grows each
time it may, full and wrapped around or not, and is also wrapped around without growing. Two
threads are
what it takes for a tick to meet a running callback, or a stopping one to meet a new timer. Three
requests fill a limit of one and a queue with one more than it holds; the settings cover every
policy, no limit, an invalid limit and length, with and without a time in queue. Three votes let a
request act on one, find a second open and a third at the top, and two requests are a race. One
vote and three posts put rows in the table, in the queue and in a reset's hands at once, with
another administrator who resets, starts, ends, updates or deletes the same vote.
`MaxRows`, `MaxVotes` and `MaxPosts` only stop what clients and administrators start. The queue's
configurations turn the deadlock check off, because once `MaxRows` rows are in and the timer has
stopped nothing has to happen; so do those of `VoterApp`, `Wxq` and `Jdly`, whose users and
administrators may all stop; the limiter and the votes keep it.

`MaxEvents` bounds requests of administrators, faults and restarts together (`VoterApp`, `Jdly`),
or faults, deletions and clicks (`Wxq`). Phones of `VoterApp` do not affect one another: they
share the table, where a row is theirs alone, the cache, which outlives any number of requests by
choice, and the broadcast, whose consumer may leave any phone out. One phone is therefore every
phone; two of its vote pages give a countdown that is shown, one that is not, and a handle that
names either. Two events are a second start of the vote with its end, a start and a loss, an
opening and a restart, or a refused vote and what comes after it. Two seconds tell a countdown
under way from its last second and from its end. A text wall of one place overflows at the second
message, a picture wall of two and one is filled by two rows and a redelivery and overflows with
the next. One event on the wall is one loss, one deletion or one click before the liveness
properties take hold, which say nothing of the time when anything may still fail. In `wall_pulls`
two pulls are what it takes to read together, and a third could only read the same rows; two pages
are one that passes and one that is late, or one page that was loaded again. One row tells,
because pulls treat each row apart. Four events make a quiz started, cleared, and started again,
or replaced, with a request lost or answered by an error in between.

Fairness. `DbOperationMngr!FairSpec`: a thread inside an insert or a callback goes on (they do not
block on anything but the database, whose command timeout ends in a `Crash` or a save), and a
scheduled Timer with a period fires again and again. Nothing makes a client insert. `Fire` is
weakly fair per Timer over all threads: a thread pool whose threads are all busy owes nothing.
`MaxConcurrentRequests!FairSpec`: handlers end, cancelled tokens call back, and a thread that
keeps asking for the lock gets it (strong fairness of the steps that need the lock, for it may be
taken and freed many times meanwhile); `Yield` is not fair, as a handler may be wholly
synchronous. `Wxq`: the broker delivers what a queue holds, a browser handles what has arrived,
and the carousel's interval ticks; nothing makes a guest, a checker or the server's request go
on. `Jdly`: time passes, and an interval of JavaScript ticks. `VoterApp` states safety only.

### Findings

1. `dbqueue_race`: a `Dequeue` that falls between the copy of a growing array and its installation
   is undone: the head is back at a row already taken, the tail is one place short, and the
   insert's row overwrites the one before it, which nobody hears of. `DbOperationMngr.cs:30-31`
   say that the inserts are locked against this while rows are dequeued asynchronously, and `Post`
   has answered "success" for the row (`VoteController.cs:224`).
2. `dbqueue_stop`: the callback tests `timerSteps` and clears `timerIsRunning` without the
   inserts' lock. An insert in between enqueues, sees the timer running and starts none; the row
   stays in a queue nothing drains until the next insert. `DbOperationMngr.cs:29` says the timer
   exits after three rounds without a new row.
3. `voter_timeout`: of an enabled vote the waiting page's refresh opens the vote page and then
   fails, because `app.js:166` names a variable `app` it does not have; `endTimeStamp` stays
   undefined, the countdown starts at `NaN`, and after a second the voter is at the timeout page
   of a vote that is open. What that page shows is `/img/timeout.png` (`voteTimeout.wxml:9`), a
   picture of the words "Sorry, Voting has closed"; the words "Sorry the voting time is up" are
   commented out there (line 6) and live in `vote.wxml:14`. From the index page it takes a vote that
   is started between the answer of `CheckVoted` and that of `CheckEnable`, with the socket not open
   yet, or the command lost or still on its way.

Two more divergences are plain from the code and have no run. The flush compares `i` with a
`Count` its own `Dequeue` lowers (`DbOperationMngr.cs:57`), so of a short queue a tick takes half,
where the comments at lines 28 and 54 say it takes the top `maxBatchSize` items. Opening the vote
that is open already closes it (`GameController.cs:367`: the query for other open votes finds it),
while `Index.cshtml:70` reports success. The model does both.

## 4. Proofs

Every safety property the runs check is proved by TLAPS, for every value of the constants; what
TLC checks on a small instance is there stated by a theorem. Each theorem has the same shape: an
inductive invariant, a lemma that `Init` implies it, one that every step of `Next` keeps it, with
a case for each action, and the property from it.

Assumptions. Each module names one about its constants, and TLC evaluates it in every run.

| assumption | says | why |
|---|---|---|
| `DbOperationMngr!ConstantsOK` | `MaxBatch` and `MinimumGrow` are positive, `MaxRows` is a natural number | literals of the code and of .NET; a bound |
| `MaxConcurrentRequests!ConstantsOK` | settings are integers, of any sign; `None` is no request | options are read from a file, and the code corrects them |
| `VoteLifecycle!ConstantsOK` | the two bounds are natural numbers | |
| `VoterConstants`, `QuizConstants` | Ids and seconds are positive, there is a vote or quiz, and there is a longest choice of seconds | Ids are counted from 1; administrators choose from a form; ages are capped beyond the longest |
| `WallConstants` | the walls' and the pulls' sizes are natural numbers, the text wall has a place; `NoPhoto` is no photo | literals of the pages |

### The write-behind queue

| theorem | statement | argument |
|---|---|---|
| `TypeCorrect` | `Spec => []TypeOK` | `Types` = types of the data and of the callbacks, plus `RegTypes` and `PlaceInv`. `TypeOK` alone is not inductive: `Bump` stores a `timerSteps` that `CountEmpty` loaded steps before, and slots are read and stored at positions found steps before, so the invariant says what a register holds while it is to be stored, and that the head stays a position of an array that others replace. The tail need not: after a wrong `_size` it may be none. The two flags have their own lemma. |
| `FlagAlwaysOwned` | `Spec => []FlagOwned` | A callback's steps are of six kinds (`CallbackKinds`): `Quiet`, `Takes`, `Empties`, `Advances`, `Shrinks`, `Writes`. None leaves the section with the flag set by itself: `Release` resets it, the rest end in `Crash`. Overlap does no harm, because a callback that enters sets the flag and stays. |
| `RowsConserved` | `SerialSpec => []Conservation` | From `SerialInv`, below: the newest rows are in the ring, and those that have left it are in a batch or written. |
| `ImplementsAsyncWriter` | `SerialSpec => IsAsyncWriter` | `Put` maps to `Accept`, `Write` to `Persist`, `Crash` to `Die`, every other step to a stutter. |

`SerialInv` is the inductive invariant of `SerialSpec`, in two layers. `RingInv` is about the
array. `Waiting` is what `_size` would be if nobody were inside an Enqueue or a Dequeue, and
`First` the row at the front that goes with it: from the head on, or from the place after it while
a `Dequeue` has read the row there and not yet moved the head, the array holds the rows from
`First` to the last one, in order and around its end, and the tail is the place after them; a copy
under way holds them as well, from its start; an insert that is about to store has a free place to
do it. That is where `Untorn` is used: a copy made before a `Dequeue`, or a `_size` loaded before
it, would be of the past when it is stored. `GrownRows` says that the copy puts a ring straight.
`RowsInv` is about the rows: those written are increasing and less than those of the one batch,
those increasing and less than `First`, and what is less than `First` is in one of the two. Every
step of a callback is taken through both layers by its kind: `RingTakes`, `RingEmpties`,
`RingAdvances`, `RingShrinks` and `RowsTake`, `RowsWrite`. Neither `Conservation` nor the order of
the table is inductive without the ring: that a row is not overwritten depends on `_size`, on both
ends and on the length at once. (The restriction to one flush is needed: two callbacks in the loop
both read the row at the head. So is `Untorn`: finding 1.)

### The limiter

| theorem | statement |
|---|---|
| `LimiterTyped` | `Spec => []TypeOK`: among others, the counter of slots is never negative |
| `SlotsAlwaysBounded` | `Spec => []SlotsBounded` |
| `WaitersAlwaysQueued` | `Spec => []WaitersQueued` |
| `InlineAlwaysHolds` | `Spec => []InlineHolds` |

`LimiterInv` is the conjunction of the four, because each needs the others: that the counter does
not get below zero needs a slot for the request that leaves, a hand-over keeps the count of slots
because the waiter at the head was in nobody's count, and that the waiter who goes on inside the
lock has a slot needs that those in the queue wait. Two conjuncts join them. The set of holders is
finite although the requests need not be, and without a limit (`UnlimitedInv`) nobody waits,
decrements or runs inside the lock, so the counter may stand still while requests run. The lemmas
are about the queue of waiters (`EnqueueWaiters`, `CancelWaiters`, `HandOverWaiters`, from
`SequenceLemmas`) and about the set of holders (`HoldersMove`).

### Administrators and votes

| theorem | statement | invariant |
|---|---|---|
| `VotesTypeCorrect` | `Spec => []TypeOK` | `TypeInv`: `TypeOK`, and the posted rows that wait are a sequence |
| `OneOpenVote` | `Spec => []AtMostOneOpen` | `OpenInv` |
| `StartedByStart` | `Spec => EnabledByStart` | `EnableInv`: a change that sets `IsEnable` belongs to a StartVote of that vote that is about to save, and one that sets `Expired` to an EndVote |
| `ResetsStartOver` | `Spec => ResetStartsOver` | `EnableInv`, and `ResetInv`: a reset under way will clear what its vote had when it read it, and delete the rows of its vote that were in the table when it read those |

`AtMostOneOpen` says nothing of the changes a request carries from its reads to its save, and from
them a second open vote comes. `OpenInv` says, while requests do not overlap, what the save of the
one request in progress will leave open (`LeavesOne`): one vote at most; none before the second
transaction of a delete; and before its second read an update or an opening opens no vote but its
own. It is kept by the other steps because nobody else saves meanwhile, which is where the
hypothesis that requests do not overlap is used. `StartedByStart` and `ResetsStartOver` do without
it. In `ResetInv`, whatever the vote has by now of what a reset read as clear, and so will not
clear, was saved in the meantime, and by `EnableInv` only a start or an end can have done that.
`Flush` writes what `AsyncWriter` allows; that the queue keeps to it is `ImplementsAsyncWriter`,
with its hypotheses.

### Phones

| theorem | statement |
|---|---|
| `VoterTyped` | `Spec => []TypeOK` |
| `BeliefsAreFounded` | `Spec => []BeliefsFounded` |

`VoterInv` has four parts: the server's vote and its cache, the commands under way, what the
variables are, and `PhoneInv` for each phone. A phone learns that it has voted from an answer, so
`ServerInv` says that the rows, waiting or written, are of phones of which a vote has been taken,
and `GoodCalls` that an answer tells a phone only what the server knows: that it has voted, that its
vote is taken, or that it has been refused. A post under way is for a vote there is; the page took
that vote over from Info, perhaps from a cache, before it asked its voter to confirm, so `Good` says
that a page that asks has a vote. Of a page that got an error it says nothing but that its
countdown is a number or `NaN`. That the shown page comes last of those alive, and the gone ones
stay only while they can act, is `Views`. `taken` and `refused` only grow, so the steps of one phone
leave the others alone. `PageMoves`, `StayMoves` and `VoteMoves` are about what a redirect leaves of
the vote pages, and every action is brought back to them by `PhoneStep`.

### The wall

| theorem | statement | invariant |
|---|---|---|
| `WallTyped` | `Spec => []TypeOK` | `WallInv`, `GuestInv` |
| `NothingUnchecked` | `Spec => []OnlyPassed` | `RowsInv` |
| `WallsKeepBounds` | `Spec => []WallsBounded` | `ListsInv` |
| `CarouselStaysCurrent` | `Spec => []CarouselCurrent` | `BannerInv` |
| `ConfirmedIsSent` | `Spec => SentAsConfirmed` | `GuestInv` |
| `PassedNeverTakenBack` | `Spec => PassedStays` | `WallInv`, `FreshInv` |

`RowsInv` follows a message on its way: rows marked checked have been passed, and so have those a
check page asks to publish or a wall asks to delete, and all that is queued, unacknowledged, on a
socket or displayed. It is one invariant of the table, the calls and the messages, for each is
filled from another. `ListsInv` and `BannerInv` rest on one lemma, `RefilledKeeps`: a load, an
arrival and a deletion each set a wall's messages, the list beside them and the carousel's count
together. `PhotoInv` in `GuestInv` says that between confirmation and upload a photo stays
previewed, and while it does no other can be taken; it holds of `WxqApp` only. `FreshInv` says that
the rows of a pull that has read alone, and not saved yet, are still new, since only a pull makes a
new row anything else, that no other pull is then between its read and its save, and that what
check pages show, ask for or have passed is not new. So its save cannot touch a passed row, whatever
pages there are and however often they are loaded.

### The quiz

| theorem | statement |
|---|---|
| `QuizTyped` | `Spec => []TypeOK` |
| `AnswersComplete` | `Spec => []NoPartialAnswers` |
| `ThankedWhenDone` | `Spec => ThanksMeansDone` |

`JdlyInv` has four parts. `TableInv`: there is a newest quiz, and the cache holds one as it once
was. `PhoneInv`: a phone has a view exactly while it shows the vote page, and a view that is
running has a countdown in its range or got an error, with `NaN` and no photos. `AnswersInv`: an
answer is whole when it is sent, not only when it is written, and one that is acknowledged was
taken. `CurrentInv`: what the cache has of a quiz the table has kept since agrees with the table,
also in age, and the countdown of a page that got it is what is left of the quiz by the table,
with the second that is due. None of the properties is inductive alone, since they are about the
table and what breaks them would happen on the phone, or in the cache.

### What is not proved

Liveness under fairness is out of the prover's reach: `NoStarvation`, `LockReleased`, `WaitEnds`,
`NoOvertaking`, `PassedIsShown`, `PicturesTurn` and `QuizEnds` are only model-checked. So is what
the three runs that expect a violation show. `RowsConserved` and `ImplementsAsyncWriter` are about
`SerialSpec`, `OneOpenVote` about administrators who take turns; without these restrictions the
code does not have the property. `PassedStays`, `ThanksMeansDone` and `BeliefsFounded` carry their
exceptions in their own words, and each exception occurs: overlapping pulls do take a passed
message back, a restarted quiz or an error answer does thank early, and a phone does take its voter
for one who has voted when his vote was refused.

## 5. Plan

The proofs of the safety properties are complete. Left to do, in this order:

1. what a guest's message goes through, as an abstract specification (sent, pulled, passed,
   published, deleted) that `Wxq` implements while pulls do not overlap;
2. what `VoteLifecycle` promises phones, as an abstract table of votes with one open vote and
   atomic requests, that requests which do not overlap implement;
3. the lemmas on sequences of `DbOperationMngrSerial_proofs` replaced by those of
   `SequenceLemmas`.

Out of the prover's reach, and left to TLC: liveness under fairness, and what a recursive
definition computes for every input.

### Not modelled, and why

- *Live results.* The call of `PorcessResult` in `Post` is commented out, so its totals in memory
  change under the load test's endpoint `PostTest3` only. A screen counts the option names it
  receives on top of what it loaded; that it may count a vote twice or not at all is plain from
  its code, so there is no property of the count to check, and its ranking is a sort.
- *Users and login*: request handlers of one check and one insert each, beside a session.
- *WeChat access token*: one flag that is never reset; the hazard is listed.
- *Publishing tool, templates, pressure tests, vendored scripts*: not part of the program.
- Requests of administrators that overlap the commands they publish, and phones whose clocks differ:
  each makes a phone count down to another end than the database has, and the code has nothing
  against it.

## 6. Running it

`tlc -workers 2 -config DbQueueSafety.cfg MCDbOperationMngr` and so on, as `PROJECT.json` pairs
them; the longest runs take two to three minutes. `tlapm M.tla` checks the proofs of a module
`..._proofs` or of `SequenceLemmas`, in half a minute to three minutes. Definitions named
`Mutant...` are broken forms of the definition they name, one or more for every property that
holds: put in its place, TLC finds the property violated (`PROJECT.json`, "mutants").
