----------------------------- MODULE VoterApp ------------------------------
(***************************************************************************)
(* The voters' mini-program (VoteWeapp) and what it asks of the server.    *)
(*                                                                         *)
(* A phone shows one page at a time. What moves it: the voter, commands    *)
(* the administrator's requests publish (Broadcast), answers of requests   *)
(* the phone has sent, and the countdowns of its vote pages. Callbacks and *)
(* countdowns outlive the page they belong to: no page clears anything     *)
(* when it is left.                                                        *)
(*                                                                         *)
(* Time: a time stamp is kept as its age in seconds, Tick ages them all,   *)
(* and Old stands for every age beyond the longest vote. Phones' clocks    *)
(* agree with the server's.                                                *)
(***************************************************************************)
EXTENDS Integers, Sequences, SequencesExt, FiniteSetsExt

CONSTANTS
  Phones,
  Votes,          \* Ids of the table VoteInfo
  Started,        \* whether the open vote has just been started when the model begins
  Seconds,        \* the CloseSeconds administrators choose
  LaunchPages,    \* the pages of app.json the mini-program is opened at
  MaxViews,       \* bound of the model: vote pages of a phone alive at once
  MaxEvents,      \* bound of the model: requests of administrators, losses, errors, closed sockets
                  \* and restarts, together
  MaxQueue,       \* bound of the model: commands under way
  MaxCalls        \* bound of the model: requests of a phone under way when it makes another

ASSUME VoterConstants ==
  /\ Votes \subseteq Nat \ {0} /\ Votes # {}
  /\ Seconds \subseteq Nat \ {0} /\ \E longest \in Seconds : \A s \in Seconds : s <= longest
  /\ LaunchPages \subseteq {"index", "login"} /\ MaxViews \in Nat /\ Started \in BOOLEAN

VARIABLES
  info,           \* VoteInfo: IsEnable, age of EnableStartTime, CloseSeconds
  open,           \* the vote that is open
  queued, rows,   \* VoteLog: rows that wait to be written, rows of the database
  taken, refused, \* history: the phones a vote of which has been taken; has been answered with an error
  events,         \* how many of them there have been
  infoCache,      \* the cached answer of Info: a vote and its CloseSeconds
  queue, unacked, recoveries, socket, inbox,   \* see Broadcast
  page,           \* the page a phone shows
  app,            \* app.globalData
  form,           \* the data of the pages index and voteWaiting
  call,           \* the requests a phone has sent, by kind
  view            \* its vote pages: those gone that can still act, then the shown one

server == <<info, open, queued, rows, taken, refused, events>>
wire == <<queue, unacked, recoveries, socket, inbox>>
phone == <<page, app, form, call, view>>
vars == <<server, infoCache, wire, phone>>

Commands == "BroadcastUserInfo"
Wire == INSTANCE Broadcast WITH Queues <- {Commands}, Receivers <- Phones,
          Listens <- [p \in Phones |-> Commands], MaxRecoveries <- 0

Old == Max(Seconds) + 1
Unset == -1                        \* undefined
Ages == 0 .. Old
Stamps == {Unset} \cup Ages
Older(t) == IF t = Unset THEN Unset ELSE Min({t + 1, Old})

Pages == {"none", "index", "login", "voteWaiting", "vote", "voteTimeout", "thanks", "voteStop"}
Kinds == {"checkVoted", "login", "submit", "checkEnable", "post"}
Command(c, t) == [cmd |-> c, timestamp |-> t]

\* A request a phone has sent: an answer has what CheckVoted, CheckEnable or Post say.
NoCall == [st |-> "none"]
Sent == [st |-> "sent"]
Ask(calls, kind) == [calls EXCEPT ![kind] = Sent]
Idle(p) == Cardinality({k \in Kinds : call[p][k].st # "none"}) < MaxCalls

\* A vote page: st tells how far its getVoteInfo is; left is timeToStop, due that a second is
\* up, handle that the global votePageTimer names its countdown; modal that the voter is asked
\* to confirm.
NaN == -Old - 1
View(left) == [st |-> "sent", left |-> left, vote |-> 0, due |-> FALSE, handle |-> FALSE,
               modal |-> FALSE]
Alive(v) == v.st \in {"sent", "running"} \/ v.modal
Left(v) == IF v.modal THEN v ELSE [v EXCEPT !.vote = 0]
Gone(views) ==
  LET alive == {i \in DOMAIN views : Alive(views[i])}
      nth(k) == CHOOSE i \in alive : Cardinality({j \in alive : j < i}) = k - 1
  IN [k \in 1 .. Cardinality(alive) |-> Left(views[nth(k)])]
Shown(p, i) == page[p] = "vote" /\ i = Len(view[p])

NewForm == [login |-> FALSE, connected |-> FALSE]
\* globalData when the app starts; userInfo: whether it is known.
NewApp == [userInfo |-> FALSE, voted |-> FALSE, endTimeStamp |-> Unset]

Init ==
  /\ open = Min(Votes)
  /\ info = [v \in Votes |-> IF v = open /\ Started
                               THEN [enabled |-> TRUE, age |-> 0, secs |-> Min(Seconds)]
                               ELSE [enabled |-> FALSE, age |-> Old, secs |-> Min(Seconds)]]
  /\ queued = {} /\ rows = {} /\ taken = {} /\ refused = {} /\ events = 0
  /\ infoCache = <<>>
  /\ Wire!Start({})
  /\ page = [p \in Phones |-> "none"]
  /\ app = [p \in Phones |-> NewApp]
  /\ form = [p \in Phones |-> NewForm]
  /\ call = [p \in Phones |-> [k \in Kinds |-> NoCall]]
  /\ view = [p \in Phones |-> <<>>]

-----------------------------------------------------------------------------
(* Pages. The operators below say what phone p shows after a step, given   *)
(* its views and calls by then. They set page, form, call and view.        *)

Stay(p, views, calls) ==
  /\ view' = [view EXCEPT ![p] = IF page[p] = "vote" THEN Gone(Front(views)) \o <<Last(views)>>
                                                     ELSE Gone(views)]
  /\ call' = [call EXCEPT ![p] = calls]
  /\ UNCHANGED <<page, form>>

Page(p, to, views, calls) ==
  /\ page' = [page EXCEPT ![p] = to]
  /\ form' = [form EXCEPT ![p] = NewForm]
  /\ view' = [view EXCEPT ![p] = Gone(views)]
  /\ call' = [call EXCEPT ![p] = calls]

\* index: its onLoad asks for GetInfo.
Index(p, views, calls) == Page(p, "index", views, calls)

Login(p, views, calls) == Page(p, "login", views, calls)

\* voteWaiting: its onReady refreshes.
VoteWaiting(p, views, calls) ==
  Page(p, "voteWaiting", views, Ask(calls, "checkEnable"))

\* Pages whose markup binds no handler.
VoteTimeout(p, views, calls) == Page(p, "voteTimeout", views, calls)
Thanks(p, views, calls) == Page(p, "thanks", views, calls)
VoteStop(p, views, calls) == Page(p, "voteStop", views, calls)

\* vote: its onLoad computes timeToStop from endTimeStamp, and asks for Info.
VotePage(p, left, views, calls) ==
  LET gone == Gone(views)
  IN /\ Len(gone) < MaxViews
     /\ page' = [page EXCEPT ![p] = "vote"]
     /\ form' = [form EXCEPT ![p] = NewForm]
     /\ view' = [view EXCEPT ![p] = Append(gone, View(left))]
     /\ call' = [call EXCEPT ![p] = calls]

\* Mutated form: without the sign.
MutantVote(p, endTimeStamp, views, calls) ==
  VotePage(p, IF endTimeStamp = Unset THEN NaN ELSE endTimeStamp, views, calls)

Vote(p, endTimeStamp, views, calls) ==
  VotePage(p, IF endTimeStamp = Unset THEN NaN ELSE -endTimeStamp, views, calls)

\* clearInterval(votePageTimer): it stops the countdown started last, if that still runs.
Cleared(p) ==
  [i \in DOMAIN view[p] |->
     IF view[p][i].handle
     THEN [view[p][i] EXCEPT !.st = "stopped", !.left = 0, !.due = FALSE, !.handle = FALSE]
     ELSE view[p][i]]

-----------------------------------------------------------------------------
(* The server. Administrators take turns, start, end and reset the open    *)
(* vote and open another one (VoteLifecycle has the rest); a request that  *)
(* starts, ends or opens saves and then publishes a command.               *)

Event == events < MaxEvents /\ events' = events + 1

Saved(v, record, command) ==
  /\ Event
  /\ Wire!Room(Commands)
  /\ info' = [info EXCEPT ![v] = record]
  /\ Wire!Publish(Commands, command)
  /\ UNCHANGED <<queued, rows, taken, refused, infoCache, phone>>

\* The time sent is now, whether the vote has been enabled before or not.
StartVote(s) ==
  LET start == IF info[open].enabled THEN info[open].age ELSE 0
  IN /\ Saved(open, [enabled |-> TRUE, age |-> start, secs |-> s], Command("startVote", 0))
     /\ UNCHANGED open

EndVote ==
  /\ Saved(open, [info[open] EXCEPT !.enabled = FALSE], Command("endVote", Unset))
  /\ UNCHANGED open

OpenVote(v) ==
  /\ v # open
  /\ Saved(v, info[v], Command("nextVote", info[v].age))
  /\ open' = v

\* It deletes the rows that are written, and tells the phones nothing.
ResetVote ==
  /\ Event
  /\ info' = [info EXCEPT ![open].enabled = FALSE]
  /\ rows' = {r \in rows : r[1] # open}
  /\ UNCHANGED <<open, queued, taken, refused, infoCache, wire, phone>>

Deliver == Wire!Deliver(Commands) /\ UNCHANGED <<server, infoCache, phone>>

Fault == Event /\ UNCHANGED <<info, open, queued, rows, taken, refused, infoCache>>

Interrupted == Fault /\ Wire!Interrupted(Commands) /\ UNCHANGED phone

\* DbOperationMngr writes the rows that wait, or loses them with the process.
Flush ==
  /\ queued # {}
  /\ rows' = rows \cup queued
  /\ queued' = {}
  /\ UNCHANGED <<info, open, taken, refused, events, infoCache, wire, phone>>

Crash ==
  /\ Event
  /\ queued # {} /\ queued' = {}
  /\ UNCHANGED <<info, open, rows, taken, refused, infoCache, wire, phone>>

\* Five seconds without a request.
ExpireInfo == infoCache # <<>> /\ infoCache' = <<>> /\ UNCHANGED <<server, wire, phone>>

\* Whether the database has a row of phone p of the open vote.
Found(p) == <<open, p>> \in rows

\* The handler of a request runs.
Asked(p, kind) == call[p][kind].st = "sent"
Serve(p, kind, answer) ==
  /\ Asked(p, kind)
  /\ call' = [call EXCEPT ![p][kind] = answer]
  /\ UNCHANGED <<server, infoCache, wire, page, app, form, view>>

\* The answer says whether the vote is enabled, which the callback asks of who has not voted.
CheckVoted(p) ==
  LET enabled == info[open].enabled /\ ~Found(p)
  IN Serve(p, "checkVoted", [st |-> "answered", voted |-> Found(p), enabled |-> enabled,
                             age |-> IF enabled THEN info[open].age ELSE Unset])

CheckEnable(p) ==
  Serve(p, "checkEnable", [st |-> "answered", enabled |-> info[open].enabled])

\* Post queues the row and says so; or answers an error, before it has queued it (no vote in the
\* request, a queue that throws, no server behind nginx) or after (the exchange of results).
Answer(p, row, queues, ok) ==
  /\ call' = [call EXCEPT ![p]["post"] = [st |-> "answered", ok |-> ok]]
  /\ IF queues THEN queued' = queued \cup {row} /\ taken' = taken \cup {p} ELSE UNCHANGED <<queued, taken>>
  /\ IF ok THEN UNCHANGED <<refused, events>> ELSE refused' = refused \cup {p} /\ Event

Post(p) ==
  /\ Asked(p, "post")
  /\ \E queues, ok \in BOOLEAN : (ok => queues) /\ Answer(p, <<call[p]["post"].vote, p>>, queues, ok)
  /\ UNCHANGED <<info, open, rows, infoCache, wire>>
  /\ UNCHANGED <<page, app, form, view>>

\* A request or its answer is lost: no page of the program has a handler for that.
Lose(p) ==
  /\ \/ \E k \in Kinds : call[p][k].st # "none" /\ Stay(p, view[p], [call[p] EXCEPT ![k] = NoCall])
     \/ \E i \in DOMAIN view[p] : /\ view[p][i].st = "sent"
                                  /\ Stay(p, [view[p] EXCEPT ![i] = [View(0) EXCEPT !.st = "lost"]], call[p])
  /\ Fault
  /\ UNCHANGED <<wire, app>>

-----------------------------------------------------------------------------
(* app.js                                                                  *)

\* onLaunch, which calls startGetMsg, and the first page.
Launch(p, to) ==
  /\ page[p] = "none"
  /\ Wire!Connect(p)
  /\ IF to = "index" THEN Index(p, view[p], call[p]) ELSE Login(p, view[p], call[p])
  /\ UNCHANGED <<server, infoCache, app>>

\* The voter ends the program; the phone keeps nothing.
Quit(p) ==
  /\ page[p] # "none"
  /\ page' = [page EXCEPT ![p] = "none"]
  /\ app' = [app EXCEPT ![p] = NewApp]
  /\ form' = [form EXCEPT ![p] = NewForm]
  /\ call' = [call EXCEPT ![p] = [k \in Kinds |-> NoCall]]
  /\ view' = [view EXCEPT ![p] = <<>>]
  /\ IF socket[p] = "closed" THEN UNCHANGED wire ELSE Wire!Closed(p)
  /\ Fault

\* getUserInfo answers onLaunch, or the voter taps the button of the index page for it.
UserKnown(p) ==
  /\ page[p] # "none" /\ ~app[p].userInfo
  /\ app' = [app EXCEPT ![p].userInfo = TRUE]
  /\ UNCHANGED <<server, infoCache, wire, page, form, call, view>>

\* The handlers of onSocketOpen; of onSocketClose and onSocketError.
SocketOpens(p) == Wire!Opened(p) /\ UNCHANGED <<server, infoCache, phone>>
SocketCloses(p) == page[p] # "none" /\ Fault /\ Wire!Closed(p) /\ UNCHANGED phone

StartGetMsg(p) == IF socket[p] = "closed" THEN Wire!Connect(p) ELSE UNCHANGED wire

\* The handler of onSocketMessage, with gotoVote, gotoStopVote and goBack.
OnSocketMessage(p) ==
  LET m == Head(inbox[p])
  IN /\ Wire!Receive(p)
     /\ app' = [app EXCEPT ![p].endTimeStamp = m.timestamp]
     /\ \/ m.cmd = "startVote" /\ ~app[p].voted /\ Vote(p, m.timestamp, view[p], call[p])
        \/ m.cmd = "startVote" /\ app[p].voted /\ Stay(p, view[p], call[p])
        \/ m.cmd = "endVote" /\ VoteStop(p, view[p], call[p])
        \/ m.cmd = "nextVote" /\ Index(p, view[p], call[p])
     /\ UNCHANGED <<server, infoCache>>

-----------------------------------------------------------------------------
(* The pages index, login and voteWaiting.                                 *)

\* Phone p handles the answer of its request of this kind.
Answered(p, kind) == call[p][kind].st = "answered"
Done(p, kind) == [call[p] EXCEPT ![kind] = NoCall]

\* GetInfo, and its callback while the index page that asked is still shown: the page asks for
\* the code of an employee from now on. (If it need not, the page stays as it was.)
GotInfo(p) ==
  /\ page[p] = "index" /\ ~form[p].login
  /\ form' = [form EXCEPT ![p].login = TRUE]
  /\ UNCHANGED <<server, infoCache, wire, page, app, call, view>>

\* The button is shown once the voter is known or has refused to be, whether getInfo has
\* answered or not. Where the page asks for a code, it has been typed in, and goVote fails of
\* an unknown voter.
GoVote(p) ==
  /\ page[p] = "index"
  /\ Idle(p)
  /\ \/ /\ form[p].login /\ app[p].userInfo /\ call[p]["login"].st = "none"
        /\ Stay(p, view[p], Ask(call[p], "login"))
        /\ UNCHANGED wire
     \/ /\ ~form[p].login /\ call[p]["checkVoted"].st = "none"
        /\ Stay(p, view[p], Ask(call[p], "checkVoted"))
        /\ StartGetMsg(p)
  /\ UNCHANGED <<server, infoCache, app>>

\* CheckVoted's callback. It redirects whatever page is shown by now.
CheckedVoted(p) ==
  LET c == call[p]["checkVoted"]  calls == Done(p, "checkVoted")
  IN /\ Answered(p, "checkVoted")
     /\ \/ /\ ~c.voted /\ c.enabled
           /\ app' = [app EXCEPT ![p].endTimeStamp = c.age]
           /\ Vote(p, c.age, view[p], calls)
        \/ ~c.voted /\ ~c.enabled /\ VoteWaiting(p, view[p], calls) /\ UNCHANGED app
        \/ c.voted /\ Thanks(p, view[p], calls) /\ UNCHANGED app
     /\ UNCHANGED <<server, infoCache, wire>>

\* Login, of an employee's code or another one, and its callback on the index page: left is
\* timeStamp. The last branch would open the vote page, but it reads a variable e that the
\* function does not have.
LoggedIn(p) ==
  LET calls == Done(p, "login")  vote == info[open]  left == vote.secs - vote.age
  IN /\ Asked(p, "login")
     /\ \/ Stay(p, view[p], calls) /\ UNCHANGED <<app, wire>>
        \/ /\ app' = [app EXCEPT ![p].endTimeStamp = vote.age]
           /\ StartGetMsg(p)
           /\ \/ Found(p) /\ Thanks(p, view[p], calls)
              \/ ~Found(p) /\ vote.enabled /\ left < 0 /\ VoteTimeout(p, view[p], calls)
              \/ ~Found(p) /\ (left > 0 \/ ~vote.enabled) /\ VoteWaiting(p, view[p], calls)
              \/ ~Found(p) /\ vote.enabled /\ left = 0 /\ Stay(p, view[p], calls)
     /\ UNCHANGED <<server, infoCache>>

\* The login page: formSubmit and its callback, which assigns no endTimeStamp.
FormSubmit(p) ==
  /\ page[p] = "login" /\ app[p].userInfo /\ Idle(p) /\ call[p]["submit"].st = "none"
  /\ Stay(p, view[p], Ask(call[p], "submit"))
  /\ UNCHANGED <<server, infoCache, wire, app>>

Submitted(p) ==
  LET calls == Done(p, "submit")
  IN /\ Asked(p, "submit")
     /\ \/ Stay(p, view[p], calls)
        \/ ~info[open].enabled /\ VoteWaiting(p, view[p], calls)
        \/ info[open].enabled /\ Vote(p, app[p].endTimeStamp, view[p], calls)
     /\ UNCHANGED <<server, infoCache, wire, app>>

\* refresh, bound to the button that is shown while the page does not say it is connected.
Refresh(p) ==
  /\ page[p] = "voteWaiting" /\ ~form[p].connected /\ Idle(p) /\ call[p]["checkEnable"].st = "none"
  /\ Stay(p, view[p], Ask(call[p], "checkEnable"))
  /\ UNCHANGED <<server, infoCache, wire, app>>

\* gotoRefresh's callback. Of an enabled vote it opens the page and then fails: app is not
\* defined in app.js, so endTimeStamp stays what it was.
Refreshed(p) ==
  LET calls == Done(p, "checkEnable")
  IN /\ Answered(p, "checkEnable")
     /\ \/ call[p]["checkEnable"].enabled /\ Vote(p, app[p].endTimeStamp, view[p], calls)
        \/ /\ ~call[p]["checkEnable"].enabled
           /\ call' = [call EXCEPT ![p] = calls]
           /\ form' = IF page[p] # "voteWaiting" THEN form
                      ELSE [form EXCEPT ![p].connected = socket[p] = "open"]
           /\ UNCHANGED <<page, view>>
     /\ UNCHANGED <<server, infoCache, wire, app>>

-----------------------------------------------------------------------------
(* The vote page.                                                          *)

\* getVoteInfo's callback, also for a page that is gone: the countdown starts, and votePageTimer
\* names it. Info never says "voted".
Loaded(p, i, vote, left) ==
  LET views == [j \in DOMAIN view[p] |-> [view[p][j] EXCEPT !.handle = FALSE]]
  IN /\ view[p][i].st = "sent"
     /\ Stay(p, [views EXCEPT ![i] = [@ EXCEPT !.st = "running", !.vote = vote, !.left = left,
                                               !.handle = TRUE]], call[p])
     /\ app' = [app EXCEPT ![p].voted = FALSE]

\* Info answers a vote. (An answer that comes late is what a cache that lives longer answers.)
GotVoteInfo(p, i) ==
  LET answer == IF infoCache = <<>> THEN <<open, info[open].secs>> ELSE infoCache
      left == view[p][i].left
  IN /\ Loaded(p, i, answer[1], IF left = NaN THEN NaN ELSE Max({0, left + answer[2]}))
     /\ infoCache' = answer
     /\ UNCHANGED <<server, wire>>

\* It answers an error, which has no seconds and no options to choose from.
GotNoInfo(p, i) == Loaded(p, i, 0, NaN) /\ Fault /\ UNCHANGED wire

\* A countdown's second is up. At the end it clears the interval started last, which need not
\* be its own, and leaves whatever page is shown.
TimeIsUp(p, i) == view[p][i].due /\ ~(view[p][i].left > 0)
CountDown(p, i) ==
  /\ view[p][i].due
  /\ IF TimeIsUp(p, i)
     THEN VoteTimeout(p, [Cleared(p) EXCEPT ![i].due = FALSE], call[p])
     ELSE Stay(p, [view[p] EXCEPT ![i].due = FALSE, ![i].left = @ - 1], call[p])
  /\ UNCHANGED <<server, infoCache, wire, app>>

\* The voter has chosen an option and taps the button: he is asked to confirm.
Voted(p) ==
  LET i == Len(view[p])
  IN /\ page[p] = "vote" /\ view[p][i].st \in {"running", "stopped"} /\ view[p][i].vote # 0
     /\ \A j \in DOMAIN view[p] : ~view[p][j].modal
     /\ Stay(p, [view[p] EXCEPT ![i].modal = TRUE], call[p])
     /\ UNCHANGED <<server, infoCache, wire, app>>

Cancel(p, i) ==
  /\ view[p][i].modal
  /\ Stay(p, [view[p] EXCEPT ![i].modal = FALSE], call[p])
  /\ UNCHANGED <<server, infoCache, wire, app>>

\* processVoted, which ends with the flag voted as given. Of an unknown user it fails before it
\* posts, the countdown cleared.
Process(p, i, voted) ==
  /\ view[p][i].modal
  /\ Idle(p) /\ call[p]["post"].st = "none"
  /\ Stay(p, [Cleared(p) EXCEPT ![i].modal = FALSE],
          IF app[p].userInfo
          THEN [call[p] EXCEPT !["post"] = [st |-> "sent", vote |-> view[p][i].vote]]
          ELSE call[p])
  /\ app' = [app EXCEPT ![p].voted = voted]
  /\ UNCHANGED <<server, infoCache, wire>>

ProcessVoted(p, i) == Process(p, i, app[p].voted)

\* Its callback runs whatever the status of the answer is.
Thanked(p, thanks) ==
  /\ Answered(p, "post")
  /\ app' = [app EXCEPT ![p].voted = TRUE]
  /\ IF thanks THEN Thanks(p, view[p], Done(p, "post")) ELSE Stay(p, view[p], Done(p, "post"))
  /\ UNCHANGED <<server, infoCache, wire>>

\* Mutated form: nor does it look at what the answer says.
MutantPosted(p) == Thanked(p, TRUE)

Posted(p) == Thanked(p, call[p]["post"].ok)

-----------------------------------------------------------------------------

\* A second passes.
OlderAnswer(c) == IF c.st = "answered" THEN [c EXCEPT !.age = Older(@)] ELSE c
OlderCommands(s) == [i \in DOMAIN s |-> [s[i] EXCEPT !.timestamp = Older(@)]]
Tick ==
  /\ info' = [v \in Votes |-> [info[v] EXCEPT !.age = Older(@)]]
  /\ queue' = [queue EXCEPT ![Commands] = OlderCommands(@)]
  /\ inbox' = [p \in Phones |-> OlderCommands(inbox[p])]
  /\ app' = [p \in Phones |-> [app[p] EXCEPT !.endTimeStamp = Older(@)]]
  /\ call' = [p \in Phones |-> [call[p] EXCEPT !["checkVoted"] = OlderAnswer(@)]]
  /\ view' = [p \in Phones |-> [i \in DOMAIN view[p] |->
       [view[p][i] EXCEPT !.due = view[p][i].st = "running"]]]
  /\ UNCHANGED <<open, queued, rows, taken, refused, events, infoCache, unacked, recoveries, socket>>
  /\ UNCHANGED <<page, form>>

Administrator == EndVote \/ ResetVote \/ (\E v \in Votes : OpenVote(v)) \/ \E s \in Seconds : StartVote(s)
Server ==
  \/ Deliver \/ Interrupted \/ Flush \/ Crash \/ ExpireInfo
Requests(p) ==
  \/ CheckVoted(p) \/ CheckEnable(p) \/ Post(p) \/ Lose(p)
App(p) ==
  \/ \E to \in LaunchPages : Launch(p, to)
  \/ Quit(p) \/ UserKnown(p) \/ SocketOpens(p) \/ SocketCloses(p) \/ OnSocketMessage(p)
PageHandlers(p) ==
  \/ GotInfo(p) \/ GoVote(p) \/ CheckedVoted(p) \/ LoggedIn(p)
  \/ FormSubmit(p) \/ Submitted(p) \/ Refresh(p) \/ Refreshed(p) \/ Voted(p) \/ Posted(p)
  \/ \E i \in DOMAIN view[p] : GotVoteInfo(p, i) \/ GotNoInfo(p, i) \/ Cancel(p, i) \/ ProcessVoted(p, i)

\* The countdowns of a second run in any order, and before anything else happens in it.
NothingDue == \A p \in Phones : \A i \in DOMAIN view[p] : ~view[p][i].due

Next ==
  \/ \E p \in Phones : \E i \in DOMAIN view[p] : CountDown(p, i)
  \/ NothingDue /\ Tick
  \/ NothingDue /\ Administrator
  \/ NothingDue /\ Server
  \/ NothingDue /\ \E p \in Phones : Requests(p) \/ App(p) \/ PageHandlers(p)

Spec == Init /\ [][Next]_vars

-----------------------------------------------------------------------------
(* Properties.                                                             *)

\* Every variable has its type; a gone page is kept only while it can still act.
TypeOK ==
  /\ \A p \in Phones :
       /\ page[p] \in Pages
       /\ app[p].endTimeStamp \in Stamps
       /\ page[p] = "vote" => view[p] # <<>>
       /\ \A i \in DOMAIN view[p] :
            /\ view[p][i].left \in {NaN} \cup (-Old .. Max(Seconds))
            /\ view[p][i].handle => view[p][i].st = "running"
            /\ ~Shown(p, i) => Alive(view[p][i])

\* A phone thanks its voter only of whom the server has taken a vote, and takes him for one who
\* has voted only when the server has taken or refused a vote of his: whichever requests fail or
\* lose their answers, in whichever order the callbacks run and whatever pages they find, before
\* and after resets and restarts. (The flag is set of a refused vote as well: processVoted's
\* callback does not look at the status.)
BeliefsFounded ==
  \A p \in Phones :
    /\ page[p] = "thanks" => p \in taken
    /\ app[p].voted => p \in taken \cup refused

\* Stated by the picture pages/voteTimeout shows (img/timeout.png, "Sorry, Voting has closed"),
\* and not true of the code: who is sent to this page is late for the open vote, or that has
\* ended.
TimeoutMeansTimeUp ==
  [][\A p \in Phones : page[p] # "voteTimeout" /\ page'[p] = "voteTimeout" =>
       ~info[open].enabled \/ info[open].age >= info[open].secs]_vars

=============================================================================
