------------------------------- MODULE Jdly --------------------------------
(***************************************************************************)
(* The quiz of employees: the mini-program WxJingdianyinxing and the       *)
(* JdlyController it asks. An employee's code is checked, he answers all   *)
(* questions of the newest quiz within its CloseSeconds, and the answer    *)
(* waits in DbOperationMngr before it is written.                          *)
(*                                                                         *)
(* Time is kept as in VoterApp: a time stamp as its age in seconds, Old    *)
(* for every age beyond the longest quiz. An employee has one phone, whose *)
(* clock agrees with the server's.                                         *)
(***************************************************************************)
EXTENDS Integers, Sequences, FiniteSetsExt

CONSTANTS
  Employees,
  Quizzes,        \* Ids the table JDLYQuestion may come to have
  Seconds,        \* the CloseSeconds administrators choose
  Options,        \* the number of photos of a quiz
  MaxEvents       \* bound of the model: requests of administrators, lost requests, error
                  \* answers and restarts of phones, together

ASSUME QuizConstants ==
  /\ Quizzes \subseteq Nat \ {0} /\ Quizzes # {}
  /\ Seconds \subseteq Nat \ {0} /\ \E longest \in Seconds : \A s \in Seconds : s <= longest
  /\ Options \in Nat \ {0} /\ MaxEvents \in Nat

VARIABLES
  question,       \* JDLYQuestion: IsEnable, age of EnableStartTime, CloseSeconds of each row
  queued, rows,   \* JDLYLog: rows that wait to be written, rows of the database
  taken,          \* the employees an answer of whom the server has taken
  cache,          \* what GetVote keeps: nothing, or a quiz as it was, and (a history) whether
                  \* the table has kept it so
  events,         \* how many of these events there have been
  page,           \* the page a phone shows
  userInfo,       \* its globalData.userInfo: "unknown", "refused" or "known"
  check,          \* its request for ChekcUserCode
  view,           \* its vote page
  post            \* its answers under way, and whether one has been acknowledged

server == <<question, queued, rows, taken>>
phone == <<page, userInfo, check, view, post>>
vars == <<server, cache, events, phone>>

Old == Max(Seconds) + 1
Older(age) == Min({age + 1, Old})
New == [enabled |-> FALSE, age |-> Old, secs |-> 0]
Newest == Max(DOMAIN question)

\* The timeToStop of an error answer: no number, which is never above 0.
NaN == -Old - 1

\* A vote page: whether GetVote is awaited, lost or answered, JdlyId (0 while undefined),
\* timeToStop, how many photos have an answer, whether a second is up, and (a history) whether
\* the table still says of the quiz what the page was told.
NoView == [st |-> "none"]
Loading == [st |-> "sent", JdlyId |-> 0, left |-> 0, chosen |-> 0, due |-> FALSE, current |-> FALSE]
NoPost == [sent |-> {}, acknowledged |-> FALSE]

Init ==
  /\ question = [q \in {Min(Quizzes)} |-> New]
  /\ queued = {} /\ rows = {} /\ taken = {} /\ cache = <<>> /\ events = 0
  /\ page = [e \in Employees |-> "none"]
  /\ userInfo = [e \in Employees |-> "unknown"]
  /\ check = [e \in Employees |-> "none"]
  /\ view = [e \in Employees |-> NoView]
  /\ post = [e \in Employees |-> NoPost]

Event == events < MaxEvents /\ events' = events + 1

-----------------------------------------------------------------------------
(* The server.                                                             *)

\* AddPost: a new quiz, which is the newest.
AddPost ==
  /\ Event
  /\ \E q \in Quizzes :
       /\ q > Newest
       /\ question' = [p \in DOMAIN question \cup {q} |-> IF p = q THEN New ELSE question[p]]
  /\ UNCHANGED <<queued, rows, taken, cache, phone>>

\* What was read of q is of the past.
Outdated(r, q) == IF r.JdlyId = q THEN [r EXCEPT !.current = FALSE] ELSE r
Outdate(q) ==
  /\ cache' = [i \in DOMAIN cache |-> Outdated(cache[i], q)]
  /\ view' = [e \in Employees |-> IF view[e].st = "running" THEN Outdated(view[e], q) ELSE view[e]]

StartVote(q, s) ==
  /\ Event
  /\ question' = [question EXCEPT ![q] = [enabled |-> TRUE, age |-> 0, secs |-> s]]
  /\ Outdate(q)
  /\ UNCHANGED <<queued, rows, taken, page, userInfo, check, post>>

\* ClearUp deletes the rows that have been written, and leaves the cache as it is.
ClearUp(q) ==
  /\ Event
  /\ question' = [question EXCEPT ![q] = New]
  /\ rows' = {r \in rows : r.JdlyId # q}
  /\ Outdate(q)
  /\ UNCHANGED <<queued, taken, page, userInfo, check, post>>

\* ChekcUserCode, of the employee's code or another one. isVoted asks for any row of the code,
\* of whichever quiz. (The list of employees does not change; its cache tells nothing else.)
ChekcUserCode(e) ==
  LET voted == \E r \in rows : r.UserCode = e
      admitted == question[Newest].enabled /\ ~voted
  IN /\ check[e] = "sent"
     /\ \E answer \in {"refused"} \cup (IF admitted THEN {"admitted"} ELSE {}) :
          check' = [check EXCEPT ![e] = answer]
     /\ UNCHANGED <<server, cache, events, page, userInfo, view, post>>

\* Thirty seconds without a request for GetVote.
ExpireVote == cache # <<>> /\ cache' = <<>> /\ UNCHANGED <<server, events, phone>>

\* Post enqueues whatever it gets. Its answer may be lost.
Post(e, r) ==
  /\ r \in post[e].sent
  /\ queued' = queued \cup {r}
  /\ taken' = taken \cup {e}
  /\ \/ post' = [post EXCEPT ![e] = [sent |-> @.sent \ {r}, acknowledged |-> TRUE]] /\ UNCHANGED events
     \/ post' = [post EXCEPT ![e].sent = @ \ {r}] /\ Event
  /\ UNCHANGED <<question, rows, cache, page, userInfo, check, view>>

\* DbOperationMngr writes the rows that wait.
Flush ==
  /\ queued # {}
  /\ rows' = rows \cup queued
  /\ queued' = {}
  /\ UNCHANGED <<question, taken, cache, events, phone>>

-----------------------------------------------------------------------------
(* The phone.                                                              *)

\* onLaunch and the index page.
Launch(e) ==
  /\ page[e] = "none"
  /\ page' = [page EXCEPT ![e] = "index"]
  /\ UNCHANGED <<server, cache, events, userInfo, check, view, post>>

Quit(e) ==
  /\ page[e] # "none" /\ Event
  /\ page' = [page EXCEPT ![e] = "none"]
  /\ userInfo' = [userInfo EXCEPT ![e] = "unknown"]
  /\ check' = [check EXCEPT ![e] = "none"]
  /\ view' = [view EXCEPT ![e] = NoView]
  /\ post' = [post EXCEPT ![e] = NoPost]
  /\ UNCHANGED <<server, cache>>

\* The answer of getUserInfo, to onLaunch or to the button of the index page (GetUserInfo).
UserKnown(e) ==
  /\ page[e] # "none" /\ userInfo[e] # "known"
  /\ userInfo' = [userInfo EXCEPT ![e] = "known"]
  /\ UNCHANGED <<server, cache, events, page, check, view, post>>

\* The employee refuses: hasUserInfo is set all the same, and the form shown.
GetUserInfo(e) ==
  /\ page[e] = "index" /\ userInfo[e] = "unknown"
  /\ userInfo' = [userInfo EXCEPT ![e] = "refused"]
  /\ UNCHANGED <<server, cache, events, page, check, view, post>>

\* gotoVote, with a code typed in. Its loading screen hides the form until a toast replaces it.
GotoVote(e) ==
  /\ page[e] = "index" /\ userInfo[e] # "unknown" /\ check[e] = "none"
  /\ check' = [check EXCEPT ![e] = "sent"]
  /\ UNCHANGED <<server, cache, events, page, userInfo, view, post>>

\* Its callback: a toast, or the vote page, whose onLoad asks for GetVote.
Checked(e) ==
  /\ check[e] \in {"refused", "admitted"}
  /\ check' = [check EXCEPT ![e] = "none"]
  /\ IF check[e] = "refused" THEN UNCHANGED <<page, view>>
     ELSE /\ page' = [page EXCEPT ![e] = "vote"]
          /\ view' = [view EXCEPT ![e] = Loading]
  /\ UNCHANGED <<server, cache, events, userInfo, post>>

\* A request or its answer is lost. (error is no callback of wx.request: the loading screen of
\* gotoVote stays, and the vote page has no photos and no countdown. A post that is answered by an
\* error, which the callback ignores, is one that is lost.)
Lose(e) ==
  /\ Event
  /\ \/ check[e] \notin {"none", "lost"} /\ check' = [check EXCEPT ![e] = "lost"] /\ UNCHANGED <<view, post>>
     \/ view[e].st = "sent" /\ view' = [view EXCEPT ![e].st = "lost"] /\ UNCHANGED <<check, post>>
     \/ \E r \in post[e].sent :
          post' = [post EXCEPT ![e].sent = @ \ {r}] /\ UNCHANGED <<check, view>>
  /\ UNCHANGED <<server, cache, page, userInfo>>

\* GetVote, and the callback of the vote page's onLoad, with timer. (An answer that comes late
\* is what a cache that lives longer answers.)
GotVote(e) ==
  LET q == question[Newest]
      fresh == [JdlyId |-> Newest, age |-> q.age, secs |-> q.secs, current |-> TRUE]
      answer == IF cache # <<>> THEN cache[1] ELSE fresh
  IN /\ view[e].st = "sent"
     /\ cache' = <<answer>>
     /\ view' = [view EXCEPT ![e] = [@ EXCEPT !.st = "running", !.JdlyId = answer.JdlyId,
                                              !.left = answer.secs - answer.age,
                                              !.current = answer.current]]
     /\ UNCHANGED <<server, events, page, userInfo, check, post>>

\* GetVote fails and answers its exception, or the proxy an error of its own: the callback finds
\* no quiz in it, and starts timer all the same.
GotNoVote(e) ==
  /\ view[e].st = "sent" /\ Event
  /\ view' = [view EXCEPT ![e].st = "running", ![e].left = NaN]
  /\ UNCHANGED <<server, cache, page, userInfo, check, post>>

\* How many photos a page shows.
Photos(e) == IF view[e].JdlyId # 0 THEN Options ELSE 0

\* An answer is chosen for one more photo.
BindChange(e) ==
  /\ view[e].st = "running" /\ view[e].chosen < Photos(e)
  /\ view' = [view EXCEPT ![e].chosen = @ + 1]
  /\ UNCHANGED <<server, cache, events, page, userInfo, check, post>>

\* voted: the page posts what is chosen, fails where userInfo is null. It goes on as before, its
\* countdown given as v, and may be tapped again.
Sent(e, v) ==
  /\ userInfo[e] = "known"
  /\ LET r == [JdlyId |-> view[e].JdlyId, UserCode |-> e, chosen |-> view[e].chosen]
     IN r \notin post[e].sent /\ post' = [post EXCEPT ![e].sent = @ \cup {r}]
  /\ view' = [view EXCEPT ![e] = v]
  /\ UNCHANGED <<server, cache, events, page, userInfo, check>>

\* Mutated forms: without the check that nothing is left out; with a countdown that stops.
MutantUnchecked(e) == page[e] = "vote" /\ Sent(e, view[e])
MutantStops(e) ==
  /\ page[e] = "vote"
  /\ view[e].st = "running" /\ view[e].chosen = Photos(e)
  /\ Sent(e, [view[e] EXCEPT !.st = "lost"])

\* Photos and answers are compared in number. While GetVote is awaited, and when it has failed,
\* there are none of both.
Voted(e) ==
  /\ page[e] = "vote"
  /\ view[e].chosen = Photos(e)
  /\ Sent(e, view[e])

\* The page thanks. (A countdown that still runs then leads to it again.)
Thanks(e) ==
  /\ page' = [page EXCEPT ![e] = "thanks"]
  /\ view' = [view EXCEPT ![e] = NoView]
  /\ UNCHANGED <<server, cache, events, userInfo, check>>

\* Mutated form: it does not wait for the answer.
MutantEager(e) == page[e] = "vote" /\ post[e].sent # {} /\ Thanks(e) /\ UNCHANGED post

\* The callback of voted.
Posted(e) ==
  /\ post[e].acknowledged
  /\ post' = [post EXCEPT ![e].acknowledged = FALSE]
  /\ Thanks(e)

\* A second of the countdown is up.
CountDown(e, over) ==
  /\ view[e].st = "running" /\ view[e].due
  /\ IF over THEN Thanks(e) /\ UNCHANGED post
     ELSE /\ view' = [view EXCEPT ![e].due = FALSE, ![e].left = @ - 1]
          /\ UNCHANGED <<server, cache, events, page, userInfo, check, post>>

\* Mutated form: over only when exactly nothing is left.
MutantTimer(e) == CountDown(e, view[e].left = 0)

\* timer: over when nothing is left, or less.
Timer(e) == CountDown(e, ~(view[e].left > 0))

-----------------------------------------------------------------------------

\* A second passes.
Tick ==
  /\ question' = [q \in DOMAIN question |-> [question[q] EXCEPT !.age = Older(@)]]
  /\ cache' = [i \in DOMAIN cache |-> [cache[i] EXCEPT !.age = Older(@)]]
  /\ view' = [e \in Employees |-> IF view[e].st = "running" THEN [view[e] EXCEPT !.due = TRUE] ELSE view[e]]
  /\ UNCHANGED <<queued, rows, taken, events, page, userInfo, check, post>>

\* The countdowns of a second run before anything else happens in it.
NothingDue == \A e \in Employees : view[e].st = "running" => ~view[e].due

Handlers(e) ==
  \/ Launch(e) \/ Quit(e) \/ UserKnown(e) \/ GetUserInfo(e) \/ GotoVote(e) \/ Checked(e) \/ Lose(e)
  \/ GotVote(e) \/ GotNoVote(e) \/ BindChange(e) \/ Voted(e) \/ Posted(e)
  \/ ChekcUserCode(e) \/ \E r \in post[e].sent : Post(e, r)

Next ==
  \/ \E e \in Employees : Timer(e)
  \/ NothingDue /\ Tick
  \/ NothingDue /\ (AddPost \/ Flush \/ ExpireVote)
  \/ NothingDue /\ \E q \in DOMAIN question : ClearUp(q) \/ \E s \in Seconds : StartVote(q, s)
  \/ NothingDue /\ \E e \in Employees : Handlers(e)

\* Time goes on, and the intervals of JavaScript tick.
Fairness == WF_vars(NothingDue /\ Tick) /\ \A e \in Employees : WF_vars(Timer(e))

Spec == Init /\ [][Next]_vars /\ Fairness

-----------------------------------------------------------------------------
(* Properties.                                                             *)

\* Every variable has its type.
TypeOK ==
  /\ \A e \in Employees : /\ page[e] \in {"none", "index", "vote", "thanks"}
                          /\ check[e] \in {"none", "sent", "lost", "refused", "admitted"}
                          /\ page[e] = "vote" <=> view[e].st # "none"
                          /\ view[e].st # "none" => view[e].left \in {NaN} \cup -Old .. Max(Seconds)
  /\ \A q \in DOMAIN question : question[q].age \in 0 .. Old

\* The table never gets an answer that leaves photos out, but for the empty one that is posted
\* by a page that has no photos (they have not come, or an error came), and belongs to no quiz.
NoPartialAnswers ==
  \A r \in queued \cup rows : IF r.JdlyId = 0 THEN r.chosen = 0 ELSE r.chosen = Options

\* An employee is thanked only when the server has taken an answer of his or the time of the quiz
\* is up in the table, although what his page counts down comes from a cache that nothing clears,
\* and whichever requests fail: as long as nobody has started the quiz again or cleared it since
\* GetVote read it, and GetVote did not answer an error.
ThanksMeansDone ==
  [][\A e \in Employees : page[e] = "vote" /\ page'[e] = "thanks" /\ view[e].current =>
       e \in taken \/ question[view[e].JdlyId].age >= question[view[e].JdlyId].secs]_vars

\* A vote page that has got its photos, or an error, is left, at the end of its countdown at the
\* latest: also when answers are lost, and when the quiz is cleared, started again or replaced meanwhile.
QuizEnds ==
  \A e \in Employees : view[e].st = "running" ~> page[e] # "vote"

=============================================================================
