-------------------------------- MODULE Wxq --------------------------------
(***************************************************************************)
(* The WeChat wall: guests send texts and photos (WxqApp, WxqPage), the    *)
(* server keeps them (WxqFuncController, the table WxqLog), checkers pull  *)
(* them and pass some, and what has passed is broadcast (Broadcast) to a   *)
(* text wall and a picture wall (KaiBanner), whose operators may delete it *)
(* again.                                                                  *)
(*                                                                         *)
(* Each handler works on rows it has read and saves only the column        *)
(* MsgStatus, without a check that the row is still what it was. A row of  *)
(* WxqLog is known by its Id, its place in rows.                           *)
(***************************************************************************)
EXTENDS Integers, Sequences, SequencesExt, FiniteSets

CONSTANTS
  Photos, NoPhoto,  \* see WxqApp
  Checkers,       \* the check pages
  Pulls,          \* bound of the model: requests for rows that are under way at once
  LoadTake,       \* rows the check page takes when it loads (6)
  PullTake,       \* rows it takes at each pull (10)
  TxtMax,         \* messages of the text wall (6)
  PicTake,        \* pictures the picture wall loads (100); it shows one more at most
  MaxRows,        \* bound of the model: rows of WxqLog
  MaxEvents,      \* bound of the model: losses, closed sockets, failures, deletions from the walls
                  \* and clicks on the carousel, together
  MaxQueue, MaxRecoveries   \* see Broadcast

ASSUME WallConstants ==
  /\ LoadTake \in Nat /\ PullTake \in Nat /\ TxtMax \in Nat \ {0} /\ PicTake \in Nat
  /\ NoPhoto \notin Photos

VARIABLES
  rows,           \* WxqLog: type and status
  passed,         \* the rows a checker has passed, now or before
  list,           \* the rows a check page shows
  pull,           \* the requests for rows: the page that waits for it, what it takes, what the
                  \* server has read for it, and (a history) whether no other was read meanwhile
  calls,          \* requests for single rows: <<handler, Id>>
  events,         \* how many of them there have been
  shown,          \* the messages on each wall, from the top or the left
  dataObjList,    \* the length of each wall's dataObjList
  maxIndex, currentIndex, direction,           \* see KaiBanner
  queue, unacked, recoveries, socket, inbox,   \* see Broadcast
  program,        \* what the guest uses, "WxqApp" or "VoteWeapp"
  userInfo, page, token, confirmed, upload     \* see WxqApp

checking == <<list, pull>>
carousel == <<maxIndex, currentIndex, direction>>
walls == <<shown, dataObjList, carousel>>
wire == <<queue, unacked, recoveries, socket, inbox>>
phone == <<userInfo, page, token, confirmed, upload>>
guest == <<program, phone>>
vars == <<rows, passed, checking, calls, events, walls, wire, guest>>

Walls == {"txt", "img"}         \* the pages Wxq and WxqPic, and the MsgType each shows
Wire == INSTANCE Broadcast WITH Queues <- Walls, Receivers <- Walls, Listens <- [w \in Walls |-> w]
App == INSTANCE WxqApp
WxqVote == INSTANCE WxqPage
Banner == INSTANCE KaiBanner WITH children <- shown["img"]

NoPull == [st |-> "none"]

Init ==
  /\ rows = <<>> /\ passed = {} /\ calls = {} /\ events = 0
  /\ list = [c \in Checkers |-> {}]
  /\ pull = [p \in Pulls |-> NoPull]
  /\ shown = [w \in Walls |-> <<>>]
  /\ dataObjList = [w \in Walls |-> 0]
  /\ maxIndex = -1 /\ currentIndex = 0 /\ direction = "toRight"
  /\ Wire!Start(Walls)
  /\ \/ program = "WxqApp" /\ page = App!Page
     \/ program = "VoteWeapp" /\ page = WxqVote!Page
  /\ userInfo = "unknown" /\ token = FALSE /\ confirmed = NoPhoto /\ upload = NoPhoto

Event == events < MaxEvents /\ events' = events + 1

\* The n newest rows of those given.
Newest(n, ids) == {i \in ids : Cardinality({j \in ids : j > i}) < n}
With(status) == {i \in DOMAIN rows : rows[i].status = status}
SetStatus(ids, status) ==
  rows' = [i \in DOMAIN rows |-> IF i \in ids THEN [rows[i] EXCEPT !.status = status] ELSE rows[i]]

-----------------------------------------------------------------------------
(* Guests. (In the model they send MaxRows messages and stop.)             *)

\* sendData, and PostCheckingData, of a message of this type. If the request is lost the page
\* does nothing more.
SendData(type) ==
  \/ rows' = Append(rows, [type |-> type, status |-> "Created"]) /\ UNCHANGED events
  \/ Event /\ UNCHANGED rows

Quiet == UNCHANGED <<rows, events>>
Sent(type, sent) == IF sent THEN SendData(type) ELSE Quiet

WxqAppGuest ==
  \/ App!OnLaunch /\ Quiet
  \/ App!GetUserInfo /\ Quiet
  \/ \E typed \in BOOLEAN : App!TextInput(typed) /\ Quiet
  \/ \E photo \in Photos : App!TakePhoto(photo) /\ Quiet
  \/ App!Cancel /\ Quiet
  \/ App!SendImg /\ Quiet
  \/ App!PostMsg /\ Quiet
  \/ App!SendTxt /\ Sent("txt", App!TextSent)
  \/ App!UploadImg /\ Quiet
  \/ App!Uploaded /\ SendData("img")
  \/ App!Lost /\ Event /\ UNCHANGED rows

VoteWeappGuest ==
  \/ WxqVote!OnLaunch /\ Quiet
  \/ \E pick \in Walls : WxqVote!BindPickerChange(pick) /\ Quiet
  \/ \E photo \in Photos : WxqVote!TakePhoto(photo) /\ Quiet
  \/ WxqVote!SendTxt /\ Sent("txt", WxqVote!TextSent)
  \/ WxqVote!SendImg /\ Quiet
  \/ WxqVote!UploadImg /\ Quiet
  \/ WxqVote!Uploaded /\ Sent("img", WxqVote!PhotoSent)
  \/ WxqVote!Lost /\ Event /\ UNCHANGED rows

Guest ==
  /\ Len(rows) < MaxRows
  /\ \/ program = "WxqApp" /\ WxqAppGuest
     \/ program = "VoteWeapp" /\ VoteWeappGuest
  /\ UNCHANGED <<program, passed, checking, calls, walls, wire>>

-----------------------------------------------------------------------------
(* Checkers.                                                               *)

\* A page asks for rows. It shows none of those it had.
Asked(c, p, take, waiting) ==
  /\ pull[p] = NoPull
  /\ list' = [list EXCEPT ![c] = {}]
  /\ pull' = [waiting EXCEPT ![p] = [st |-> "asked", by |-> {c}, take |-> take]]
  /\ UNCHANGED <<rows, passed, calls, events, walls, wire, guest>>

\* The page is opened or loaded again: what was to be answered before is not shown any more.
OpenCheck(c, p) ==
  Asked(c, p, LoadTake, [q \in Pulls |-> IF pull[q] = NoPull THEN NoPull ELSE [pull[q] EXCEPT !.by = @ \ {c}]])

\* Its button, which nothing disables.
PullWxqLog(c, p) == Asked(c, p, PullTake, pull)

\* The handlers PullWxqLog and, for the page itself, OnGet: read, then save and answer. If the
\* answer is lost, nobody will see the rows.
Reading == {q \in Pulls : pull[q].st = "read"}
Rivals == [q \in Pulls |-> IF q \in Reading THEN [pull[q] EXCEPT !.alone = FALSE] ELSE pull[q]]
Read(p, ids) ==
  /\ pull[p].st = "asked"
  /\ pull' = [Rivals EXCEPT ![p] = [st |-> "read", by |-> pull[p].by, ids |-> Newest(pull[p].take, ids),
                                   alone |-> Reading = {}]]
  /\ UNCHANGED <<rows, passed, list, calls, events, walls, wire, guest>>

\* Mutated form: whatever their status.
MutantReadLog(p) == Read(p, DOMAIN rows)

ReadLog(p) == Read(p, With("Created"))

SaveLog(p) ==
  /\ pull[p].st = "read"
  /\ SetStatus(pull[p].ids, "Proccessed")
  /\ \/ list' = [c \in Checkers |-> IF c \in pull[p].by THEN list[c] \cup pull[p].ids ELSE list[c]]
        /\ UNCHANGED events
     \/ UNCHANGED list /\ Event
  /\ pull' = [pull EXCEPT ![p] = NoPull]
  /\ UNCHANGED <<passed, calls, walls, wire, guest>>

\* It is lost, or fails before it has saved anything.
LosePull(p) ==
  /\ pull[p] # NoPull /\ Event
  /\ pull' = [pull EXCEPT ![p] = NoPull]
  /\ UNCHANGED <<rows, passed, list, calls, walls, wire, guest>>

\* The buttons of a message: checkedData, which asks the server to pass it, and deleteData.
CheckedData(c, i) ==
  /\ i \in list[c]
  /\ list' = [list EXCEPT ![c] = @ \ {i}]
  /\ calls' = calls \cup {<<"check", i>>}
  /\ UNCHANGED <<rows, passed, pull, events, walls, wire, guest>>

DeleteData(c, i) ==
  /\ i \in list[c]
  /\ list' = [list EXCEPT ![c] = @ \ {i}]
  /\ UNCHANGED <<rows, passed, pull, calls, events, walls, wire, guest>>

-----------------------------------------------------------------------------
(* The server.                                                             *)

\* PostCheckedMsg and PostCheckedPic save, and then publish. The broker may be out of reach;
\* the exception is caught.
PostChecked(i) ==
  /\ <<"check", i>> \in calls
  /\ SetStatus({i}, "Checked")
  /\ passed' = passed \cup {i}
  /\ calls' = (calls \ {<<"check", i>>}) \cup {<<"publish", i>>}
  /\ UNCHANGED <<checking, events, walls, wire, guest>>

BasicPublish(i) ==
  /\ <<"publish", i>> \in calls
  /\ calls' = calls \ {<<"publish", i>>}
  /\ \/ Wire!Room(rows[i].type) /\ Wire!Publish(rows[i].type, i) /\ UNCHANGED events
     \/ Event /\ UNCHANGED wire
  /\ UNCHANGED <<rows, passed, checking, walls, guest>>

DeleteMsg(i) ==
  /\ <<"delete", i>> \in calls
  /\ SetStatus({i}, "Deleted")
  /\ calls' = calls \ {<<"delete", i>>}
  /\ UNCHANGED <<passed, checking, events, walls, wire, guest>>

\* A request for a row is lost.
LoseCall(i) ==
  /\ \E op \in {"check", "delete"} : <<op, i>> \in calls /\ calls' = calls \ {<<op, i>>}
  /\ Event
  /\ UNCHANGED <<rows, passed, checking, walls, wire, guest>>

Deliver(w) ==
  /\ Wire!Deliver(w)
  /\ UNCHANGED <<rows, passed, checking, calls, events, walls, guest>>

Interrupted(w) ==
  /\ Wire!Interrupted(w) /\ Event
  /\ UNCHANGED <<rows, passed, checking, calls, walls, guest>>

Recover(w) ==
  /\ Wire!Recover(w)
  /\ UNCHANGED <<rows, passed, checking, calls, events, walls, guest>>

-----------------------------------------------------------------------------
(* The walls.                                                              *)

\* What a wall's OnGet takes: the newest of the rows given, the newest first.
NewestFirst(ids) ==
  [k \in 1 .. Cardinality(ids) |-> CHOOSE i \in ids : Cardinality({j \in ids : j > i}) = k - 1]
Taken(w, ids) == NewestFirst(Newest(IF w = "txt" THEN TxtMax ELSE PicTake, ids))

\* A wall shows these messages; picture walls hand theirs to a new carousel.
Filled(w, messages) ==
  /\ shown' = [shown EXCEPT ![w] = messages]
  /\ dataObjList' = [dataObjList EXCEPT ![w] = Len(messages)]
  /\ IF w = "img" THEN Banner!KaiBanner ELSE UNCHANGED carousel

\* Mutated form: whatever its status.
MutantOnGet(w) == Filled(w, Taken(w, {i \in DOMAIN rows : rows[i].type = w}))

OnGet(w) == Filled(w, Taken(w, {i \in With("Checked") : rows[i].type = w}))

\* The page is opened: it loads its messages and then asks for a socket.
OpenWall(w) ==
  /\ socket[w] = "closed"
  /\ OnGet(w)
  /\ Wire!Connect(w)
  /\ UNCHANGED <<rows, passed, checking, calls, events, guest>>

SocketOpens(w) ==
  /\ Wire!Opened(w)
  /\ UNCHANGED <<rows, passed, checking, calls, events, walls, guest>>

\* No page opens another socket, until it is loaded again.
SocketCloses(w) ==
  /\ Wire!Closed(w) /\ Event
  /\ UNCHANGED <<rows, passed, checking, calls, walls, guest>>

\* Both lists of a wall after a change of the displayed one.
Change(w, messages, length) ==
  /\ shown' = [shown EXCEPT ![w] = messages]
  /\ dataObjList' = [dataObjList EXCEPT ![w] = length]
  /\ IF w = "img" THEN Banner!Init ELSE UNCHANGED carousel

\* Mutated forms: the list does not lose what it has got; the page loses the message it has
\* just put in front.
MutantPop(m) ==
  LET full == dataObjList["txt"] + 1 = TxtMax + 1
  IN Change("txt", <<m>> \o (IF full THEN Front(shown["txt"]) ELSE shown["txt"]), dataObjList["txt"] + 1)
MutantFirst(m) ==
  LET full == dataObjList["txt"] + 1 = TxtMax + 1
  IN Change("txt", IF full THEN shown["txt"] ELSE <<m>> \o shown["txt"],
            dataObjList["txt"] + (IF full THEN 0 ELSE 1))

\* The text wall's onmessage. dataObjList grows at its end and loses what it has just got; the
\* page loses its last message and gets the new one in front.
TxtArrives(m) ==
  LET full == dataObjList["txt"] + 1 = TxtMax + 1
      kept == IF full /\ shown["txt"] # <<>> THEN Front(shown["txt"]) ELSE shown["txt"]
  IN Change("txt", <<m>> \o kept, dataObjList["txt"] + (IF full THEN 0 ELSE 1))

\* The picture wall's onmessage.
PicArrives(m) ==
  LET full == dataObjList["img"] = PicTake + 1
      kept == IF full /\ shown["img"] # <<>> THEN Tail(shown["img"]) ELSE shown["img"]
  IN Change("img", Append(kept, m), dataObjList["img"] + (IF full THEN 0 ELSE 1))

OnMessage(w) ==
  /\ Wire!Receive(w)
  /\ IF w = "txt" THEN TxtArrives(Head(inbox[w])) ELSE PicArrives(Head(inbox[w]))
  /\ UNCHANGED <<rows, passed, checking, calls, events, guest>>

\* The message at place k leaves the wall; the server is asked to delete the row i.
Removed(w, k, i) ==
  /\ k \in DOMAIN shown[w]
  /\ Change(w, RemoveAt(shown[w], k), dataObjList[w] - (IF dataObjList[w] >= k THEN 1 ELSE 0))
  /\ calls' = calls \cup {<<"delete", i>>}
  /\ Event
  /\ UNCHANGED <<rows, passed, checking, wire, guest>>

\* Mutated form: it sends the index of the element.
MutantDelete(w, k) == Removed(w, k, k - 1)

\* deleteMsg.
Delete(w, k) == Removed(w, k, shown[w][k])

CarouselTicks ==
  /\ UNCHANGED <<shown, dataObjList>>
  /\ Banner!Tick
  /\ UNCHANGED <<rows, passed, checking, calls, events, wire, guest>>

Click(i) ==
  /\ UNCHANGED <<shown, dataObjList>>
  /\ Banner!BottomBtnsClickHandle(i)
  /\ Event
  /\ UNCHANGED <<rows, passed, checking, calls, wire, guest>>

-----------------------------------------------------------------------------

Next ==
  \/ Guest
  \/ CarouselTicks
  \/ \E i \in 0 .. PicTake + 1 : Click(i)
  \/ \E c \in Checkers, p \in Pulls : OpenCheck(c, p) \/ PullWxqLog(c, p)
  \/ \E p \in Pulls : ReadLog(p) \/ SaveLog(p) \/ LosePull(p)
  \/ \E c \in Checkers, i \in DOMAIN rows : CheckedData(c, i) \/ DeleteData(c, i)
  \/ \E i \in DOMAIN rows : PostChecked(i) \/ BasicPublish(i) \/ DeleteMsg(i) \/ LoseCall(i)
  \/ \E w \in Walls : Deliver(w) \/ Interrupted(w) \/ Recover(w)
  \/ \E w \in Walls : OpenWall(w) \/ SocketOpens(w) \/ SocketCloses(w) \/ OnMessage(w)
  \/ \E w \in Walls : \E k \in DOMAIN shown[w] : Delete(w, k)

\* The broker delivers, browsers take what arrives, and timers tick.
Fairness ==
  /\ \A w \in Walls : WF_vars(Deliver(w)) /\ WF_vars(OnMessage(w))
  /\ WF_vars(CarouselTicks)

Spec == Init /\ [][Next]_vars /\ Fairness

-----------------------------------------------------------------------------
(* Properties.                                                             *)

\* Every variable has its type.
TypeOK ==
  /\ \A i \in DOMAIN rows : /\ rows[i].type \in Walls
                            /\ rows[i].status \in {"Created", "Proccessed", "Checked", "Deleted"}
  /\ \A c \in Checkers : list[c] \subseteq DOMAIN rows
  /\ calls \subseteq {"check", "publish", "delete"} \X DOMAIN rows
  /\ currentIndex \in Nat /\ direction \in {"toRight", "toLeft"}
  /\ page.previewImgSrc \in Photos \cup {NoPhoto}

\* Nothing is on a wall, or on its way to one, that no checker has passed: whatever
\* is loaded, deleted, published, delivered and delivered again in whichever order.
OnlyPassed ==
  \A w \in Walls :
    ToSet(shown[w]) \cup ToSet(queue[w]) \cup ToSet(unacked[w]) \cup ToSet(inbox[w]) \subseteq passed

\* The walls never outgrow their places: dataObjList, whose length the pages compare with one
\* number only ("== 7", "== 101"), stays as long as what is displayed, however messages arrive
\* and are deleted.
WallsBounded ==
  /\ \A w \in Walls : Len(shown[w]) = dataObjList[w]
  /\ Len(shown["txt"]) <= TxtMax /\ Len(shown["img"]) <= PicTake + 1

\* The carousel counts the pictures there are, and turns back before it would run off to the
\* left of the first one, whatever is deleted while it moves.
CarouselCurrent ==
  maxIndex = Len(shown["img"]) - 1 /\ (direction = "toLeft" => currentIndex > 0)

\* What a checker has passed is taken back, if at all, by the save of a pull that overlapped with
\* another: both had read the row before either saved it. However many check pages there are,
\* and however often each is loaded, pulled and used, a pull that was the only one from its read
\* to its save disturbs nothing.
PassedStays ==
  [][\A i \in DOMAIN rows :
       rows[i].status = "Checked" /\ rows'[i].status \notin {"Checked", "Deleted"} =>
         \E p \in Reading : i \in pull[p].ids /\ ~pull[p].alone]_vars

\* Which photo is uploaded is read when the token arrives; in WxqApp it is the one the guest has
\* confirmed nevertheless. (In VoteWeapp it need not be.)
SentAsConfirmed ==
  [][program = "WxqApp" /\ upload = NoPhoto /\ upload' # NoPhoto => upload' = confirmed]_vars

\* A message that is published while the wall's socket is open gets on the wall, once nothing
\* fails any more.
PassedIsShown ==
  \A i \in 1 .. MaxRows :
    (\E w \in Walls : i \in ToSet(queue[w]) /\ socket[w] = "open" /\ events = MaxEvents)
      ~> \E w \in Walls : i \in ToSet(shown[w])

\* Once arrivals, deletions and clicks stop, the carousel shows each picture again and again.
PicturesTurn ==
  \A k \in 0 .. PicTake : []<>(currentIndex = k \/ k >= Len(shown["img"]))

=============================================================================
