-------------------------- MODULE VoterApp_proofs ---------------------------
(***************************************************************************)
(* Proofs about VoterApp, for any sets of phones and votes, any choice of  *)
(* seconds, and any number of pages, requests and events.                  *)
(***************************************************************************)
EXTENDS VoterApp, SequenceLemmas

-----------------------------------------------------------------------------
(* Numbers.                                                                *)

\* The longest vote is one of those administrators choose, and so is the shortest.
LEMMA LongestSeconds ==
  /\ Max(Seconds) \in Seconds /\ \A s \in Seconds : s <= Max(Seconds)
  /\ Max(Seconds) \in Nat /\ Old \in Nat /\ Old = Max(Seconds) + 1
  /\ Min(Seconds) \in Seconds /\ Min(Votes) \in Votes
<1>1. PICK longest \in Seconds : \A s \in Seconds : s <= longest
  BY VoterConstants
<1>2. /\ Seconds \in SUBSET Nat /\ Seconds # {} /\ longest \in Nat
      /\ Votes \in SUBSET Nat /\ Votes # {}
  BY <1>1, VoterConstants
<1>3. Max(Seconds) \in Seconds /\ \A s \in Seconds : Max(Seconds) >= s
  BY <1>1, <1>2, MaxOfBounded
<1>4. PICK shortest \in Seconds : \A s \in Seconds : shortest <= s
  BY <1>2, LeastNatural
<1>5. PICK v \in Votes : \A w \in Votes : v <= w
  BY <1>2, LeastNatural
<1>6. Min(Seconds) \in Seconds
  BY <1>4, Zenon DEF Min
<1>7. Min(Votes) \in Votes
  BY <1>5, Zenon DEF Min
<1>8. Max(Seconds) \in Nat /\ \A s \in Seconds : s <= Max(Seconds)
  BY <1>2, <1>3
<1> QED BY <1>3, <1>6, <1>7, <1>8 DEF Old

\* The greater of zero and a number.
LEMMA MaxWithZero ==
  ASSUME NEW n \in Int
  PROVE  Max({0, n}) = IF n > 0 THEN n ELSE 0
<1> DEFINE m == IF n > 0 THEN n ELSE 0
<1>1. m \in {0, n} /\ \A y \in {0, n} : m >= y
  OBVIOUS
<1>2. \A x \in {0, n} : (\A y \in {0, n} : x >= y) => x = m
  OBVIOUS
<1> HIDE DEF m
<1>3. Max({0, n}) = CHOOSE x \in {0, n} : \A y \in {0, n} : x >= y
  BY DEF Max
<1>4. (CHOOSE x \in {0, n} : \A y \in {0, n} : x >= y) = m
  BY <1>1, <1>2
<1> QED BY <1>3, <1>4 DEF m

\* Stamps stay stamps as they age.
LEMMA OlderStamps ==
  ASSUME NEW t \in Stamps
  PROVE  Older(t) \in Stamps /\ (t \in Ages => Older(t) \in Ages)
<1>1. Old \in Nat
  BY LongestSeconds
<1>2. CASE t = Unset
  BY <1>1, <1>2 DEF Older, Stamps, Ages, Unset
<1>3. CASE t # Unset
  <2>1. t \in 0 .. Old
    BY <1>3 DEF Stamps, Ages
  <2> DEFINE m == IF t + 1 <= Old THEN t + 1 ELSE Old
  <2>2. m \in {t + 1, Old} /\ \A y \in {t + 1, Old} : m <= y
    BY <1>1, <2>1
  <2>3. \A x \in {t + 1, Old} : (\A y \in {t + 1, Old} : x <= y) => x = m
    BY <1>1, <2>1
  <2>4. m \in 0 .. Old
    BY <1>1, <2>1
  <2> HIDE DEF m
  <2>5. Min({t + 1, Old}) = CHOOSE x \in {t + 1, Old} : \A y \in {t + 1, Old} : x <= y
    BY DEF Min
  <2>6. (CHOOSE x \in {t + 1, Old} : \A y \in {t + 1, Old} : x <= y) = m
    BY <2>2, <2>3
  <2> QED BY <1>3, <2>4, <2>5, <2>6 DEF Older, Stamps, Ages
<1> QED BY <1>2, <1>3

-----------------------------------------------------------------------------
(* Vote pages. A page is good when its countdown runs, if votePageTimer    *)
(* names it; when before the answer of Info it has no seconds and asks     *)
(* nothing; and when the vote it asks to confirm is one there is.          *)

ViewType ==
  [st : {"sent", "running", "stopped", "lost"}, left : {NaN} \cup (-Old .. Max(Seconds)),
   vote : Votes \cup {0}, due : BOOLEAN, handle : BOOLEAN, modal : BOOLEAN]

Good(v) ==
  /\ v \in ViewType
  /\ v.handle => v.st = "running"
  /\ v.st = "sent" => v.left <= 0 /\ ~v.modal
  /\ v.modal => v.vote \in Votes

GoodViews == {v \in ViewType : Good(v)}
GoneViews == {v \in GoodViews : Alive(v)}

\* The vote pages of a phone that shows the page pg: all but a shown one can still act.
Views(s, pg) ==
  /\ s \in Seq(GoodViews)
  /\ pg = "vote" => s # <<>>
  /\ \A i \in DOMAIN s : s[i] \in GoneViews \/ (pg = "vote" /\ i = Len(s))

\* A page that is left keeps what it still needs.
LEMMA LeftGood ==
  ASSUME NEW v \in GoodViews, Alive(v)
  PROVE  Left(v) \in GoneViews
<1>1. v \in ViewType /\ Good(v)
  BY DEF GoodViews
<1>2. CASE v.modal
  BY <1>1, <1>2 DEF Left, GoneViews
<1>3. CASE ~v.modal
  <2> DEFINE w == [v EXCEPT !.vote = 0]
  <2>1. Left(v) = w
    BY <1>3 DEF Left
  <2>2. /\ w \in ViewType /\ w.st = v.st /\ w.left = v.left /\ w.handle = v.handle
        /\ w.modal = v.modal
    BY <1>1 DEF ViewType
  <2> HIDE DEF w
  <2>3. Good(w) /\ Alive(w)
    BY <1>1, <1>3, <2>2 DEF Good, Alive
  <2> QED BY <2>1, <2>2, <2>3 DEF GoneViews, GoodViews
<1> QED BY <1>2, <1>3

\* Gone keeps those that can still act, each as it is left.
LEMMA GoneGood ==
  ASSUME NEW views \in Seq(GoodViews)
  PROVE  /\ Gone(views) \in Seq(GoneViews)
         /\ Len(Gone(views)) \in Nat
<1> DEFINE alive == {i \in DOMAIN views : Alive(views[i])}
           nth(k) == CHOOSE i \in alive : Cardinality({j \in alive : j < i}) = k - 1
<1>1. Len(views) \in Nat /\ DOMAIN views = 1 .. Len(views) /\ \A i \in DOMAIN views : views[i] \in GoodViews
  BY LenProperties
<1>2. alive \in SUBSET Nat /\ IsFiniteSet(alive)
  <2>1. 1 \in Int /\ Len(views) \in Int
    BY <1>1
  <2>2. IsFiniteSet(1 .. Len(views)) /\ alive \in SUBSET (1 .. Len(views))
    BY <1>1, <2>1, FS_Interval
  <2>3. IsFiniteSet(alive)
    BY <2>2, FS_Subset
  <2> QED BY <1>1, <2>3
<1>3. \A i \in alive : Left(views[i]) \in GoneViews
  BY <1>1, LeftGood
<1>4. Cardinality(alive) \in Nat
  BY <1>2, FS_CardinalityType
<1>5. Gone(views) = [k \in 1 .. Cardinality(alive) |-> Left(views[nth(k)])]
  BY DEF Gone
<1> HIDE DEF alive
<1>6. \A k \in 1 .. Cardinality(alive) : \E i \in alive : Cardinality({j \in alive : j < i}) = k - 1
  BY <1>2, RankFromBottom
<1>7. \A k \in 1 .. Cardinality(alive) : nth(k) \in alive
  BY <1>6
<1> HIDE DEF nth
<1>8. Gone(views) \in [1 .. Cardinality(alive) -> GoneViews]
  BY <1>3, <1>5, <1>7
<1> QED BY <1>4, <1>8, SeqDef, LenProperties

\* Gone pages are good.
LEMMA GoneSequence ==
  ASSUME NEW s \in Seq(GoneViews)
  PROVE  s \in Seq(GoodViews)
<1>1. Len(s) \in Nat /\ s \in [1 .. Len(s) -> GoneViews]
  BY LenProperties
<1>2. s \in [1 .. Len(s) -> GoodViews]
  BY <1>1 DEF GoneViews
<1> QED BY <1>1, <1>2, SeqDef

\* What a step may leave of a phone's vote pages before those that are gone are dropped.
Places(s, pg) ==
  /\ s \in Seq(GoodViews)
  /\ pg = "vote" => s # <<>>

\* The page that is shown is the last place.
LEMMA LastPlace ==
  ASSUME NEW s, NEW pg, Places(s, pg), pg = "vote"
  PROVE  Len(s) \in DOMAIN s
<1>1. s \in Seq(GoodViews) /\ Len(s) \in Nat /\ DOMAIN s = 1 .. Len(s)
  BY LenProperties DEF Places
<1>2. Len(s) # 0
  BY <1>1, EmptySeq DEF Places
<1> QED BY <1>1, <1>2

\* What the invariant says of vote pages is more than that.
LEMMA ViewsArePlaces ==
  ASSUME NEW s, NEW pg, Views(s, pg)
  PROVE  Places(s, pg) /\ \A i \in DOMAIN s : s[i] \in GoodViews
<1>1. s \in Seq(GoodViews) /\ Len(s) \in Nat /\ DOMAIN s = 1 .. Len(s) /\ \A i \in DOMAIN s : s[i] \in GoodViews
  BY LenProperties DEF Views
<1> QED BY <1>1 DEF Views, Places

\* A change, place by place, that leaves each good.
LEMMA EditedGood ==
  ASSUME NEW s, NEW pg, Places(s, pg), NEW t, DOMAIN t = DOMAIN s, t = [i \in DOMAIN t |-> t[i]],
         \A i \in DOMAIN s : t[i] \in GoodViews
  PROVE  Places(t, pg)
<1>1. /\ s \in Seq(GoodViews) /\ Len(s) \in Nat /\ DOMAIN s = 1 .. Len(s)
      /\ pg = "vote" => s # <<>>
  BY LenProperties DEF Places
<1>2. t \in [1 .. Len(s) -> GoodViews]
  BY <1>1
<1>3. t \in Seq(GoodViews)
  BY <1>1, <1>2, SeqDef
<1>4. Len(t) = Len(s)
  BY <1>1, <1>3, LenProperties
<1>5. pg = "vote" => Len(s) # 0
  BY <1>1, EmptySeq
<1>6. pg = "vote" => t # <<>>
  BY <1>3, <1>4, <1>5, EmptySeq
<1> QED BY <1>3, <1>6 DEF Places

\* A change of one of them.
LEMMA PlaceGood ==
  ASSUME NEW s, NEW pg, Places(s, pg), NEW i \in DOMAIN s, NEW v \in GoodViews
  PROVE  Places([s EXCEPT ![i] = v], pg)
<1> DEFINE t == [s EXCEPT ![i] = v]
<1>1. s \in Seq(GoodViews) /\ \A j \in DOMAIN s : s[j] \in GoodViews
  BY LenProperties DEF Places
<1>2. /\ DOMAIN t = DOMAIN s /\ t = [j \in DOMAIN t |-> t[j]]
      /\ \A j \in DOMAIN s : t[j] = IF j = i THEN v ELSE s[j]
  OBVIOUS
<1> HIDE DEF t
<1>3. Places(t, pg)
  BY <1>1, <1>2, EditedGood
<1> QED BY <1>3 DEF t

-----------------------------------------------------------------------------
(* The invariant. BeliefsFounded is not inductive alone: a phone learns    *)
(* that it has voted from an answer, so what answers say of it has to be   *)
(* true already; a row is of a phone that has voted, so that who the       *)
(* database knows has; and a post under way is for a vote there is, which  *)
(* the page took over from Info, perhaps from its cache, before it asked   *)
(* the voter to confirm.                                                   *)

Cmd == [cmd : {"startVote", "endVote", "nextVote"}, timestamp : Stamps]
AppType == [userInfo : BOOLEAN, voted : BOOLEAN, endTimeStamp : Stamps]

ServerInv ==
  /\ open \in Votes
  /\ info \in [Votes -> [enabled : BOOLEAN, age : Ages, secs : Seconds]]
  /\ infoCache = <<>> \/ infoCache \in Votes \X Seconds
  /\ queued \subseteq Votes \X taken /\ rows \subseteq Votes \X taken

WireInv == queue \in [{Commands} -> Seq(Cmd)] /\ inbox \in [Phones -> Seq(Cmd)]

Answers == [st : {"answered"}, voted : BOOLEAN, enabled : BOOLEAN, age : Stamps]
GoodCalls(p, calls) ==
  /\ DOMAIN calls = Kinds
  /\ calls["checkVoted"].st = "answered" => /\ calls["checkVoted"] \in Answers
                                            /\ calls["checkVoted"].voted => p \in taken
  /\ calls["post"].st = "sent" => calls["post"].vote \in Votes
  /\ calls["post"].st = "answered" => p \in taken \cup refused /\ (calls["post"].ok => p \in taken)

Functions ==
  /\ page \in [Phones -> Pages] /\ app \in [Phones -> AppType]
  /\ call = [p \in Phones |-> call[p]] /\ view = [p \in Phones |-> view[p]]

PhoneInv(p) ==
  /\ Views(view[p], page[p])
  /\ GoodCalls(p, call[p])
  /\ page[p] = "thanks" => p \in taken
  /\ app[p].voted => p \in taken \cup refused

VoterInv == ServerInv /\ WireInv /\ Functions /\ \A p \in Phones : PhoneInv(p)

\* Everything is closed in the beginning.
LEMMA VoterInit == Init => VoterInv
<1> SUFFICES ASSUME Init PROVE VoterInv
  OBVIOUS
<1>1. Min(Votes) \in Votes /\ Min(Seconds) \in Seconds /\ Old \in Nat
  BY LongestSeconds
<1>2. ServerInv
  <2>1. \A b \in BOOLEAN, a \in Ages :
           [enabled |-> b, age |-> a, secs |-> Min(Seconds)] \in [enabled : BOOLEAN, age : Ages, secs : Seconds]
    BY <1>1
  <2>2. 0 \in Ages /\ Old \in Ages
    BY <1>1 DEF Ages
  <2>3. \A v \in Votes : info[v] \in [enabled : BOOLEAN, age : Ages, secs : Seconds]
    <3> TAKE v \in Votes
    <3>1. \/ info[v] = [enabled |-> TRUE, age |-> 0, secs |-> Min(Seconds)]
          \/ info[v] = [enabled |-> FALSE, age |-> Old, secs |-> Min(Seconds)]
      BY DEF Init
    <3> QED BY <2>1, <2>2, <3>1
  <2> QED BY <1>1, <2>3 DEF Init, ServerInv
<1>3. WireInv
  BY DEF Init, WireInv, Wire!Start
<1>4. NewApp \in AppType
  BY DEF NewApp, AppType, Stamps
<1>5. Functions
  BY <1>4 DEF Init, Functions, Pages
<1>6. ASSUME NEW p \in Phones PROVE PhoneInv(p)
  <2>1. Views(<<>>, "none")
    BY DEF Views
  <2>2. GoodCalls(p, [k \in Kinds |-> NoCall])
    BY DEF GoodCalls, NoCall, Kinds
  <2>3. ~app[p].voted /\ page[p] = "none" /\ view[p] = <<>> /\ call[p] = [k \in Kinds |-> NoCall]
    BY <1>6 DEF Init, NewApp
  <2> QED BY <2>1, <2>2, <2>3 DEF PhoneInv
<1> QED BY <1>2, <1>3, <1>5, <1>6 DEF VoterInv

\* What has been taken or refused stays so: resets and restarts lose rows, no history.
LEMMA HistoryStays ==
  ASSUME Next
  PROVE  taken \subseteq taken' /\ refused \subseteq refused'
<1>1. CASE \E p \in Phones : Post(p)
  BY <1>1 DEF Post, Answer
<1>2. CASE UNCHANGED <<taken, refused>>
  BY <1>2
<1>3. CASE Tick \/ Administrator \/ Server
  BY <1>2, <1>3 DEF Tick, Administrator, EndVote, ResetVote, OpenVote, StartVote, Saved, Server, Deliver,
                    Interrupted, Fault, Flush, Crash, ExpireInfo, server
<1>4. ASSUME NEW p \in Phones, CheckVoted(p) \/ CheckEnable(p) \/ Lose(p) PROVE UNCHANGED <<taken, refused>>
  BY <1>4 DEF CheckVoted, CheckEnable, Serve, Lose, Fault, server
<1>5. ASSUME NEW p \in Phones, App(p) PROVE UNCHANGED <<taken, refused>>
  BY <1>5 DEF App, Launch, Quit, UserKnown, SocketOpens, SocketCloses, OnSocketMessage, Fault, server
<1>6. ASSUME NEW p \in Phones, PageHandlers(p) PROVE UNCHANGED <<taken, refused>>
  BY <1>6 DEF PageHandlers, GotInfo, GoVote, CheckedVoted, LoggedIn, FormSubmit, Submitted, Refresh,
              Refreshed, Voted, Posted, Thanked, GotVoteInfo, GotNoInfo, Fault, Cancel, ProcessVoted, Process,
              server
<1>7. ASSUME NEW p \in Phones, NEW i \in DOMAIN view[p], CountDown(p, i) PROVE UNCHANGED <<taken, refused>>
  BY <1>7 DEF CountDown, server
<1> QED BY <1>1, <1>2, <1>3, <1>4, <1>5, <1>6, <1>7 DEF Next, Requests

-----------------------------------------------------------------------------
(* The server and the commands.                                            *)

InfoType == [enabled : BOOLEAN, age : Ages, secs : Seconds]

\* A request of an administrator publishes the age of the vote, zero, or nothing as the time.
LEMMA AdministratorStep ==
  ASSUME ServerInv, WireInv, Administrator, ~ResetVote
  PROVE  ServerInv' /\ WireInv' /\ UNCHANGED phone
<1>1. PICK v, record, command : /\ Saved(v, record, command) /\ v \in Votes
                                /\ record \in InfoType /\ command \in Cmd /\ open' \in Votes
  <2>1. /\ open \in Votes /\ \A v \in Votes : info[v] \in InfoType
        /\ \A v \in Votes : info[v].enabled \in BOOLEAN /\ info[v].age \in Ages /\ info[v].secs \in Seconds
    BY DEF ServerInv, InfoType
  <2>2. 0 \in Ages /\ 0 \in Stamps /\ Unset \in Stamps /\ \A t \in Ages : t \in Stamps
    BY LongestSeconds DEF Stamps, Ages
  <2>3. CASE EndVote
    <3>1. Saved(open, [info[open] EXCEPT !.enabled = FALSE], Command("endVote", Unset)) /\ open' = open
      BY <2>3 DEF EndVote
    <3>2. [info[open] EXCEPT !.enabled = FALSE] \in InfoType
      BY <2>1 DEF InfoType
    <3>3. Command("endVote", Unset) \in Cmd
      BY <2>2 DEF Command, Cmd
    <3> QED BY <2>1, <3>1, <3>2, <3>3
  <2>4. ASSUME NEW v \in Votes, OpenVote(v)
        PROVE  /\ Saved(v, info[v], Command("nextVote", info[v].age)) /\ info[v] \in InfoType
               /\ Command("nextVote", info[v].age) \in Cmd /\ open' \in Votes
    BY <2>1, <2>2, <2>4 DEF OpenVote, Command, Cmd
  <2>5. ASSUME NEW s \in Seconds, StartVote(s)
        PROVE  \E record : /\ Saved(open, record, Command("startVote", 0)) /\ record \in InfoType
                           /\ Command("startVote", 0) \in Cmd /\ open' \in Votes
    <3> DEFINE start == IF info[open].enabled THEN info[open].age ELSE 0
               record == [enabled |-> TRUE, age |-> start, secs |-> s]
    <3>1. start \in Ages
      BY <2>1, <2>2
    <3>2. record \in InfoType
      BY <3>1 DEF InfoType
    <3>3. Saved(open, record, Command("startVote", 0)) /\ open' \in Votes
      BY <2>1, <2>5 DEF StartVote
    <3>4. Command("startVote", 0) \in Cmd
      BY <2>2 DEF Command, Cmd
    <3> QED BY <3>2, <3>3, <3>4
  <2> QED BY <2>1, <2>3, <2>4, <2>5 DEF Administrator
<1>2. ServerInv'
  <2>1. info' = [info EXCEPT ![v] = record] /\ UNCHANGED <<infoCache, queued, rows, taken>>
    BY <1>1 DEF Saved
  <2>2. info' \in [Votes -> InfoType]
    BY <1>1, <2>1 DEF ServerInv, InfoType
  <2> QED BY <1>1, <2>1, <2>2 DEF ServerInv, InfoType
<1>3. WireInv'
  <2>1. queue' = [queue EXCEPT ![Commands] = Append(queue[Commands], command)] /\ inbox' = inbox
    BY <1>1 DEF Saved, Wire!Publish
  <2>2. Append(queue[Commands], command) \in Seq(Cmd)
    BY <1>1 DEF WireInv
  <2> QED BY <2>1, <2>2 DEF WireInv
<1> QED BY <1>1, <1>2, <1>3 DEF Saved

\* A reset only deletes rows.
LEMMA ResetStep ==
  ASSUME ServerInv, WireInv, ResetVote
  PROVE  ServerInv' /\ WireInv' /\ UNCHANGED phone
<1>1. /\ info' = [info EXCEPT ![open].enabled = FALSE] /\ rows' \subseteq rows
      /\ UNCHANGED <<open, infoCache, queued, taken>> /\ UNCHANGED wire /\ UNCHANGED phone
  BY DEF ResetVote
<1>2. info' \in [Votes -> InfoType]
  BY <1>1 DEF ServerInv, InfoType
<1> QED BY <1>1, <1>2 DEF ServerInv, WireInv, InfoType, wire

\* What is sent to a phone comes from the queue.
LEMMA WireMoves ==
  ASSUME WireInv, Wire!Deliver(Commands) \/ Wire!Interrupted(Commands)
  PROVE  WireInv'
<1>1. ASSUME NEW R, Wire!SendTo(Commands, R) PROVE WireInv'
  <2>1. /\ queue[Commands] \in Seq(Cmd) /\ queue[Commands] # <<>>
        /\ queue' = [queue EXCEPT ![Commands] = Tail(queue[Commands])]
        /\ inbox' = [p \in Phones |-> IF p \in R THEN Append(inbox[p], Head(queue[Commands])) ELSE inbox[p]]
    BY <1>1 DEF Wire!SendTo, WireInv
  <2>2. Tail(queue[Commands]) \in Seq(Cmd) /\ Head(queue[Commands]) \in Cmd
    BY <2>1, TailElements, ToSetType
  <2>3. \A s \in Seq(Cmd) : Append(s, Head(queue[Commands])) \in Seq(Cmd)
    BY <2>2
  <2> QED BY <2>1, <2>2, <2>3 DEF WireInv
<1> QED BY <1>1 DEF Wire!Deliver, Wire!Interrupted

\* A socket that is asked for, opens or closes, and the command a phone takes off it.
LEMMA SocketMoves ==
  ASSUME WireInv, NEW p \in Phones,
         \/ Wire!Connect(p) \/ Wire!Opened(p) \/ Wire!Closed(p) \/ Wire!Receive(p) \/ UNCHANGED wire
  PROVE  WireInv' /\ (Wire!Receive(p) => Head(inbox[p]) \in Cmd)
<1>1. CASE Wire!Receive(p)
  <2>1. /\ inbox[p] \in Seq(Cmd) /\ inbox[p] # <<>>
        /\ inbox' = [inbox EXCEPT ![p] = Tail(inbox[p])] /\ queue' = queue
    BY <1>1 DEF Wire!Receive, WireInv
  <2>2. Tail(inbox[p]) \in Seq(Cmd) /\ Head(inbox[p]) \in Cmd
    BY <2>1, TailElements, ToSetType
  <2> QED BY <2>1, <2>2 DEF WireInv
<1>2. CASE ~Wire!Receive(p)
  <2>1. queue' = queue /\ inbox' \in {inbox, [inbox EXCEPT ![p] = <<>>]}
    BY <1>2 DEF Wire!Connect, Wire!Opened, Wire!Closed, wire
  <2>2. <<>> \in Seq(Cmd)
    OBVIOUS
  <2>3. WireInv'
    BY <2>1, <2>2 DEF WireInv
  <2> QED BY <1>2, <2>3
<1> QED BY <1>1, <1>2

-----------------------------------------------------------------------------
(* What a phone shows.                                                     *)

\* Phone p shows the page to, with good vote pages and these calls; no other phone changes.
Moves(p, to, calls) ==
  /\ page' = [page EXCEPT ![p] = to]
  /\ call' = [call EXCEPT ![p] = calls]
  /\ \E s : Views(s, to) /\ view' = [view EXCEPT ![p] = s]

\* A page that opens leaves the vote pages that can still act.
LEMMA PageMoves ==
  ASSUME NEW p, NEW to, to # "vote", NEW views \in Seq(GoodViews), NEW calls, Page(p, to, views, calls)
  PROVE  Moves(p, to, calls)
<1>1. Gone(views) \in Seq(GoneViews) /\ Gone(views) \in Seq(GoodViews)
  BY GoneGood, GoneSequence
<1>2. \A i \in DOMAIN Gone(views) : Gone(views)[i] \in GoneViews
  BY <1>1, LenProperties
<1>3. Views(Gone(views), to)
  BY <1>1, <1>2 DEF Views
<1> QED BY <1>3 DEF Page, Moves

\* A step on the page that is shown.
LEMMA StayMoves ==
  ASSUME Functions, NEW p \in Phones, NEW views, Places(views, page[p]), NEW calls, Stay(p, views, calls)
  PROVE  Moves(p, page[p], calls)
<1> views \in Seq(GoodViews) /\ (page[p] = "vote" => views # <<>>)
  BY DEF Places
<1>1. page' = [page EXCEPT ![p] = page[p]] /\ call' = [call EXCEPT ![p] = calls]
  BY DEF Stay, Functions
<1>2. CASE page[p] = "vote"
  <2> DEFINE gone == Gone(Front(views))
             last == views[Len(views)]
             s == Append(gone, last)
  <2>1. Front(views) \in Seq(GoodViews)
    BY <1>2, FrontElements
  <2>2. gone \in Seq(GoneViews) /\ gone \in Seq(GoodViews)
    BY <2>1, GoneGood, GoneSequence
  <2>3. \A i \in 1 .. Len(gone) : gone[i] \in GoneViews
    BY <2>2, LenProperties
  <2>4. last \in GoodViews
    BY <1>2, LastPlace, LenProperties
  <2> HIDE DEF gone, last
  <2>5. /\ s \in Seq(GoodViews) /\ Len(s) = Len(gone) + 1 /\ Len(gone) \in Nat
        /\ \A i \in 1 .. Len(gone) : s[i] = gone[i]
        /\ s[Len(gone) + 1] = last
    BY <2>2, <2>4, AppendProperties, LenProperties
  <2>6. gone \o <<last>> = s
    BY <2>2, <2>4, AppendIsConcat
  <2>7. view' = [view EXCEPT ![p] = s]
    BY <1>2, <2>6 DEF Stay, Last, gone, last
  <2>8. Views(s, "vote")
    <3>1. s # <<>>
      BY <2>5
    <3>2. \A i \in DOMAIN s : s[i] \in GoneViews \/ i = Len(s)
      BY <2>3, <2>5, LenProperties
    <3> QED BY <2>5, <3>1, <3>2 DEF Views
  <2> QED BY <1>1, <1>2, <2>7, <2>8 DEF Moves
<1>3. CASE page[p] # "vote"
  <2>1. Gone(views) \in Seq(GoneViews) /\ Gone(views) \in Seq(GoodViews)
    BY GoneGood, GoneSequence
  <2>2. \A i \in DOMAIN Gone(views) : Gone(views)[i] \in GoneViews
    BY <2>1, LenProperties
  <2>3. Views(Gone(views), page[p])
    BY <1>3, <2>1, <2>2 DEF Views
  <2>4. view' = [view EXCEPT ![p] = Gone(views)]
    BY <1>3 DEF Stay
  <2> QED BY <1>1, <2>3, <2>4 DEF Moves
<1> QED BY <1>2, <1>3

\* The vote page opens with the time left that endTimeStamp says, which is never positive
\* before the answer of Info adds the vote's seconds.
LEMMA VoteMoves ==
  ASSUME NEW p, NEW endTimeStamp \in Stamps, NEW views \in Seq(GoodViews), NEW calls,
         Vote(p, endTimeStamp, views, calls)
  PROVE  Moves(p, "vote", calls)
<1> DEFINE left == IF endTimeStamp = Unset THEN NaN ELSE -endTimeStamp
           gone == Gone(views)
           s == Append(gone, View(left))
<1>1. left \in {NaN} \cup (-Old .. Max(Seconds)) /\ left <= 0
  BY LongestSeconds DEF Stamps, Ages, Unset, NaN
<1>2. page' = [page EXCEPT ![p] = "vote"] /\ call' = [call EXCEPT ![p] = calls] /\ view' = [view EXCEPT ![p] = s]
  BY DEF Vote, VotePage
<1> HIDE DEF left, gone
<1>3. View(left) \in GoodViews
  BY <1>1 DEF View, ViewType, Good, GoodViews
<1>4. gone \in Seq(GoneViews) /\ gone \in Seq(GoodViews)
  BY GoneGood, GoneSequence DEF gone
<1>5. \A i \in 1 .. Len(gone) : gone[i] \in GoneViews
  BY <1>4, LenProperties
<1>6. /\ s \in Seq(GoodViews) /\ Len(s) = Len(gone) + 1 /\ Len(gone) \in Nat
      /\ \A i \in 1 .. Len(gone) : s[i] = gone[i]
      /\ s[Len(gone) + 1] = View(left)
  BY <1>3, <1>4, AppendProperties, LenProperties
<1>7. Views(s, "vote")
  <2>1. s # <<>>
    BY <1>6
  <2>2. \A i \in DOMAIN s : s[i] \in GoneViews \/ i = Len(s)
    BY <1>5, <1>6, LenProperties
  <2> QED BY <1>6, <2>1, <2>2 DEF Views
<1> QED BY <1>2, <1>7 DEF Moves

\* A phone that shows a good page, and takes its voter for one who has voted only of an answer,
\* is as it should be; so is every other one.
Believes == app \in [Phones -> AppType] /\ \A p \in Phones : app[p].voted => p \in taken \cup refused

\* The part of the invariant about phones, from a step that moves one of them.
LEMMA PhoneMoves ==
  ASSUME Functions, \A q \in Phones : PhoneInv(q), taken \subseteq taken' /\ refused \subseteq refused',
         NEW p \in Phones, NEW to \in Pages, NEW calls, GoodCalls(p, calls), Moves(p, to, calls),
         to = "thanks" => p \in taken, Believes'
  PROVE  Functions' /\ \A q \in Phones : PhoneInv(q)'
<1>1. PICK s : Views(s, to) /\ view' = [view EXCEPT ![p] = s]
  BY DEF Moves
<1>2. page' = [page EXCEPT ![p] = to] /\ call' = [call EXCEPT ![p] = calls]
  BY DEF Moves
<1>3. Functions'
  BY <1>1, <1>2 DEF Functions, Believes
<1>4. ASSUME NEW q \in Phones PROVE PhoneInv(q)'
  <2>1. Views(view[q], page[q]) /\ GoodCalls(q, call[q]) /\ (page[q] = "thanks" => q \in taken)
    BY DEF PhoneInv
  <2>2. app'[q].voted => (q \in taken \cup refused)'
    BY DEF Believes
  <2>3. CASE q = p
    <3>1. view'[q] = s /\ page'[q] = to /\ call'[q] = calls
      BY <1>1, <1>2, <2>3 DEF Functions
    <3>2. Views(view[q], page[q])'
      BY <1>1, <3>1 DEF Views
    <3>3. GoodCalls(q, call[q])'
      BY <2>3, <3>1 DEF GoodCalls
    <3> QED BY <2>2, <2>3, <3>1, <3>2, <3>3 DEF PhoneInv
  <2>4. CASE q # p
    <3>1. view'[q] = view[q] /\ page'[q] = page[q] /\ call'[q] = call[q]
      BY <1>1, <1>2, <2>4 DEF Functions
    <3>2. Views(view[q], page[q])'
      BY <2>1, <3>1 DEF Views
    <3>3. GoodCalls(q, call[q])'
      BY <2>1, <3>1 DEF GoodCalls
    <3> QED BY <2>1, <2>2, <3>1, <3>2, <3>3 DEF PhoneInv
  <2> QED BY <2>3, <2>4
<1> QED BY <1>3, <1>4

\* What a phone believes is kept as it was, or changed to what is known of it.
LEMMA BeliefsMove ==
  ASSUME Functions, \A q \in Phones : PhoneInv(q), taken \subseteq taken' /\ refused \subseteq refused',
         NEW p \in Phones, NEW a \in AppType, a.voted => p \in taken \cup refused,
         app' = app \/ app' = [app EXCEPT ![p] = a]
  PROVE  Believes'
<1>1. app \in [Phones -> AppType] /\ \A q \in Phones : app[q].voted => q \in taken \cup refused
  BY DEF Functions, PhoneInv
<1>2. app' \in [Phones -> AppType]
  BY <1>1
<1>3. \A q \in Phones : app'[q].voted => app[q].voted \/ (q = p /\ a.voted)
  BY <1>1
<1> QED BY <1>1, <1>2, <1>3 DEF Believes

\* A step of phone p that shows it the page to keeps the invariant, if it keeps the server's
\* part and the commands'.
LEMMA PhoneStep ==
  ASSUME VoterInv, Next, ServerInv', WireInv',
         NEW p \in Phones, NEW to \in Pages, NEW calls, GoodCalls(p, calls), Moves(p, to, calls),
         to = "thanks" => p \in taken, NEW a \in AppType, a.voted => p \in taken \cup refused,
         app' = app \/ app' = [app EXCEPT ![p] = a]
  PROVE  VoterInv'
<1>1. Functions /\ (\A q \in Phones : PhoneInv(q)) /\ taken \subseteq taken' /\ refused \subseteq refused'
  BY HistoryStays DEF VoterInv
<1>2. Believes'
  BY <1>1, BeliefsMove
<1>3. Functions' /\ \A q \in Phones : PhoneInv(q)'
  BY <1>1, <1>2, PhoneMoves
<1> QED BY <1>3 DEF VoterInv

\* A step that leaves the phones alone, but for a request of one.
LEMMA CallMoves ==
  ASSUME Functions, NEW p \in Phones, PhoneInv(p), NEW calls,
         call' = [call EXCEPT ![p] = calls], UNCHANGED <<page, view>>
  PROVE  Moves(p, page[p], calls)
<1>1. Views(view[p], page[p])
  BY DEF PhoneInv
<1>2. page' = [page EXCEPT ![p] = page[p]] /\ view' = [view EXCEPT ![p] = view[p]]
  BY DEF Functions
<1> QED BY <1>1, <1>2 DEF Moves

\* A step that leaves pages, requests and vote pages alone, and of what a phone believes changes
\* nothing that is not known of it.
LEMMA PhonesKept ==
  ASSUME VoterInv, Next, ServerInv', WireInv', UNCHANGED <<page, call, view>>,
         \/ UNCHANGED app
         \/ \E p \in Phones : \E a \in AppType : (a.voted => p \in taken \cup refused) /\ app' = [app EXCEPT ![p] = a]
  PROVE  VoterInv'
<1>1. Functions /\ (\A q \in Phones : PhoneInv(q)) /\ taken \subseteq taken' /\ refused \subseteq refused'
  BY HistoryStays DEF VoterInv
<1>2. app' \in [Phones -> AppType] /\ \A q \in Phones : app'[q].voted => q \in taken \cup refused
  BY <1>1 DEF Functions, PhoneInv
<1>3. Functions'
  BY <1>1, <1>2 DEF Functions
<1>4. ASSUME NEW q \in Phones PROVE PhoneInv(q)'
  <2>1. Views(view[q], page[q])'
    BY <1>1 DEF PhoneInv, Views
  <2>2. GoodCalls(q, call[q])'
    BY <1>1 DEF PhoneInv, GoodCalls
  <2> QED BY <1>1, <1>2, <2>1, <2>2 DEF PhoneInv
<1> QED BY <1>3, <1>4 DEF VoterInv

\* Requests that are made, done with or lost say nothing of a vote.
LEMMA CallsGood ==
  ASSUME NEW p, NEW calls, GoodCalls(p, calls), NEW k \in Kinds
  PROVE  GoodCalls(p, [calls EXCEPT ![k] = NoCall]) /\ (k # "post" => GoodCalls(p, Ask(calls, k)))
<1> DEFINE none == [calls EXCEPT ![k] = NoCall]
           asked == [calls EXCEPT ![k] = Sent]
<1>1. /\ DOMAIN none = Kinds /\ DOMAIN asked = Kinds
      /\ \A j \in Kinds : none[j] = IF j = k THEN NoCall ELSE calls[j]
      /\ \A j \in Kinds : asked[j] = IF j = k THEN Sent ELSE calls[j]
  BY DEF GoodCalls
<1>2. NoCall.st = "none" /\ Sent.st = "sent" /\ "checkVoted" \in Kinds /\ "post" \in Kinds
  BY DEF NoCall, Sent, Kinds
<1> HIDE DEF none, asked
<1>3. GoodCalls(p, none)
  BY <1>1, <1>2 DEF GoodCalls
<1>4. k # "post" => GoodCalls(p, asked)
  BY <1>1, <1>2 DEF GoodCalls
<1> QED BY <1>3, <1>4 DEF none, asked, Ask

\* What the invariant says of phone p, as the steps below use it.
LEMMA PhoneFacts ==
  ASSUME VoterInv, NEW p \in Phones
  PROVE  /\ Functions /\ PhoneInv(p) /\ page[p] \in Pages /\ app[p] \in AppType
         /\ page[p] = "thanks" => p \in taken
         /\ app[p].voted => p \in taken \cup refused
         /\ app[p].userInfo \in BOOLEAN /\ app[p].voted \in BOOLEAN /\ app[p].endTimeStamp \in Stamps
         /\ Places(view[p], page[p]) /\ view[p] \in Seq(GoodViews)
         /\ \A i \in DOMAIN view[p] : view[p][i] \in GoodViews
         /\ GoodCalls(p, call[p]) /\ DOMAIN call[p] = Kinds
         /\ \A k \in Kinds : GoodCalls(p, Done(p, k)) /\ (k # "post" => GoodCalls(p, Ask(call[p], k)))
<1>1. Functions /\ PhoneInv(p)
  BY DEF VoterInv
<1>2. Places(view[p], page[p]) /\ \A i \in DOMAIN view[p] : view[p][i] \in GoodViews
  BY <1>1, ViewsArePlaces DEF PhoneInv
<1>3. GoodCalls(p, call[p])
  BY <1>1 DEF PhoneInv
<1>4. \A k \in Kinds : GoodCalls(p, Done(p, k)) /\ (k # "post" => GoodCalls(p, Ask(call[p], k)))
  BY <1>3, CallsGood DEF Done
<1>5. page[p] \in Pages /\ app[p] \in AppType
  BY <1>1 DEF Functions
<1> QED BY <1>1, <1>2, <1>3, <1>4, <1>5 DEF PhoneInv, AppType, GoodCalls, Places

-----------------------------------------------------------------------------
(* Each action keeps the invariant.                                        *)

\* Steps of the server and of the sockets that no phone sees yet.
LEMMA ServerStep ==
  ASSUME VoterInv, Next, Administrator \/ Server
  PROVE  VoterInv'
<1>1. ServerInv /\ WireInv
  BY DEF VoterInv
<1>2. ServerInv' /\ WireInv' /\ UNCHANGED phone
  <2>1. CASE Administrator
    BY <1>1, <2>1, AdministratorStep, ResetStep
  <2>2. CASE Deliver \/ Interrupted
    <3>1. WireInv'
      BY <1>1, <2>2, WireMoves DEF Deliver, Interrupted
    <3>2. UNCHANGED <<open, info, infoCache, queued, rows, taken>> /\ UNCHANGED phone
      BY <2>2 DEF Deliver, Interrupted, Fault, server
    <3> QED BY <1>1, <3>1, <3>2 DEF ServerInv
  <2>3. CASE Flush \/ Crash \/ ExpireInfo
    <3>1. /\ UNCHANGED <<open, info, taken, queue, inbox>> /\ infoCache' \in {infoCache, <<>>}
          /\ queued' \subseteq queued /\ rows' \subseteq rows \cup queued /\ UNCHANGED phone
      BY <2>3 DEF Flush, Crash, ExpireInfo, server, wire
    <3> QED BY <1>1, <3>1 DEF ServerInv, WireInv
  <2> QED BY <2>1, <2>2, <2>3 DEF Server
<1> QED BY <1>2, PhonesKept DEF phone

\* A step of a phone that leaves the server alone, and the queue of commands too.
LEMMA RestKept ==
  ASSUME VoterInv, UNCHANGED <<open, info, infoCache, queued, rows, taken>>, NEW p \in Phones,
         \/ UNCHANGED wire \/ Wire!Connect(p) \/ Wire!Opened(p) \/ Wire!Closed(p) \/ Wire!Receive(p)
  PROVE  ServerInv' /\ WireInv'
<1>1. ServerInv /\ WireInv
  BY DEF VoterInv
<1> QED BY <1>1, SocketMoves DEF ServerInv

\* app.js: launch and end of the program, its socket, and the commands that redirect.
LEMMA AppStep ==
  ASSUME VoterInv, Next, NEW p \in Phones, App(p)
  PROVE  VoterInv'
<1> USE PhoneFacts
<1>1. CASE \E to \in LaunchPages : Launch(p, to)
  <2>1. UNCHANGED <<open, info, infoCache, queued, rows, taken>> /\ Wire!Connect(p) /\ UNCHANGED app
    BY <1>1 DEF Launch, server
  <2>2. ServerInv' /\ WireInv'
    BY <2>1, RestKept
  <2>3. PICK to \in {"index", "login"} : Page(p, to, view[p], call[p])
    BY <1>1 DEF Launch, Index, Login
  <2>4. Moves(p, to, call[p]) /\ to \in Pages
    BY <2>3, PageMoves DEF Pages
  <2> QED BY <2>1, <2>2, <2>3, <2>4, PhoneStep
<1>2. CASE Quit(p)
  <2> DEFINE calls == [k \in Kinds |-> NoCall]
  <2>1. /\ UNCHANGED <<open, info, infoCache, queued, rows, taken>> /\ (UNCHANGED wire \/ Wire!Closed(p))
        /\ page' = [page EXCEPT ![p] = "none"] /\ call' = [call EXCEPT ![p] = calls]
        /\ view' = [view EXCEPT ![p] = <<>>] /\ app' = [app EXCEPT ![p] = NewApp]
    BY <1>2 DEF Quit, Fault
  <2>2. ServerInv' /\ WireInv'
    BY <2>1, RestKept
  <2>3. Views(<<>>, "none")
    BY DEF Views
  <2>4. Moves(p, "none", calls)
    BY <2>1, <2>3 DEF Moves
  <2>5. GoodCalls(p, calls)
    BY DEF GoodCalls, NoCall, Kinds
  <2>6. NewApp \in AppType /\ ~NewApp.voted /\ "none" \in Pages
    BY DEF NewApp, AppType, Stamps, Pages
  <2> HIDE DEF calls
  <2> QED BY <2>1, <2>2, <2>4, <2>5, <2>6, PhoneStep
<1>3. CASE UserKnown(p)
  <2> DEFINE a == [app[p] EXCEPT !.userInfo = TRUE]
  <2>1. /\ UNCHANGED <<open, info, infoCache, queued, rows, taken>> /\ UNCHANGED wire /\ UNCHANGED <<page, call, view>>
        /\ app' = [app EXCEPT ![p] = a]
    BY <1>3 DEF UserKnown, server
  <2>2. ServerInv' /\ WireInv'
    BY <2>1, RestKept
  <2>3. a \in AppType /\ (a.voted => p \in taken \cup refused)
    <3>1. app[p] \in AppType /\ (app[p].voted => p \in taken \cup refused)
      OBVIOUS
    <3> QED BY ONLY <3>1 DEF AppType
  <2> HIDE DEF a
  <2> QED BY <2>1, <2>2, <2>3, PhonesKept
<1>4. CASE SocketOpens(p) \/ SocketCloses(p)
  <2>1. /\ UNCHANGED <<open, info, infoCache, queued, rows, taken>> /\ (Wire!Opened(p) \/ Wire!Closed(p))
        /\ UNCHANGED <<page, call, view>> /\ UNCHANGED app
    BY <1>4 DEF SocketOpens, SocketCloses, Fault, server, phone
  <2>2. ServerInv' /\ WireInv'
    BY <2>1, RestKept
  <2> QED BY <2>1, <2>2, PhonesKept
<1>5. CASE OnSocketMessage(p)
  <2> DEFINE m == Head(inbox[p])
             a == [app[p] EXCEPT !.endTimeStamp = m.timestamp]
  <2>1. /\ UNCHANGED <<open, info, infoCache, queued, rows, taken>> /\ Wire!Receive(p) /\ app' = [app EXCEPT ![p] = a]
        /\ \/ Vote(p, m.timestamp, view[p], call[p])
           \/ Stay(p, view[p], call[p])
           \/ VoteStop(p, view[p], call[p])
           \/ Index(p, view[p], call[p])
    BY <1>5 DEF OnSocketMessage, server
  <2>2. ServerInv' /\ WireInv' /\ m \in Cmd
    BY <2>1, RestKept, SocketMoves DEF VoterInv
  <2>3. m.timestamp \in Stamps
    BY <2>2 DEF Cmd
  <2>4. a \in AppType /\ (a.voted => p \in taken \cup refused)
    <3>1. app[p] \in AppType /\ (app[p].voted => p \in taken \cup refused)
      OBVIOUS
    <3> HIDE DEF m
    <3> QED BY ONLY <3>1, <2>3 DEF AppType
  <2> HIDE DEF a, m
  <2>5. \E to \in Pages : Moves(p, to, call[p]) /\ (to = "thanks" => p \in taken)
    <3>1. CASE Vote(p, m.timestamp, view[p], call[p])
      BY <2>3, <3>1, VoteMoves DEF Pages
    <3>2. CASE Stay(p, view[p], call[p])
      BY <3>2, StayMoves
    <3>3. CASE VoteStop(p, view[p], call[p])
      BY <3>3, PageMoves DEF VoteStop, Pages
    <3>4. CASE Index(p, view[p], call[p])
      BY <3>4, PageMoves DEF Index, Pages
    <3> QED BY <2>1, <3>1, <3>2, <3>3, <3>4
  <2> QED BY <2>1, <2>2, <2>4, <2>5, PhoneStep
<1> QED BY <1>1, <1>2, <1>3, <1>4, <1>5 DEF App

\* What the callbacks of index, login and voteWaiting show: a page, or the one that is shown.
LEMMA Showing ==
  ASSUME VoterInv, NEW p \in Phones, NEW calls, GoodCalls(p, calls)
  PROVE  /\ Stay(p, view[p], calls) => Moves(p, page[p], calls)
         /\ VoteWaiting(p, view[p], calls) => Moves(p, "voteWaiting", Ask(calls, "checkEnable"))
         /\ GoodCalls(p, Ask(calls, "checkEnable"))
         /\ Thanks(p, view[p], calls) => Moves(p, "thanks", calls)
         /\ VoteTimeout(p, view[p], calls) => Moves(p, "voteTimeout", calls)
         /\ \A t \in Stamps : Vote(p, t, view[p], calls) => Moves(p, "vote", calls)
<1> USE PhoneFacts
<1>1. Stay(p, view[p], calls) => Moves(p, page[p], calls)
  BY StayMoves
<1>2. VoteWaiting(p, view[p], calls) => Moves(p, "voteWaiting", Ask(calls, "checkEnable"))
  BY PageMoves DEF VoteWaiting
<1>3. Thanks(p, view[p], calls) => Moves(p, "thanks", calls)
  BY PageMoves DEF Thanks
<1>4. VoteTimeout(p, view[p], calls) => Moves(p, "voteTimeout", calls)
  BY PageMoves DEF VoteTimeout
<1>5. \A t \in Stamps : Vote(p, t, view[p], calls) => Moves(p, "vote", calls)
  BY VoteMoves
<1>6. GoodCalls(p, Ask(calls, "checkEnable"))
  BY CallsGood DEF Kinds
<1> QED BY <1>1, <1>2, <1>3, <1>4, <1>5, <1>6

\* A row that the database has of a phone has been taken from it.
LEMMA FoundTaken ==
  ASSUME VoterInv, NEW p, Found(p)
  PROVE  p \in taken
BY DEF VoterInv, ServerInv, Found

\* Steps of index, login and voteWaiting that never redirect to thanks.
LEMMA FormStep ==
  ASSUME VoterInv, Next, NEW p \in Phones,
         GotInfo(p) \/ GoVote(p) \/ FormSubmit(p) \/ Submitted(p) \/ Refresh(p) \/ Refreshed(p)
  PROVE  VoterInv'
<1> USE PhoneFacts
<1>1. UNCHANGED <<open, info, infoCache, queued, rows, taken>> /\ UNCHANGED app /\ (UNCHANGED wire \/ Wire!Connect(p))
  BY DEF GotInfo, GoVote, FormSubmit, Submitted, Refresh, Refreshed, StartGetMsg, server
<1>2. ServerInv' /\ WireInv'
  BY <1>1, RestKept
<1>3. ASSUME NEW to \in Pages, NEW calls, GoodCalls(p, calls), Moves(p, to, calls), to = "thanks" => p \in taken
      PROVE  VoterInv'
  BY <1>1, <1>2, <1>3, PhoneStep
<1>4. CASE GotInfo(p)
  BY <1>1, <1>2, <1>4, PhonesKept DEF GotInfo
<1>5. CASE GoVote(p) \/ FormSubmit(p) \/ Refresh(p)
  <2>1. PICK k \in Kinds \ {"post"} : Stay(p, view[p], Ask(call[p], k))
    BY <1>5 DEF GoVote, FormSubmit, Refresh, Kinds
  <2>2. GoodCalls(p, Ask(call[p], k))
    OBVIOUS
  <2> QED BY <1>3, <2>1, <2>2, Showing
<1>6. CASE Submitted(p)
  <2> DEFINE calls == Done(p, "submit")
  <2>1. \/ Stay(p, view[p], calls) \/ VoteWaiting(p, view[p], calls)
        \/ Vote(p, app[p].endTimeStamp, view[p], calls)
    BY <1>6 DEF Submitted
  <2>2. GoodCalls(p, calls)
    BY DEF Kinds
  <2> HIDE DEF calls
  <2>3. \E to \in Pages : \E c : GoodCalls(p, c) /\ Moves(p, to, c) /\ (to = "thanks" => p \in taken)
    <3>1. CASE Stay(p, view[p], calls)
      BY <2>2, <3>1, Showing
    <3>2. CASE VoteWaiting(p, view[p], calls)
      BY <2>2, <3>2, Showing DEF Pages
    <3>3. CASE Vote(p, app[p].endTimeStamp, view[p], calls)
      BY <2>2, <3>3, Showing DEF Pages
    <3> QED BY <2>1, <3>1, <3>2, <3>3
  <2> QED BY <1>3, <2>3
<1>7. CASE Refreshed(p)
  <2> DEFINE calls == Done(p, "checkEnable")
  <2>1. \/ Vote(p, app[p].endTimeStamp, view[p], calls)
        \/ call' = [call EXCEPT ![p] = calls] /\ UNCHANGED <<page, view>>
    BY <1>7 DEF Refreshed
  <2>2. GoodCalls(p, calls)
    BY DEF Kinds
  <2> HIDE DEF calls
  <2>3. \E to \in Pages : Moves(p, to, calls) /\ (to = "thanks" => p \in taken)
    <3>1. CASE Vote(p, app[p].endTimeStamp, view[p], calls)
      BY <2>2, <3>1, Showing DEF Pages
    <3>2. CASE call' = [call EXCEPT ![p] = calls] /\ UNCHANGED <<page, view>>
      BY <3>2, CallMoves
    <3> QED BY <2>1, <3>1, <3>2
  <2> QED BY <1>3, <2>2, <2>3
<1> QED BY <1>4, <1>5, <1>6, <1>7

\* An answer to index may redirect to thanks: then the database has the row.
LEMMA AnswerStep ==
  ASSUME VoterInv, Next, NEW p \in Phones, CheckedVoted(p) \/ LoggedIn(p)
  PROVE  VoterInv'
<1> USE PhoneFacts
<1>1. UNCHANGED <<open, info, infoCache, queued, rows, taken>> /\ (UNCHANGED wire \/ Wire!Connect(p))
  BY DEF CheckedVoted, LoggedIn, StartGetMsg, server
<1>2. ServerInv' /\ WireInv'
  BY <1>1, RestKept
<1>3. ASSUME NEW t \in Stamps
      PROVE  [app[p] EXCEPT !.endTimeStamp = t] \in AppType /\ [app[p] EXCEPT !.endTimeStamp = t].voted = app[p].voted
  <2>1. app[p] \in AppType
    OBVIOUS
  <2> QED BY ONLY <2>1, <1>3 DEF AppType
<1>4. ASSUME NEW t \in Stamps, NEW to \in Pages, NEW calls, GoodCalls(p, calls), Moves(p, to, calls),
             to = "thanks" => p \in taken, UNCHANGED app \/ app' = [app EXCEPT ![p].endTimeStamp = t]
      PROVE  VoterInv'
  <2> DEFINE a == [app[p] EXCEPT !.endTimeStamp = t]
  <2>1. app' = app \/ app' = [app EXCEPT ![p] = a]
    BY <1>4
  <2>2. a \in AppType /\ (a.voted => p \in taken \cup refused)
    BY <1>3
  <2> HIDE DEF a
  <2> QED BY <1>2, <1>4, <2>1, <2>2, PhoneStep
<1>5. CASE CheckedVoted(p)
  <2> DEFINE c == call[p]["checkVoted"]
             calls == Done(p, "checkVoted")
  <2>1. /\ c.st = "answered"
        /\ \/ app' = [app EXCEPT ![p].endTimeStamp = c.age] /\ Vote(p, c.age, view[p], calls)
           \/ VoteWaiting(p, view[p], calls) /\ UNCHANGED app
           \/ c.voted /\ Thanks(p, view[p], calls) /\ UNCHANGED app
    BY <1>5 DEF CheckedVoted, Answered
  <2>2. c.age \in Stamps /\ (c.voted => p \in taken)
    BY <2>1 DEF GoodCalls, Answers
  <2>3. GoodCalls(p, calls)
    BY DEF Kinds
  <2> HIDE DEF c, calls
  <2>4. CASE app' = [app EXCEPT ![p].endTimeStamp = c.age] /\ Vote(p, c.age, view[p], calls)
    <3>1. Moves(p, "vote", calls) /\ "vote" \in Pages
      BY <2>2, <2>3, <2>4, Showing DEF Pages
    <3> QED BY <1>4, <2>2, <2>3, <2>4, <3>1
  <2>5. CASE VoteWaiting(p, view[p], calls) /\ UNCHANGED app
    <3>1. /\ Moves(p, "voteWaiting", Ask(calls, "checkEnable")) /\ "voteWaiting" \in Pages
          /\ GoodCalls(p, Ask(calls, "checkEnable"))
      BY <2>3, <2>5, Showing DEF Pages
    <3> QED BY <1>4, <2>2, <2>5, <3>1
  <2>6. CASE c.voted /\ Thanks(p, view[p], calls) /\ UNCHANGED app
    <3>1. Moves(p, "thanks", calls) /\ "thanks" \in Pages
      BY <2>3, <2>6, Showing DEF Pages
    <3> QED BY <1>4, <2>2, <2>3, <2>6, <3>1
  <2> QED BY <2>1, <2>4, <2>5, <2>6
<1>6. CASE LoggedIn(p)
  <2> DEFINE calls == Done(p, "login")
  <2>1. info[open].age \in Stamps
    BY DEF VoterInv, ServerInv, Stamps
  <2>2. /\ UNCHANGED app \/ app' = [app EXCEPT ![p].endTimeStamp = info[open].age]
        /\ \/ Stay(p, view[p], calls)
           \/ Found(p) /\ Thanks(p, view[p], calls)
           \/ VoteTimeout(p, view[p], calls)
           \/ VoteWaiting(p, view[p], calls)
    BY <1>6 DEF LoggedIn
  <2>3. GoodCalls(p, calls)
    BY DEF Kinds
  <2> HIDE DEF calls
  <2>4. \E to \in Pages : \E c : GoodCalls(p, c) /\ Moves(p, to, c) /\ (to = "thanks" => p \in taken)
    <3>1. CASE Stay(p, view[p], calls)
      BY <2>3, <3>1, Showing
    <3>2. CASE Found(p) /\ Thanks(p, view[p], calls)
      BY <2>3, <3>2, Showing, FoundTaken DEF Pages
    <3>3. CASE VoteTimeout(p, view[p], calls)
      BY <2>3, <3>3, Showing DEF Pages
    <3>4. CASE VoteWaiting(p, view[p], calls)
      BY <2>3, <3>4, Showing DEF Pages
    <3> QED BY <2>2, <3>1, <3>2, <3>3, <3>4
  <2> QED BY <1>4, <2>1, <2>2, <2>4
<1> QED BY <1>5, <1>6

\* The requests. An answer says of a vote what the server knows by then.
LEMMA RequestStep ==
  ASSUME VoterInv, Next, NEW p \in Phones, Requests(p)
  PROVE  VoterInv'
<1> USE PhoneFacts
<1>1. UNCHANGED <<open, info, infoCache, rows>> /\ UNCHANGED app /\ UNCHANGED wire
  BY DEF Requests, CheckVoted, CheckEnable, Serve, Post, Lose, Fault, server
<1>2. UNCHANGED <<queued, taken>> => ServerInv' /\ WireInv'
  BY <1>1, RestKept
<1>3. ASSUME NEW calls, GoodCalls(p, calls), Moves(p, page[p], calls), UNCHANGED <<queued, taken>>
      PROVE  VoterInv'
  BY <1>1, <1>2, <1>3, PhoneStep
<1>4. CASE CheckVoted(p)
  <2> DEFINE enabled == info[open].enabled /\ ~Found(p)
             answer == [st |-> "answered", voted |-> Found(p), enabled |-> enabled,
                        age |-> IF enabled THEN info[open].age ELSE Unset]
             calls == [call[p] EXCEPT !["checkVoted"] = answer]
  <2>1. call' = [call EXCEPT ![p] = calls] /\ UNCHANGED <<page, view>> /\ UNCHANGED <<queued, taken>>
    BY <1>4 DEF CheckVoted, Serve, server
  <2>2. answer \in Answers
    <3>1. info[open].age \in Ages /\ info[open].enabled \in BOOLEAN /\ Found(p) \in BOOLEAN
      BY DEF VoterInv, ServerInv, Found
    <3>2. info[open].age \in Stamps /\ Unset \in Stamps
      BY <3>1 DEF Stamps
    <3> QED BY ONLY <3>1, <3>2 DEF Answers
  <2>3. answer.voted => p \in taken
    BY FoundTaken
  <2> HIDE DEF answer
  <2>4. GoodCalls(p, calls)
    BY <2>2, <2>3 DEF GoodCalls, Kinds
  <2> HIDE DEF calls
  <2> QED BY <1>3, <2>1, <2>4, CallMoves
<1>5. CASE CheckEnable(p)
  <2> DEFINE answer == [st |-> "answered", enabled |-> info[open].enabled]
             calls == [call[p] EXCEPT !["checkEnable"] = answer]
  <2>1. call' = [call EXCEPT ![p] = calls] /\ UNCHANGED <<page, view>> /\ UNCHANGED <<queued, taken>>
    BY <1>5 DEF CheckEnable, Serve, server
  <2> HIDE DEF answer
  <2>2. GoodCalls(p, calls)
    BY DEF GoodCalls, Kinds
  <2> HIDE DEF calls
  <2> QED BY <1>3, <2>1, <2>2, CallMoves
<1>6. CASE Post(p)
  <2>1. PICK queues \in BOOLEAN, ok \in BOOLEAN :
          (ok => queues) /\ Answer(p, <<call[p]["post"].vote, p>>, queues, ok)
    BY <1>6 DEF Post
  <2>2. /\ UNCHANGED <<page, view>> /\ call[p]["post"].st = "sent"
        /\ call' = [call EXCEPT ![p]["post"] = [st |-> "answered", ok |-> ok]]
        /\ queued' \subseteq queued \cup {<<call[p]["post"].vote, p>>}
        /\ taken \subseteq taken' /\ refused \subseteq refused'
        /\ queued' = queued \/ p \in taken'
        /\ p \in taken' \cup refused' /\ (ok => p \in taken')
    BY <1>6, <2>1 DEF Post, Answer, Asked
  <2>3. ServerInv' /\ WireInv'
    <3>1. call[p]["post"].vote \in Votes
      BY <2>2 DEF GoodCalls
    <3>2. queued' \subseteq Votes \X taken' /\ rows' \subseteq Votes \X taken'
      BY <1>1, <2>2, <3>1 DEF VoterInv, ServerInv
    <3> QED BY <1>1, <3>2 DEF VoterInv, ServerInv, WireInv, wire
  <2>4. Functions'
    BY <1>1, <2>2 DEF Functions
  <2>6. ASSUME NEW q \in Phones PROVE PhoneInv(q)'
    <3>1. /\ PhoneInv(q) /\ (page'[q] = "thanks" => q \in taken')
          /\ (app'[q].voted => q \in taken' \cup refused')
      BY <1>1, <2>2 DEF VoterInv, PhoneInv
    <3>2. Views(view[q], page[q])'
      BY <2>2, <3>1 DEF PhoneInv, Views
    <3>3. GoodCalls(q, call[q])'
      <4>1. CASE q # p
        <5>1. call'[q] = call[q]
          BY <2>2, <4>1 DEF Functions
        <5> QED BY <2>2, <3>1, <5>1 DEF PhoneInv, GoodCalls
      <4>2. CASE q = p
        <5>1. call'[p] = [call[p] EXCEPT !["post"] = [st |-> "answered", ok |-> ok]]
          BY <2>2 DEF Functions
        <5>2. DOMAIN call'[p] = Kinds /\ call'[p]["checkVoted"] = call[p]["checkVoted"]
          BY <5>1 DEF Kinds
        <5>3. call'[p]["post"].st = "answered" /\ call'[p]["post"].ok = ok
          BY <5>1 DEF Kinds
        <5> QED BY <2>2, <4>2, <5>2, <5>3 DEF GoodCalls
      <4> QED BY <4>1, <4>2
    <3> QED BY <3>1, <3>2, <3>3 DEF PhoneInv
  <2> QED BY <2>3, <2>4, <2>6 DEF VoterInv
<1>7. CASE Lose(p)
  <2>0. UNCHANGED <<queued, taken>>
    BY <1>7 DEF Lose, Fault
  <2>1. CASE \E k \in Kinds : Stay(p, view[p], [call[p] EXCEPT ![k] = NoCall])
    <3>1. PICK k \in Kinds : Stay(p, view[p], Done(p, k))
      BY <2>1 DEF Done
    <3> QED BY <1>3, <2>0, <3>1, Showing
  <2>2. ASSUME NEW i \in DOMAIN view[p], Stay(p, [view[p] EXCEPT ![i] = [View(0) EXCEPT !.st = "lost"]], call[p])
        PROVE  VoterInv'
    <3> DEFINE v == [View(0) EXCEPT !.st = "lost"]
    <3>1. v \in GoodViews
      <4>1. 0 \in -Old .. Max(Seconds)
        BY ONLY LongestSeconds
      <4>2. View(0) \in ViewType /\ ~View(0).handle /\ ~View(0).modal
        BY ONLY <4>1 DEF View, ViewType
      <4>3. v \in ViewType /\ v.st = "lost" /\ ~v.handle /\ ~v.modal
        BY ONLY <4>2 DEF ViewType, v
      <4> QED BY ONLY <4>3 DEF Good, GoodViews
    <3> HIDE DEF v
    <3>2. Places([view[p] EXCEPT ![i] = v], page[p])
      BY <3>1, PlaceGood
    <3>3. Moves(p, page[p], call[p])
      BY <2>2, <3>2, StayMoves DEF v
    <3> QED BY <1>3, <2>0, <3>3
  <2> QED BY <1>7, <2>1, <2>2 DEF Lose
<1> QED BY <1>4, <1>5, <1>6, <1>7 DEF Requests

\* What the steps of a vote page do to it leaves it good.
LEMMA ChangedView ==
  ASSUME NEW v \in GoodViews
  PROVE  /\ v \in ViewType /\ Good(v)
         /\ \A due \in BOOLEAN : [v EXCEPT !.due = due] \in GoodViews
         /\ [v EXCEPT !.handle = FALSE] \in GoodViews
         /\ [v EXCEPT !.modal = FALSE] \in GoodViews
         /\ v.vote \in Votes /\ v.st # "sent" => [v EXCEPT !.modal = TRUE] \in GoodViews
         /\ [v EXCEPT !.st = "stopped", !.left = 0, !.due = FALSE, !.handle = FALSE] \in GoodViews
         /\ v.left > 0 => [v EXCEPT !.due = FALSE, !.left = v.left - 1] \in GoodViews
<1>1. v \in ViewType /\ Good(v)
  BY DEF GoodViews
<1>2. ASSUME NEW due \in BOOLEAN PROVE [v EXCEPT !.due = due] \in GoodViews
  <2> DEFINE w == [v EXCEPT !.due = due]
  <2>1. /\ w \in ViewType /\ w.st = v.st /\ w.left = v.left /\ w.vote = v.vote /\ w.handle = v.handle
        /\ w.modal = v.modal
    BY <1>1 DEF ViewType
  <2> HIDE DEF w
  <2> QED BY <1>1, <2>1 DEF Good, GoodViews, w
<1>3. [v EXCEPT !.handle = FALSE] \in GoodViews
  <2> DEFINE w == [v EXCEPT !.handle = FALSE]
  <2>1. /\ w \in ViewType /\ w.st = v.st /\ w.left = v.left /\ w.vote = v.vote /\ ~w.handle
        /\ w.modal = v.modal
    BY <1>1 DEF ViewType
  <2> HIDE DEF w
  <2> QED BY <1>1, <2>1 DEF Good, GoodViews, w
<1>4. ASSUME NEW b \in BOOLEAN, b => v.vote \in Votes /\ v.st # "sent" PROVE [v EXCEPT !.modal = b] \in GoodViews
  <2> DEFINE w == [v EXCEPT !.modal = b]
  <2>1. /\ w \in ViewType /\ w.st = v.st /\ w.left = v.left /\ w.vote = v.vote /\ w.handle = v.handle
        /\ w.modal = b
    BY <1>1 DEF ViewType
  <2> HIDE DEF w
  <2> QED BY <1>1, <1>4, <2>1 DEF Good, GoodViews, w
<1>5. [v EXCEPT !.st = "stopped", !.left = 0, !.due = FALSE, !.handle = FALSE] \in GoodViews
  <2> DEFINE w == [v EXCEPT !.st = "stopped", !.left = 0, !.due = FALSE, !.handle = FALSE]
  <2>1. 0 \in -Old .. Max(Seconds)
    BY LongestSeconds
  <2>2. w \in ViewType /\ w.st = "stopped" /\ w.vote = v.vote /\ ~w.handle /\ w.modal = v.modal
    BY <1>1, <2>1 DEF ViewType
  <2> HIDE DEF w
  <2> QED BY <1>1, <2>2 DEF Good, GoodViews, w
<1>6. ASSUME v.left > 0 PROVE [v EXCEPT !.due = FALSE, !.left = v.left - 1] \in GoodViews
  <2> DEFINE w == [v EXCEPT !.due = FALSE, !.left = v.left - 1]
  <2>1. v.left \in {NaN} \cup (-Old .. Max(Seconds)) /\ Old \in Nat /\ Max(Seconds) \in Nat
    BY <1>1, LongestSeconds DEF ViewType
  <2>2. v.left - 1 \in -Old .. Max(Seconds)
    BY <1>6, <2>1 DEF NaN
  <2>3. /\ w \in ViewType /\ w.st = v.st /\ w.vote = v.vote /\ w.handle = v.handle
        /\ w.modal = v.modal
    BY <1>1, <2>2 DEF ViewType
  <2>4. v.st # "sent"
    BY <1>1, <1>6, <2>1 DEF Good, NaN
  <2> HIDE DEF w
  <2> QED BY <1>1, <2>3, <2>4 DEF Good, GoodViews, w
<1> QED BY <1>1, <1>2, <1>3, <1>4, <1>5, <1>6

\* clearInterval(votePageTimer) stops the page whose countdown it names, and changes no other.
LEMMA ClearedGood ==
  ASSUME VoterInv, NEW p \in Phones
  PROVE  /\ Places(Cleared(p), page[p]) /\ DOMAIN Cleared(p) = DOMAIN view[p]
         /\ \A i \in DOMAIN view[p] : /\ Cleared(p)[i] \in GoodViews
                                      /\ ~Cleared(p)[i].handle
                                      /\ Cleared(p)[i].vote = view[p][i].vote
                                      /\ Cleared(p)[i].modal = view[p][i].modal
<1> DEFINE t == Cleared(p)
<1>1. Places(view[p], page[p]) /\ \A i \in DOMAIN view[p] : view[p][i] \in GoodViews
  BY PhoneFacts
<1>2. DOMAIN t = DOMAIN view[p] /\ t = [i \in DOMAIN t |-> t[i]]
  BY DEF Cleared
<1>3. ASSUME NEW i \in DOMAIN view[p]
      PROVE  /\ t[i] \in GoodViews /\ ~t[i].handle
             /\ t[i].vote = view[p][i].vote /\ t[i].modal = view[p][i].modal
  <2> DEFINE v == view[p][i]
             w == [v EXCEPT !.st = "stopped", !.left = 0, !.due = FALSE, !.handle = FALSE]
  <2>1. t[i] = IF v.handle THEN w ELSE v
    BY DEF Cleared
  <2>2. v \in ViewType /\ Good(v) /\ v \in GoodViews /\ w \in GoodViews
    BY <1>1, ChangedView
  <2>3. ~w.handle /\ w.vote = v.vote /\ w.modal = v.modal /\ w.st = "stopped"
    BY <2>2 DEF ViewType
  <2> HIDE DEF v, w
  <2>6. v.handle \in BOOLEAN
    BY <2>2 DEF ViewType
  <2> QED BY <2>1, <2>2, <2>3, <2>6 DEF v
<1> HIDE DEF t
<1>5. Places(t, page[p])
  BY <1>1, <1>2, <1>3, EditedGood
<1> QED BY <1>2, <1>3, <1>5 DEF t

\* A page that is changed can be shown as before.
LEMMA StayWith ==
  ASSUME VoterInv, NEW p \in Phones, NEW s, Places(s, page[p]), NEW i \in DOMAIN s, NEW v \in GoodViews,
         NEW calls, Stay(p, [s EXCEPT ![i] = v], calls)
  PROVE  Moves(p, page[p], calls)
<1>1. Places([s EXCEPT ![i] = v], page[p])
  BY PlaceGood
<1> QED BY <1>1, PhoneFacts, StayMoves

\* An answer of Info: its page's countdown starts and becomes the one the handle names.
LEMMA LoadedMoves ==
  ASSUME VoterInv, NEW p \in Phones, NEW i \in DOMAIN view[p], NEW vote \in Votes \cup {0},
         NEW left \in {NaN} \cup (-Old .. Max(Seconds)), Loaded(p, i, vote, left)
  PROVE  /\ Moves(p, page[p], call[p])
         /\ \E a \in AppType : ~a.voted /\ app' = [app EXCEPT ![p] = a]
<1> USE PhoneFacts
<1> DEFINE old == view[p][i]
           views == [j \in DOMAIN view[p] |-> [view[p][j] EXCEPT !.handle = FALSE]]
           v == [views[i] EXCEPT !.st = "running", !.vote = vote, !.left = left, !.handle = TRUE]
           a == [app[p] EXCEPT !.voted = FALSE]
<1>1. old.st = "sent" /\ Stay(p, [views EXCEPT ![i] = v], call[p]) /\ app' = [app EXCEPT ![p] = a]
  BY DEF Loaded
<1>2. /\ Places(views, page[p]) /\ DOMAIN views = DOMAIN view[p]
      /\ \A j \in DOMAIN view[p] : views[j] = [view[p][j] EXCEPT !.handle = FALSE]
  <2>1. DOMAIN views = DOMAIN view[p] /\ views = [j \in DOMAIN views |-> views[j]]
    OBVIOUS
  <2>2. ASSUME NEW j \in DOMAIN view[p] PROVE views[j] \in GoodViews
    <3>1. view[p][j] \in GoodViews
      OBVIOUS
    <3> QED BY <3>1, ChangedView
  <2> HIDE DEF views
  <2>3. Places(views, page[p])
    BY <2>1, <2>2, EditedGood
  <2> QED BY <2>1, <2>3 DEF views
<1>3. v \in GoodViews
  <2>1. old \in ViewType /\ Good(old)
    BY ChangedView
  <2>2. views[i] = [old EXCEPT !.handle = FALSE]
    BY <1>2
  <2> DEFINE w == [old EXCEPT !.handle = FALSE]
  <2>3. w \in ViewType /\ w.modal = old.modal
    BY <2>1 DEF ViewType
  <2>4. v = [w EXCEPT !.st = "running", !.vote = vote, !.left = left, !.handle = TRUE]
    BY <2>2
  <2> HIDE DEF w, views
  <2>5. v \in ViewType /\ v.st = "running" /\ v.modal = old.modal
    BY <2>3, <2>4 DEF ViewType
  <2> HIDE DEF v
  <2>6. ~old.modal
    BY <1>1, <2>1 DEF Good
  <2> QED BY <2>5, <2>6 DEF Good, GoodViews
<1>4. a \in AppType /\ ~a.voted
  <2>1. app[p] \in AppType
    OBVIOUS
  <2> QED BY ONLY <2>1 DEF AppType
<1> HIDE DEF old, views, v, a
<1>5. Moves(p, page[p], call[p])
  BY <1>1, <1>2, <1>3, StayWith
<1> QED BY <1>1, <1>4, <1>5

\* Info answers a vote there is, from the database or from the cache, whose seconds are added.
LEMMA GotVoteInfoStep ==
  ASSUME VoterInv, Next, NEW p \in Phones, NEW i \in DOMAIN view[p], GotVoteInfo(p, i)
  PROVE  VoterInv'
<1> USE PhoneFacts
<1> DEFINE answer == IF infoCache = <<>> THEN <<open, info[open].secs>> ELSE infoCache
           old == view[p][i]
           left == IF old.left = NaN THEN NaN ELSE Max({0, old.left + answer[2]})
<1>1. Loaded(p, i, answer[1], left) /\ old.st = "sent" /\ infoCache' = answer /\ UNCHANGED server /\ UNCHANGED wire
  BY DEF GotVoteInfo, Loaded
<1>2. answer \in Votes \X Seconds /\ answer[1] \in Votes /\ answer[2] \in Seconds
  <2>1. open \in Votes /\ info[open].secs \in Seconds /\ (infoCache = <<>> \/ infoCache \in Votes \X Seconds)
    BY DEF VoterInv, ServerInv
  <2>2. answer \in Votes \X Seconds
    BY <2>1
  <2> HIDE DEF answer
  <2> QED BY <2>2
<1> HIDE DEF answer
<1>3. ServerInv' /\ WireInv'
  <2>1. UNCHANGED <<open, info, queued, rows, taken>> /\ UNCHANGED <<queue, inbox>>
    BY <1>1 DEF server, wire
  <2> QED BY <1>1, <1>2, <2>1 DEF VoterInv, ServerInv, WireInv
<1>4. left \in {NaN} \cup (-Old .. Max(Seconds))
  <2>1. old \in GoodViews
    OBVIOUS
  <2>2. old.left \in {NaN} \cup (-Old .. Max(Seconds)) /\ old.left <= 0
    BY <1>1, <2>1, ChangedView DEF ViewType, Good
  <2>3. /\ answer[2] \in Nat /\ answer[2] <= Max(Seconds) /\ Old \in Nat
        /\ Max(Seconds) \in Nat /\ old.left \in Int
    <3>1. answer[2] \in Nat /\ answer[2] <= Max(Seconds) /\ Max(Seconds) \in Nat /\ Old \in Nat
      BY ONLY <1>2, LongestSeconds, VoterConstants
    <3> QED BY ONLY <2>2, <3>1 DEF NaN
  <2>4. old.left + answer[2] \in Int /\ old.left + answer[2] <= Max(Seconds)
    BY <2>2, <2>3
  <2>5. Max({0, old.left + answer[2]}) \in 0 .. Max(Seconds)
    BY <2>3, <2>4, MaxWithZero
  <2> HIDE DEF old
  <2> QED BY <2>3, <2>5
<1> HIDE DEF old, left
<1>5. Moves(p, page[p], call[p]) /\ \E a \in AppType : ~a.voted /\ app' = [app EXCEPT ![p] = a]
  BY <1>1, <1>2, <1>4, LoadedMoves
<1> QED BY <1>3, <1>5, PhoneStep

\* Info answers an error: there is no vote to choose from, and no number of seconds.
LEMMA GotNoInfoStep ==
  ASSUME VoterInv, Next, NEW p \in Phones, NEW i \in DOMAIN view[p], GotNoInfo(p, i)
  PROVE  VoterInv'
<1> USE PhoneFacts
<1>1. Loaded(p, i, 0, NaN) /\ UNCHANGED <<open, info, infoCache, queued, rows, taken>> /\ UNCHANGED wire
  BY DEF GotNoInfo, Fault
<1>2. ServerInv' /\ WireInv'
  BY <1>1, RestKept
<1>3. Moves(p, page[p], call[p]) /\ \E a \in AppType : ~a.voted /\ app' = [app EXCEPT ![p] = a]
  BY <1>1, LoadedMoves
<1> QED BY <1>2, <1>3, PhoneStep

\* A second of a countdown, of a page that is shown or gone; at its end votePageTimer is cleared.
LEMMA CountDownStep ==
  ASSUME VoterInv, Next, NEW p \in Phones, NEW i \in DOMAIN view[p], CountDown(p, i)
  PROVE  VoterInv'
<1> USE PhoneFacts
<1> DEFINE old == view[p][i]
<1>1. UNCHANGED <<open, info, infoCache, queued, rows, taken>> /\ UNCHANGED wire /\ UNCHANGED app
  BY DEF CountDown, server
<1>2. ServerInv' /\ WireInv'
  BY <1>1, RestKept
<1>3. ASSUME NEW to \in Pages, Moves(p, to, call[p]), to = "thanks" => p \in taken PROVE VoterInv'
  BY <1>1, <1>2, <1>3, PhoneStep
<1>4. old \in ViewType /\ Good(old) /\ old \in GoodViews
  BY ChangedView
<1>5. CASE TimeIsUp(p, i)
  <2> DEFINE s == Cleared(p)
             v == [s[i] EXCEPT !.due = FALSE]
  <2>1. VoteTimeout(p, [s EXCEPT ![i] = v], call[p])
    BY <1>5 DEF CountDown
  <2>2. Places(s, page[p]) /\ DOMAIN s = DOMAIN view[p] /\ s[i] \in GoodViews
    BY ClearedGood
  <2>3. v \in GoodViews
    BY <2>2, ChangedView
  <2> HIDE DEF s, v
  <2>6. Places([s EXCEPT ![i] = v], page[p])
    BY <2>2, <2>3, PlaceGood
  <2>7. Moves(p, "voteTimeout", call[p])
    BY <2>1, <2>6, PageMoves DEF VoteTimeout, Places
  <2> QED BY <1>3, <2>7 DEF Pages
<1>6. CASE ~TimeIsUp(p, i)
  <2> DEFINE v == [old EXCEPT !.due = FALSE, !.left = old.left - 1]
  <2>1. Stay(p, [view[p] EXCEPT ![i] = v], call[p]) /\ old.left > 0
    BY <1>6 DEF CountDown, TimeIsUp
  <2>2. v \in GoodViews
    BY <1>4, <2>1, ChangedView
  <2> HIDE DEF v
  <2>5. Moves(p, page[p], call[p])
    BY <2>1, <2>2, StayWith
  <2> QED BY <1>3, <2>5
<1> QED BY <1>5, <1>6

\* The question whether to vote, and the vote that is sent: for the vote the page got from Info.
LEMMA VotedStep ==
  ASSUME VoterInv, Next, NEW p \in Phones, Voted(p) \/ \E i \in DOMAIN view[p] : Cancel(p, i)
  PROVE  VoterInv'
<1> USE PhoneFacts
<1>1. UNCHANGED <<open, info, infoCache, queued, rows, taken>> /\ UNCHANGED wire /\ UNCHANGED app
  BY DEF Voted, Cancel, server
<1>2. ServerInv' /\ WireInv'
  BY <1>1, RestKept
<1>3. \E i \in DOMAIN view[p] : \E b \in BOOLEAN :
        /\ Stay(p, [view[p] EXCEPT ![i].modal = b], call[p])
        /\ b => view[p][i].vote \in Votes /\ view[p][i].st # "sent"
  <2>1. CASE Voted(p)
    <3>1. Len(view[p]) \in DOMAIN view[p]
      BY <2>1, LastPlace DEF Voted
    <3>2. view[p][Len(view[p])] \in ViewType
      BY <3>1, ChangedView
    <3>3. view[p][Len(view[p])].vote \in Votes
      BY <2>1, <3>2 DEF Voted, ViewType
    <3> QED BY <2>1, <3>1, <3>3 DEF Voted
  <2>2. CASE \E i \in DOMAIN view[p] : Cancel(p, i)
    BY <2>2 DEF Cancel
  <2> QED BY <2>1, <2>2
<1>4. PICK i \in DOMAIN view[p], b \in BOOLEAN :
        /\ Stay(p, [view[p] EXCEPT ![i].modal = b], call[p])
        /\ b => view[p][i].vote \in Votes /\ view[p][i].st # "sent"
  BY <1>3
<1> DEFINE old == view[p][i]
           v == [old EXCEPT !.modal = b]
<1>5. v \in GoodViews
  BY <1>4, ChangedView
<1>6. Stay(p, [view[p] EXCEPT ![i] = v], call[p])
  BY <1>4
<1> HIDE DEF v
<1>7. Moves(p, page[p], call[p])
  BY <1>5, <1>6, StayWith
<1> QED BY <1>1, <1>2, <1>7, PhoneStep

\* The vote is sent, the countdown the handle names cleared before.
LEMMA ProcessVotedStep ==
  ASSUME VoterInv, Next, NEW p \in Phones, NEW i \in DOMAIN view[p], ProcessVoted(p, i)
  PROVE  VoterInv'
<1> USE PhoneFacts
<1> DEFINE s == Cleared(p)
           old == s[i]
           v == [old EXCEPT !.modal = FALSE]
           post == [st |-> "sent", vote |-> view[p][i].vote]
           calls == IF app[p].userInfo THEN [call[p] EXCEPT !["post"] = post] ELSE call[p]
           a == [app[p] EXCEPT !.voted = app[p].voted]
<1>1. UNCHANGED <<open, info, infoCache, queued, rows, taken>> /\ UNCHANGED wire /\ app' = [app EXCEPT ![p] = a]
  BY DEF ProcessVoted, Process, server
<1>2. ServerInv' /\ WireInv'
  BY <1>1, RestKept
<1>3. view[p][i].modal /\ Stay(p, [s EXCEPT ![i] = v], calls)
  <2>1. [s EXCEPT ![i].modal = FALSE] = [s EXCEPT ![i] = v]
    OBVIOUS
  <2> QED BY <2>1 DEF ProcessVoted, Process
<1>4. Places(s, page[p]) /\ DOMAIN s = DOMAIN view[p] /\ old \in GoodViews
  BY ClearedGood
<1> HIDE DEF s
<1>5. v \in GoodViews
  BY <1>4, ChangedView
<1>6. GoodCalls(p, calls)
  <2>1. view[p][i].vote \in Votes
    BY <1>3, ChangedView DEF Good
  <2>2. /\ DOMAIN [call[p] EXCEPT !["post"] = post] = Kinds
        /\ [call[p] EXCEPT !["post"] = post]["checkVoted"] = call[p]["checkVoted"]
        /\ [call[p] EXCEPT !["post"] = post]["post"] = post
    BY DEF Kinds
  <2>3. post.st = "sent" /\ post.vote \in Votes
    BY <2>1
  <2> HIDE DEF post
  <2>4. GoodCalls(p, [call[p] EXCEPT !["post"] = post])
    BY <2>2, <2>3 DEF GoodCalls
  <2> QED BY <2>4
<1>7. a \in AppType /\ (a.voted => p \in taken \cup refused)
  <2>1. app[p] \in AppType /\ (app[p].voted => p \in taken \cup refused)
    OBVIOUS
  <2> QED BY ONLY <2>1 DEF AppType
<1> HIDE DEF old, v, calls, a
<1>8. Moves(p, page[p], calls)
  BY <1>3, <1>4, <1>5, StayWith DEF old
<1> QED BY <1>1, <1>2, <1>6, <1>7, <1>8, PhoneStep

\* The phone takes its voter for one who has voted once the request is answered, and thanks him
\* when it has been taken.
LEMMA PostedStep ==
  ASSUME VoterInv, Next, NEW p \in Phones, Posted(p)
  PROVE  VoterInv'
<1> USE PhoneFacts
<1> DEFINE calls == Done(p, "post")
           a == [app[p] EXCEPT !.voted = TRUE]
<1>1. /\ UNCHANGED <<open, info, infoCache, queued, rows, taken>> /\ UNCHANGED wire /\ app' = [app EXCEPT ![p] = a]
      /\ call[p]["post"].st = "answered"
      /\ (call[p]["post"].ok /\ Thanks(p, view[p], calls)) \/ Stay(p, view[p], calls)
  BY DEF Posted, Thanked, Answered, server
<1>2. ServerInv' /\ WireInv'
  BY <1>1, RestKept
<1>3. p \in taken \cup refused /\ (call[p]["post"].ok => p \in taken)
  BY <1>1 DEF GoodCalls
<1>4. a \in AppType
  <2>1. app[p] \in AppType
    OBVIOUS
  <2> QED BY ONLY <2>1 DEF AppType
<1>5. GoodCalls(p, calls)
  BY DEF Kinds
<1> HIDE DEF calls, a
<1>6. (call[p]["post"].ok /\ Moves(p, "thanks", calls)) \/ Moves(p, page[p], calls)
  BY <1>1, <1>5, Showing
<1>7. "thanks" \in Pages
  BY DEF Pages
<1> QED BY <1>1, <1>2, <1>3, <1>4, <1>5, <1>6, <1>7, PhoneStep

\* A second passes: what is kept as an age stays one, and countdowns fall due.
LEMMA TickStep ==
  ASSUME VoterInv, Next, Tick
  PROVE  VoterInv'
<1>1. ServerInv /\ WireInv /\ Functions /\ (\A p \in Phones : PhoneInv(p)) /\ taken \subseteq taken' /\ refused \subseteq refused'
  BY HistoryStays DEF VoterInv
<1>2. ServerInv'
  <2>1. \A v \in Votes : info[v] \in InfoType
    BY <1>1 DEF ServerInv, InfoType
  <2>2. \A v \in Votes : Older(info[v].age) \in Ages
    BY <2>1, OlderStamps DEF InfoType, Stamps
  <2>3. \A v \in Votes : [info[v] EXCEPT !.age = Older(info[v].age)] \in InfoType
    BY <2>1, <2>2 DEF InfoType
  <2>4. /\ info' = [v \in Votes |-> [info[v] EXCEPT !.age = Older(info[v].age)]]
        /\ UNCHANGED <<open, infoCache, queued, rows, taken>>
    BY DEF Tick
  <2> QED BY <1>1, <2>3, <2>4 DEF ServerInv, InfoType
<1>3. WireInv'
  <2>1. ASSUME NEW s \in Seq(Cmd) PROVE OlderCommands(s) \in Seq(Cmd)
    <3>1. Len(s) \in Nat /\ DOMAIN s = 1 .. Len(s) /\ \A i \in DOMAIN s : s[i] \in Cmd
      BY <2>1, LenProperties
    <3>2. \A i \in DOMAIN s : Older(s[i].timestamp) \in Stamps
      BY <3>1, OlderStamps DEF Cmd
    <3>3. \A i \in DOMAIN s : [s[i] EXCEPT !.timestamp = Older(s[i].timestamp)] \in Cmd
      BY <3>1, <3>2 DEF Cmd
    <3>4. OlderCommands(s) \in [1 .. Len(s) -> Cmd]
      BY <3>1, <3>3 DEF OlderCommands
    <3> QED BY <3>1, <3>4, SeqDef
  <2>2. /\ queue' = [queue EXCEPT ![Commands] = OlderCommands(queue[Commands])]
        /\ inbox' = [p \in Phones |-> OlderCommands(inbox[p])]
    BY DEF Tick
  <2> QED BY <1>1, <2>1, <2>2 DEF WireInv
<1>4. /\ page' = page /\ app' = [p \in Phones |-> [app[p] EXCEPT !.endTimeStamp = Older(app[p].endTimeStamp)]]
      /\ DOMAIN call' = Phones /\ DOMAIN view' = Phones
      /\ call' = [p \in Phones |-> call'[p]] /\ view' = [p \in Phones |-> view'[p]]
  BY DEF Tick
<1>5. ASSUME NEW p \in Phones PROVE app'[p] \in AppType /\ app'[p].voted = app[p].voted
  <2>1. app[p] \in AppType
    BY <1>1 DEF Functions
  <2>2. Older(app[p].endTimeStamp) \in Stamps
    BY <2>1, OlderStamps DEF AppType
  <2>3. app'[p] = [app[p] EXCEPT !.endTimeStamp = Older(app[p].endTimeStamp)]
    BY <1>4
  <2> QED BY ONLY <2>1, <2>2, <2>3 DEF AppType
<1>6. Functions'
  <2>1. app' \in [Phones -> AppType]
    BY <1>4, <1>5
  <2> QED BY <1>1, <1>4, <2>1 DEF Functions
<1>7. ASSUME NEW p \in Phones PROVE PhoneInv(p)'
  <2>1. Views(view[p], page[p])'
    <3> DEFINE s == view[p]
               t == view'[p]
    <3>1. t = [i \in DOMAIN s |-> [s[i] EXCEPT !.due = (s[i].st = "running")]]
      BY DEF Tick
    <3>2. Views(s, page[p])
      BY <1>1 DEF PhoneInv
    <3>3. s \in Seq(GoodViews) /\ Len(s) \in Nat /\ DOMAIN s = 1 .. Len(s) /\ \A i \in DOMAIN s : s[i] \in GoodViews
      BY <3>2, ViewsArePlaces, LenProperties DEF Views
    <3> HIDE DEF s, t
    <3>4. ASSUME NEW i \in DOMAIN s
          PROVE  /\ t[i] \in GoodViews
                 /\ s[i] \in GoneViews => t[i] \in GoneViews
      <4> DEFINE due == (s[i].st = "running")
                 w == [s[i] EXCEPT !.due = due]
      <4>1. s[i] \in ViewType /\ w \in GoodViews
        BY <3>3, ChangedView
      <4>2. w.st = s[i].st /\ w.vote = s[i].vote /\ w.modal = s[i].modal
        BY <4>1 DEF ViewType
      <4>3. t[i] = w
        BY <3>1
      <4> HIDE DEF w
      <4> QED BY <4>1, <4>2, <4>3 DEF GoneViews, Alive
    <3>5. DOMAIN t = DOMAIN s /\ t \in [1 .. Len(s) -> GoodViews]
      BY <3>1, <3>3, <3>4
    <3>6. t \in Seq(GoodViews)
      BY <3>3, <3>5, SeqDef
    <3>7. Len(t) = Len(s)
      BY <3>3, <3>5, <3>6, LenProperties
    <3>8. page[p] = "vote" => t # <<>>
      BY <3>2, <3>3, <3>6, <3>7, EmptySeq DEF Views
    <3>9. \A i \in DOMAIN t : t[i] \in GoneViews \/ (page[p] = "vote" /\ i = Len(t))
      BY <3>2, <3>4, <3>5, <3>7 DEF Views
    <3>10. Views(t, page[p])
      BY <3>6, <3>8, <3>9 DEF Views
    <3> QED BY <1>4, <3>10 DEF t, Views
  <2>2. GoodCalls(p, call[p])'
    <3> DEFINE c == call[p]["checkVoted"]
               answer == IF c.st = "answered" THEN [c EXCEPT !.age = Older(c.age)] ELSE c
    <3>1. GoodCalls(p, call[p])
      BY <1>1 DEF PhoneInv
    <3>2. call'[p] = [call[p] EXCEPT !["checkVoted"] = answer]
      BY DEF Tick, OlderAnswer
    <3>3. DOMAIN call'[p] = Kinds /\ call'[p]["checkVoted"] = answer /\ call'[p]["post"] = call[p]["post"]
      BY <3>1, <3>2 DEF GoodCalls, Kinds
    <3>4. answer.st = "answered" => answer \in Answers /\ (answer.voted => p \in taken)
      <4>1. CASE c.st = "answered"
        <5>1. c \in Answers /\ (c.voted => p \in taken)
          BY <3>1, <4>1 DEF GoodCalls
        <5>2. Older(c.age) \in Stamps
          BY <5>1, OlderStamps DEF Answers
        <5>3. answer = [c EXCEPT !.age = Older(c.age)]
          BY <4>1
        <5> HIDE DEF c, answer
        <5>4. answer \in Answers /\ answer.voted = c.voted
          BY ONLY <5>1, <5>2, <5>3 DEF Answers
        <5> QED BY <5>1, <5>4
      <4>2. CASE c.st # "answered"
        BY <4>2
      <4> QED BY <4>1, <4>2
    <3> HIDE DEF answer
    <3> QED BY <1>1, <3>1, <3>3, <3>4 DEF GoodCalls
  <2> QED BY <1>1, <1>4, <1>5, <2>1, <2>2 DEF PhoneInv
<1> QED BY <1>2, <1>3, <1>6, <1>7 DEF VoterInv

-----------------------------------------------------------------------------
(* The theorems.                                                           *)

\* No step of the program, in whichever order requests, answers, commands and countdowns come,
\* leaves the invariant.
LEMMA VoterNext ==
  ASSUME VoterInv, [Next]_vars
  PROVE  VoterInv'
<1>1. CASE UNCHANGED vars
  BY <1>1 DEF vars, server, wire, phone, VoterInv, ServerInv, WireInv, Functions, PhoneInv, Views, GoodCalls
<1>2. CASE Next
  <2>1. CASE \E p \in Phones : \E i \in DOMAIN view[p] : CountDown(p, i)
    BY <1>2, <2>1, CountDownStep
  <2>2. CASE Tick
    BY <1>2, <2>2, TickStep
  <2>3. CASE Administrator \/ Server
    BY <1>2, <2>3, ServerStep
  <2>4. ASSUME NEW p \in Phones, Requests(p) \/ App(p) PROVE VoterInv'
    BY <1>2, <2>4, RequestStep, AppStep
  <2>5. ASSUME NEW p \in Phones, PageHandlers(p) PROVE VoterInv'
    BY <1>2, <2>5, FormStep, AnswerStep, VotedStep, PostedStep, GotVoteInfoStep, GotNoInfoStep, ProcessVotedStep
       DEF PageHandlers
  <2> QED BY <1>2, <2>1, <2>2, <2>3, <2>4, <2>5 DEF Next
<1> QED BY <1>1, <1>2

\* The inductive invariant of phones and server holds in every state.
THEOREM VoterInvariant == Spec => []VoterInv
<1>1. Init => VoterInv
  BY VoterInit
<1>2. VoterInv /\ [Next]_vars => VoterInv'
  BY VoterNext
<1> QED BY <1>1, <1>2, PTL DEF Spec

\* TypeOK: what phones keep has its type, and a vote page that is gone is kept only while its
\* countdown, its answer of Info or its question can still act.
THEOREM VoterTyped == Spec => []TypeOK
<1>1. VoterInv => TypeOK
  <2> SUFFICES ASSUME VoterInv, NEW p \in Phones
               PROVE  /\ page[p] \in Pages
                      /\ app[p].endTimeStamp \in Stamps
                      /\ page[p] = "vote" => view[p] # <<>>
                      /\ \A i \in DOMAIN view[p] :
                           /\ view[p][i].left \in {NaN} \cup (-Old .. Max(Seconds))
                           /\ view[p][i].handle => view[p][i].st = "running"
                           /\ ~Shown(p, i) => Alive(view[p][i])
    BY DEF TypeOK
  <2>1. page[p] \in Pages /\ app[p].endTimeStamp \in Stamps /\ Views(view[p], page[p])
    BY PhoneFacts DEF PhoneInv
  <2>2. \A i \in DOMAIN view[p] : view[p][i] \in ViewType /\ Good(view[p][i])
    BY PhoneFacts, ChangedView
  <2>3. \A i \in DOMAIN view[p] : ~Shown(p, i) => Alive(view[p][i])
    BY <2>1 DEF Views, Shown, GoneViews
  <2> QED BY <2>1, <2>2, <2>3 DEF Views, ViewType, Good
<1> QED BY <1>1, VoterInvariant, PTL

\* BeliefsFounded: a phone thanks only a voter the server has taken a vote of, and marks as having
\* voted only one it has taken or refused a vote of.
THEOREM BeliefsAreFounded == Spec => []BeliefsFounded
<1>1. VoterInv => BeliefsFounded
  BY DEF VoterInv, PhoneInv, BeliefsFounded
<1> QED BY <1>1, VoterInvariant, PTL

=============================================================================
