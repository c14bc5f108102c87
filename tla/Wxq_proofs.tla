----------------------------- MODULE Wxq_proofs -----------------------------
(***************************************************************************)
(* Proofs about Wxq, for any numbers of rows, places on the walls, photos, *)
(* lost connections and events, and any set of check pages.                *)
(***************************************************************************)
EXTENDS Wxq, SequenceLemmas

-----------------------------------------------------------------------------
(* What the walls' OnGet takes.                                            *)

\* Newest picks no more rows than it is asked for: the oldest it picks has fewer than n newer
\* ones.
LEMMA NewestBounded ==
  ASSUME NEW ids \in SUBSET Nat, IsFiniteSet(ids), NEW n \in Nat
  PROVE  /\ Newest(n, ids) \subseteq ids /\ IsFiniteSet(Newest(n, ids))
         /\ Cardinality(Newest(n, ids)) \in Nat
         /\ Cardinality(Newest(n, ids)) <= n
<1> DEFINE N == Newest(n, ids)
<1>1. N \subseteq ids /\ N \in SUBSET Nat
  BY DEF Newest
<1>2. IsFiniteSet(N) /\ Cardinality(N) \in Nat
  BY <1>1, FS_Subset, FS_CardinalityType
<1>3. CASE N = {}
  BY <1>2, <1>3, FS_EmptySet
<1>4. CASE N # {}
  <2>1. PICK m \in N : \A y \in N : m <= y
    <3> HIDE DEF N
    <3> QED BY <1>1, <1>4, LeastNatural
  <2> DEFINE A == {j \in ids : j > m}
  <2>2. Cardinality(A) < n
    BY <2>1 DEF Newest
  <2>3. N \ {m} \subseteq A
    <3>1. \A y \in N : y \in ids /\ (y # m => y > m)
      BY <1>1, <2>1
    <3> QED BY <3>1
  <2>4. IsFiniteSet(A)
    <3>1. A \in SUBSET ids
      OBVIOUS
    <3> QED BY <3>1, FS_Subset
  <2> HIDE DEF A, N
  <2>5. Cardinality(N \ {m}) <= Cardinality(A) /\ Cardinality(A) \in Nat
    BY <2>3, <2>4, FS_Subset, FS_CardinalityType
  <2>6. Cardinality(N \ {m}) = Cardinality(N) - 1
    BY <1>2, <2>1, FS_RemoveElement
  <2>7. Cardinality(N) <= n
    BY <1>2, <2>2, <2>5, <2>6
  <2> QED BY <1>1, <1>2, <2>7 DEF N
<1> QED BY <1>3, <1>4

\* NewestFirst is a sequence of the elements of its set, as long as there are elements.
LEMMA NewestFirstTyped ==
  ASSUME NEW ids \in SUBSET Nat, IsFiniteSet(ids)
  PROVE  NewestFirst(ids) \in Seq(ids) /\ Len(NewestFirst(ids)) = Cardinality(ids)
<1>1. Cardinality(ids) \in Nat
  BY FS_CardinalityType
<1>2. \A k \in 1 .. Cardinality(ids) : \E i \in ids : Cardinality({j \in ids : j > i}) = k - 1
  BY RankFromTop
<1>3. NewestFirst(ids) \in [1 .. Cardinality(ids) -> ids]
  BY <1>2 DEF NewestFirst
<1> QED BY <1>1, <1>3, SeqDef, LenProperties

-----------------------------------------------------------------------------
(* The guest. In WxqApp the photo under way is the one confirmed, because  *)
(* no other can be taken meanwhile: the button of takePhoto is hidden      *)
(* while a photo is previewed, and a photo stays previewed from its        *)
(* confirmation to the end of its upload.                                  *)

MaybePhoto == Photos \cup {NoPhoto}

GuestTyped ==
  /\ program \in {"WxqApp", "VoteWeapp"}
  /\ userInfo \in {"unknown", "refused", "known"}
  /\ token \in BOOLEAN /\ confirmed \in MaybePhoto /\ upload \in MaybePhoto
  /\ program = "WxqApp" =>
       page \in [msgData : BOOLEAN, previewImgSrc : MaybePhoto, modal : {"none", "photo", "txt"}]
  /\ program = "VoteWeapp" => page \in [pickIndex : Walls, previewImgSrc : MaybePhoto]

PhotoInv ==
  program = "WxqApp" =>
    /\ page.modal = "photo" => ~token /\ upload = NoPhoto /\ page.previewImgSrc # NoPhoto
    /\ token => upload = NoPhoto /\ confirmed = page.previewImgSrc /\ page.previewImgSrc # NoPhoto
    /\ upload # NoPhoto => page.previewImgSrc # NoPhoto

GuestInv == GuestTyped /\ PhotoInv

\* Both programs start without a photo.
LEMMA GuestInit == Init => GuestInv
<1> SUFFICES ASSUME Init PROVE GuestInv
  OBVIOUS
<1>1. /\ userInfo = "unknown" /\ token = FALSE /\ confirmed = NoPhoto /\ upload = NoPhoto
      /\ NoPhoto \in MaybePhoto
  BY DEF Init, MaybePhoto
<1>2. CASE program = "WxqApp" /\ page = App!Page
  BY <1>1, <1>2 DEF App!Page, GuestInv, GuestTyped, PhotoInv
<1>3. CASE program = "VoteWeapp" /\ page = WxqVote!Page
  BY <1>1, <1>3 DEF WxqVote!Page, Walls, GuestInv, GuestTyped, PhotoInv
<1> QED BY <1>2, <1>3 DEF Init

\* A step of the mini-program WxqApp.
LEMMA WxqAppStep ==
  ASSUME GuestInv, program = "WxqApp", WxqAppGuest, UNCHANGED program
  PROVE  GuestInv'
<1> DEFINE P == [msgData : BOOLEAN, previewImgSrc : MaybePhoto, modal : {"none", "photo", "txt"}]
<1>1. /\ page \in P /\ userInfo \in {"unknown", "refused", "known"}
      /\ token \in BOOLEAN /\ confirmed \in MaybePhoto /\ upload \in MaybePhoto
      /\ PhotoInv /\ program' = "WxqApp"
  BY DEF GuestInv, GuestTyped
<1>2. /\ page.msgData \in BOOLEAN /\ page.previewImgSrc \in MaybePhoto
      /\ page.modal \in {"none", "photo", "txt"}
  BY <1>1
<1> DEFINE Goal ==
       /\ page' \in P /\ userInfo' \in {"unknown", "refused", "known"}
       /\ token' \in BOOLEAN /\ confirmed' \in MaybePhoto /\ upload' \in MaybePhoto
       /\ page'.modal = "photo" => ~token' /\ upload' = NoPhoto /\ page'.previewImgSrc # NoPhoto
       /\ token' => upload' = NoPhoto /\ confirmed' = page'.previewImgSrc /\ page'.previewImgSrc # NoPhoto
       /\ upload' # NoPhoto => page'.previewImgSrc # NoPhoto
<1>3. SUFFICES Goal
  BY <1>1 DEF GuestInv, GuestTyped, PhotoInv
<1>4. /\ page.modal = "photo" => ~token /\ upload = NoPhoto /\ page.previewImgSrc # NoPhoto
      /\ token => upload = NoPhoto /\ confirmed = page.previewImgSrc /\ page.previewImgSrc # NoPhoto
      /\ upload # NoPhoto => page.previewImgSrc # NoPhoto
  BY <1>1 DEF PhotoInv
<1>5. CASE App!OnLaunch \/ App!GetUserInfo
  BY <1>1, <1>4, <1>5 DEF App!OnLaunch, App!GetUserInfo
<1>6. CASE \E typed \in BOOLEAN : App!TextInput(typed)
  BY <1>1, <1>4, <1>6 DEF App!TextInput, App!SetData
<1>7. CASE \E photo \in Photos : App!TakePhoto(photo)
  <2> PICK photo \in Photos : App!TakePhoto(photo)
    BY <1>7
  <2>1. /\ page.previewImgSrc = NoPhoto
        /\ page' = [page EXCEPT !.previewImgSrc = photo, !.modal = "photo"]
        /\ UNCHANGED <<userInfo, token, confirmed, upload>>
    BY DEF App!TakePhoto, App!Chosen, App!SetData
  <2>2. photo # NoPhoto /\ photo \in MaybePhoto
    BY WallConstants DEF MaybePhoto
  <2> QED BY <1>1, <1>4, <2>1, <2>2
<1>8. CASE App!Cancel
  BY <1>1, <1>2, <1>4, <1>8 DEF App!Cancel, App!SetData, MaybePhoto
<1>9. CASE App!SendImg
  BY <1>1, <1>2, <1>4, <1>9 DEF App!SendImg
<1>10. CASE App!PostMsg
  BY <1>1, <1>4, <1>10 DEF App!PostMsg, App!Form, App!SetData
<1>11. CASE App!SendTxt
  BY <1>1, <1>2, <1>4, <1>11 DEF App!SendTxt, App!TextSent, App!SetData
<1>12. CASE App!UploadImg
  BY <1>1, <1>2, <1>4, <1>12 DEF App!UploadImg, MaybePhoto
<1>13. CASE App!Uploaded
  BY <1>1, <1>2, <1>4, <1>13 DEF App!Uploaded, MaybePhoto
<1>14. CASE App!Lost
  BY <1>1, <1>4, <1>14 DEF App!Lost, MaybePhoto
<1>15. \/ App!OnLaunch \/ App!GetUserInfo
       \/ \E typed \in BOOLEAN : App!TextInput(typed)
       \/ \E photo \in Photos : App!TakePhoto(photo)
       \/ App!Cancel \/ App!SendImg \/ App!PostMsg \/ App!SendTxt
       \/ App!UploadImg \/ App!Uploaded \/ App!Lost
  BY DEF WxqAppGuest
<1> HIDE DEF Goal
<1> QED
  BY <1>5, <1>6, <1>7, <1>8, <1>9, <1>10, <1>11, <1>12, <1>13, <1>14, <1>15

\* A step of the page wxq.
LEMMA VoteWeappStep ==
  ASSUME GuestInv, program = "VoteWeapp", VoteWeappGuest, UNCHANGED program
  PROVE  GuestInv'
<1> DEFINE P == [pickIndex : Walls, previewImgSrc : MaybePhoto]
<1>1. /\ page \in P /\ userInfo \in {"unknown", "refused", "known"}
      /\ token \in BOOLEAN /\ confirmed \in MaybePhoto /\ upload \in MaybePhoto
      /\ program' = "VoteWeapp"
  BY DEF GuestInv, GuestTyped
<1>2. page.previewImgSrc \in MaybePhoto
  BY <1>1
<1>3. /\ page' \in P /\ userInfo' \in {"unknown", "refused", "known"}
      /\ token' \in BOOLEAN /\ confirmed' \in MaybePhoto /\ upload' \in MaybePhoto
  <2>1. CASE WxqVote!OnLaunch
    BY <1>1, <2>1 DEF WxqVote!OnLaunch
  <2>2. CASE \E pick \in Walls : WxqVote!BindPickerChange(pick)
    BY <1>1, <2>2 DEF WxqVote!BindPickerChange, WxqVote!SetData
  <2>3. CASE \E photo \in Photos : WxqVote!TakePhoto(photo)
    BY <1>1, <2>3 DEF WxqVote!TakePhoto, WxqVote!SetData, MaybePhoto
  <2>4. CASE WxqVote!SendTxt \/ WxqVote!SendImg
    BY <1>1, <1>2, <2>4 DEF WxqVote!SendTxt, WxqVote!SendImg, WxqVote!SetData
  <2>5. CASE WxqVote!UploadImg \/ WxqVote!Uploaded \/ WxqVote!Lost
    BY <1>1, <1>2, <2>5 DEF WxqVote!UploadImg, WxqVote!Uploaded, WxqVote!Lost, MaybePhoto
  <2> QED BY <2>1, <2>2, <2>3, <2>4, <2>5 DEF VoteWeappGuest
<1> QED BY <1>1, <1>3 DEF GuestInv, GuestTyped, PhotoInv

\* Nothing else touches the phone.
LEMMA Phones ==
  ASSUME Next
  PROVE  Guest \/ UNCHANGED guest
BY DEF Next, CarouselTicks, Click, OpenCheck, PullWxqLog, Asked, ReadLog, Read, SaveLog, LosePull,
       CheckedData, DeleteData, PostChecked, BasicPublish, DeleteMsg, LoseCall, Deliver, Interrupted, Recover, OpenWall,
       SocketOpens, SocketCloses, OnMessage, Delete, Removed

\* Every step keeps the guest's invariant; only a guest's own steps change what it is about.
LEMMA GuestStep == GuestInv /\ [Next]_vars => GuestInv'
<1> SUFFICES ASSUME GuestInv, [Next]_vars PROVE GuestInv'
  OBVIOUS
<1>1. CASE Guest
  <2>1. UNCHANGED program
    BY <1>1 DEF Guest
  <2> QED BY <1>1, <2>1, WxqAppStep, VoteWeappStep DEF Guest
<1>2. CASE UNCHANGED guest
  BY <1>2 DEF guest, phone, GuestInv, GuestTyped, PhotoInv
<1> QED BY <1>1, <1>2, Phones DEF vars

-----------------------------------------------------------------------------
(* Rows and messages. OnlyPassed is not inductive alone: what may be       *)
(* published, what a page that is opened loads and what the server is      *)
(* asked to delete have been passed as well, which is part of the          *)
(* invariant, as is that every one of them is a row there is.              *)

Row == [type : Walls, status : {"Created", "Proccessed", "Checked", "Deleted"}]
Ids == 1 .. Len(rows)

TableInv ==
  /\ rows \in Seq(Row)
  /\ passed \subseteq Ids
  /\ \A i \in Ids : rows[i].status = "Checked" => i \in passed

\* A pull that waits to be read, and one that is read.
Asking == [st : {"asked"}, by : SUBSET Checkers, take : Nat]
Got == [st : {"read"}, by : SUBSET Checkers, ids : SUBSET Ids, alone : BOOLEAN]

CheckInv ==
  /\ list \in [Checkers -> SUBSET Ids]
  /\ pull \in [Pulls -> {NoPull} \cup Asking \cup Got]
  /\ calls \subseteq {"check", "publish", "delete"} \X Ids
  /\ \A i \in Ids : <<"publish", i>> \in calls \/ <<"delete", i>> \in calls => i \in passed

MessagesInv ==
  /\ shown \in [Walls -> Seq(passed)]
  /\ queue \in [Walls -> Seq(passed)]
  /\ unacked \in [Walls -> Seq(passed)]
  /\ inbox \in [Walls -> Seq(passed)]

RowsInv == TableInv /\ CheckInv /\ MessagesInv

\* In the beginning there are none.
LEMMA RowsInit == Init => RowsInv
<1> SUFFICES ASSUME Init PROVE RowsInv
  OBVIOUS
<1>1. rows = <<>> /\ rows \in Seq(Row) /\ Len(rows) = 0 /\ Ids = {}
  BY DEF Init, Ids
<1>2. TableInv
  BY <1>1 DEF Init, TableInv
<1>3. CheckInv
  BY <1>1, WallConstants DEF Init, CheckInv
<1>4. <<>> \in Seq(passed)
  OBVIOUS
<1>5. MessagesInv
  BY <1>4 DEF Init, MessagesInv, Wire!Start
<1> QED BY <1>2, <1>3, <1>5 DEF RowsInv

\* SetStatus changes the status of the rows given, and nothing else.
LEMMA StatusSet ==
  ASSUME rows \in Seq(Row), NEW ids, NEW status \in {"Created", "Proccessed", "Checked", "Deleted"},
         SetStatus(ids, status)
  PROVE  /\ rows' \in Seq(Row) /\ Len(rows') = Len(rows) /\ Ids' = Ids
         /\ \A i \in Ids : /\ rows'[i].type = rows[i].type
                           /\ i \in ids => rows'[i].status = status
                           /\ i \notin ids => rows'[i].status = rows[i].status
<1>1. Len(rows) \in Nat /\ DOMAIN rows = 1 .. Len(rows) /\ \A i \in 1 .. Len(rows) : rows[i] \in Row
  BY LenProperties
<1>2. rows' = [i \in 1 .. Len(rows) |-> IF i \in ids THEN [rows[i] EXCEPT !.status = status] ELSE rows[i]]
  BY <1>1 DEF SetStatus
<1>3. \A r \in Row : /\ [r EXCEPT !.status = status] \in Row
                     /\ [r EXCEPT !.status = status].type = r.type
                     /\ [r EXCEPT !.status = status].status = status
  BY DEF Row
<1>4. \A i \in 1 .. Len(rows) : rows'[i] \in Row
  BY <1>1, <1>2, <1>3
<1>5. rows' \in Seq(Row) /\ Len(rows') = Len(rows)
  <2>1. rows' \in [1 .. Len(rows) -> Row]
    BY <1>2, <1>4
  <2> QED BY <1>1, <2>1, SeqDef, LenProperties
<1> QED BY <1>1, <1>2, <1>3, <1>5 DEF Ids

\* A guest adds at most one new row.
LEMMA RowAdded ==
  ASSUME rows \in Seq(Row), Guest
  PROVE  /\ rows' \in Seq(Row) /\ Ids \subseteq Ids'
         /\ \A i \in Ids : rows'[i] = rows[i]
         /\ \A i \in Ids' : i \in Ids \/ rows'[i].status = "Created"
<1>1. UNCHANGED rows \/ \E type \in Walls : rows' = Append(rows, [type |-> type, status |-> "Created"])
  BY DEF Guest, WxqAppGuest, VoteWeappGuest, Sent, SendData, Quiet, Walls
<1>2. CASE UNCHANGED rows
  BY <1>2 DEF Ids
<1>3. ASSUME NEW type \in Walls, rows' = Append(rows, [type |-> type, status |-> "Created"])
      PROVE  /\ rows' \in Seq(Row) /\ Ids \subseteq Ids'
             /\ \A i \in Ids : rows'[i] = rows[i]
             /\ \A i \in Ids' : i \in Ids \/ rows'[i].status = "Created"
  <2> DEFINE row == [type |-> type, status |-> "Created"]
  <2>1. row \in Row /\ row.status = "Created"
    BY DEF Row
  <2> HIDE DEF row
  <2>2. /\ rows' \in Seq(Row) /\ Len(rows') = Len(rows) + 1
        /\ \A i \in 1 .. Len(rows) : rows'[i] = rows[i]
        /\ rows'[Len(rows) + 1] = row
    BY <1>3, <2>1, AppendProperties DEF row
  <2> QED BY <2>1, <2>2, LenProperties DEF Ids
<1> QED BY <1>1, <1>2, <1>3

\* A sequence over a set is one over any larger set.
LEMMA SeqOfMore ==
  ASSUME NEW S, NEW T, S \subseteq T, NEW f \in [Walls -> Seq(S)]
  PROVE  f \in [Walls -> Seq(T)]
<1>1. \A w \in Walls : f[w] \in Seq(T)
  <2> TAKE w \in Walls
  <2>1. f[w] \in Seq(S) /\ Len(f[w]) \in Nat /\ \A i \in 1 .. Len(f[w]) : f[w][i] \in S
    BY LenProperties
  <2>2. f[w] \in [1 .. Len(f[w]) -> T]
    BY <2>1, LenProperties
  <2> QED BY <2>1, <2>2, SeqDef
<1> QED BY <1>1

\* What is sent, kept for another delivery and delivered again comes from the queue.
LEMMA WireMoves ==
  ASSUME NEW P, NEW w \in Walls,
         queue \in [Walls -> Seq(P)], unacked \in [Walls -> Seq(P)], inbox \in [Walls -> Seq(P)],
         Wire!Deliver(w) \/ Wire!Interrupted(w) \/ Wire!Recover(w)
  PROVE  /\ queue' \in [Walls -> Seq(P)] /\ unacked' \in [Walls -> Seq(P)]
         /\ inbox' \in [Walls -> Seq(P)]
<1>1. ASSUME NEW R, Wire!SendTo(w, R)
      PROVE  /\ queue' \in [Walls -> Seq(P)] /\ unacked' \in [Walls -> Seq(P)]
             /\ inbox' \in [Walls -> Seq(P)]
  <2>1. /\ queue[w] \in Seq(P) /\ queue[w] # <<>>
        /\ queue' = [queue EXCEPT ![w] = Tail(queue[w])]
        /\ unacked' = [unacked EXCEPT ![w] = IF recoveries < MaxRecoveries
                                             THEN Append(unacked[w], Head(queue[w])) ELSE <<>>]
        /\ inbox' = [r \in Walls |-> IF r \in R THEN Append(inbox[r], Head(queue[w])) ELSE inbox[r]]
    BY <1>1 DEF Wire!SendTo
  <2>2. Tail(queue[w]) \in Seq(P) /\ Head(queue[w]) \in P
    BY <2>1, TailElements, ToSetType
  <2>3. \A s \in Seq(P) : Append(s, Head(queue[w])) \in Seq(P)
    BY <2>2
  <2> QED BY <2>1, <2>2, <2>3
<1>2. CASE Wire!Deliver(w)
  BY <1>1, <1>2 DEF Wire!Deliver
<1>3. CASE Wire!Interrupted(w)
  BY <1>1, <1>3 DEF Wire!Interrupted
<1>4. CASE Wire!Recover(w)
  <2>1. unacked[w] \o queue[w] \in Seq(P)
    <3>1. unacked[w] \in Seq(P) /\ queue[w] \in Seq(P)
      OBVIOUS
    <3> QED BY <3>1, ConcatProperties
  <2> QED BY <1>4, <2>1 DEF Wire!Recover
<1> QED BY <1>2, <1>3, <1>4

\* A guest's step: there may be one row more.
LEMMA GuestRows ==
  ASSUME RowsInv, Guest
  PROVE  RowsInv'
<1>1. /\ rows' \in Seq(Row) /\ Ids \subseteq Ids'
      /\ \A i \in Ids : rows'[i] = rows[i]
      /\ \A i \in Ids' : i \in Ids \/ rows'[i].status = "Created"
  BY RowAdded DEF RowsInv, TableInv
<1>2. UNCHANGED <<passed, list, pull, calls, shown, queue, unacked, inbox>>
  BY DEF Guest, checking, walls, wire
<1>3. TableInv'
  <2>1. \A i \in Ids' : rows'[i].status = "Checked" => i \in passed'
    BY <1>1, <1>2 DEF RowsInv, TableInv
  <2> QED BY <1>1, <1>2, <2>1 DEF RowsInv, TableInv
<1>4. CheckInv'
  <2>1. calls \subseteq {"check", "publish", "delete"} \X Ids'
    BY <1>1 DEF RowsInv, CheckInv
  <2>2. \A i \in Ids' : <<"publish", i>> \in calls \/ <<"delete", i>> \in calls => i \in passed
    BY DEF RowsInv, CheckInv
  <2>3. list \in [Checkers -> SUBSET Ids']
    BY <1>1 DEF RowsInv, CheckInv
  <2>4. pull \in [Pulls -> {NoPull} \cup Asking \cup Got']
    <3>1. Got \subseteq Got'
      BY <1>1 DEF Got
    <3> QED BY <3>1 DEF RowsInv, CheckInv
  <2>5. Asking' = Asking /\ NoPull' = NoPull
    BY DEF Asking, NoPull
  <2> QED BY <1>1, <1>2, <2>1, <2>2, <2>3, <2>4, <2>5 DEF RowsInv, CheckInv
<1>5. MessagesInv'
  BY <1>2 DEF RowsInv, MessagesInv
<1> QED BY <1>3, <1>4, <1>5 DEF RowsInv

\* The three kinds of pull are told apart by their st.
LEMMA PullKinds ==
  ASSUME CheckInv, NEW p \in Pulls
  PROVE  /\ pull[p] = NoPull <=> pull[p].st = "none"
         /\ pull[p] \in Asking <=> pull[p].st = "asked"
         /\ pull[p] \in Got <=> pull[p].st = "read"
<1>1. pull[p] = NoPull \/ pull[p] \in Asking \/ pull[p] \in Got
  BY DEF CheckInv
<1>2. NoPull.st = "none"
  BY DEF NoPull
<1>3. \A r \in Asking : r.st = "asked"
  BY DEF Asking
<1>4. \A r \in Got : r.st = "read"
  BY DEF Got
<1> QED BY <1>1, <1>2, <1>3, <1>4

\* What a step does to a pull that has been read, if it does not read or end it.
StillRead(q) ==
  pull'[q].st = "read" => /\ pull[q].st = "read" /\ pull'[q].ids = pull[q].ids
                          /\ pull'[q].alone => pull[q].alone

\* A page that is opened or asks for rows shows nothing; its older requests go on.
LEMMA PullAsked ==
  ASSUME CheckInv, NEW c \in Checkers, NEW p \in Pulls, OpenCheck(c, p) \/ PullWxqLog(c, p)
  PROVE  /\ pull' \in [Pulls -> {NoPull} \cup Asking \cup Got]
         /\ list' = [list EXCEPT ![c] = {}]
         /\ UNCHANGED <<rows, passed, calls>>
         /\ \A q \in Pulls : StillRead(q)
<1>1. LoadTake \in Nat /\ PullTake \in Nat
  BY WallConstants
<1> DEFINE fewer(q) == IF pull[q] = NoPull THEN NoPull ELSE [pull[q] EXCEPT !.by = @ \ {c}]
<1>2. ASSUME NEW q \in Pulls
      PROVE  /\ fewer(q) \in {NoPull} \cup Asking \cup Got
             /\ fewer(q).st = pull[q].st
             /\ pull[q].st = "read" => fewer(q).ids = pull[q].ids /\ fewer(q).alone = pull[q].alone
  <2>1. pull[q] = NoPull \/ pull[q] \in Asking \/ pull[q] \in Got
    BY DEF CheckInv
  <2>2. CASE pull[q] = NoPull
    BY <2>2, PullKinds
  <2>3. CASE pull[q] \in Asking
    <3>1. pull[q] # NoPull /\ pull[q].st = "asked"
      BY <2>3, PullKinds
    <3>2. [pull[q] EXCEPT !.by = @ \ {c}] \in Asking
      BY <2>3 DEF Asking
    <3>3. [pull[q] EXCEPT !.by = @ \ {c}].st = "asked"
      BY <2>3 DEF Asking
    <3> QED BY <3>1, <3>2, <3>3
  <2>4. CASE pull[q] \in Got
    <3>1. pull[q] # NoPull
      BY <2>4, PullKinds
    <3>2. [pull[q] EXCEPT !.by = @ \ {c}] \in Got
      BY <2>4 DEF Got
    <3>3. /\ [pull[q] EXCEPT !.by = @ \ {c}].st = pull[q].st
          /\ [pull[q] EXCEPT !.by = @ \ {c}].ids = pull[q].ids
          /\ [pull[q] EXCEPT !.by = @ \ {c}].alone = pull[q].alone
      BY <2>4 DEF Got
    <3> QED BY <3>1, <3>2, <3>3
  <2> QED BY <2>1, <2>2, <2>3, <2>4
<1> HIDE DEF fewer
<1>3. /\ list' = [list EXCEPT ![c] = {}] /\ UNCHANGED <<rows, passed, calls>>
      /\ \E take \in Nat :
           \/ pull' = [[q \in Pulls |-> fewer(q)] EXCEPT ![p] = [st |-> "asked", by |-> {c}, take |-> take]]
           \/ pull' = [pull EXCEPT ![p] = [st |-> "asked", by |-> {c}, take |-> take]]
  BY <1>1 DEF OpenCheck, PullWxqLog, Asked, fewer
<1>4. \A take \in Nat : LET a == [st |-> "asked", by |-> {c}, take |-> take]
                        IN a \in Asking /\ a.st # "read"
  BY DEF Asking
<1>5. pull \in [Pulls -> {NoPull} \cup Asking \cup Got]
  BY DEF CheckInv
<1>6. \A q \in Pulls : \/ pull'[q] \in Asking /\ pull'[q].st # "read"
                       \/ pull'[q] = fewer(q) \/ pull'[q] = pull[q]
  BY <1>3, <1>4, <1>5
<1>7. DOMAIN pull' = Pulls /\ pull' = [q \in Pulls |-> pull'[q]]
  BY <1>3, <1>5
<1>8. pull' \in [Pulls -> {NoPull} \cup Asking \cup Got]
  BY <1>2, <1>5, <1>6, <1>7
<1>9. \A q \in Pulls : StillRead(q)
  BY <1>2, <1>6 DEF StillRead
<1> QED BY <1>3, <1>8, <1>9

\* A pull is read: the others that have been are not alone any more.
LEMMA PullRead ==
  ASSUME CheckInv, NEW p \in Pulls, ReadLog(p), DOMAIN rows = Ids
  PROVE  /\ pull' \in [Pulls -> {NoPull} \cup Asking \cup Got]
         /\ UNCHANGED <<rows, passed, calls, list>>
         /\ \A q \in Pulls \ {p} : pull'[q].st = "read" => ~pull'[q].alone
         /\ pull'[p].ids \subseteq With("Created")
         /\ pull'[p].alone => Reading = {}
         /\ \A q \in Pulls \ {p} : pull'[q].st = "read" => q \in Reading
<1>1. Newest(pull[p].take, With("Created")) \subseteq With("Created") /\ With("Created") \subseteq Ids
  BY DEF Newest, With
<1> DEFINE got == [st |-> "read", by |-> pull[p].by, ids |-> Newest(pull[p].take, With("Created")),
                   alone |-> Reading = {}]
<1>2. /\ pull[p].st = "asked" /\ UNCHANGED <<rows, passed, calls, list>>
      /\ pull' = [Rivals EXCEPT ![p] = got]
  BY DEF ReadLog, Read
<1>3. got \in Got
  <2>1. pull[p].by \in SUBSET Checkers
    BY <1>2, PullKinds DEF Asking
  <2>2. (Reading = {}) \in BOOLEAN
    OBVIOUS
  <2> QED BY <1>1, <2>1, <2>2 DEF Got
<1>4. got.ids \subseteq With("Created") /\ (got.alone => Reading = {})
  BY <1>1
<1> HIDE DEF got
<1>5. ASSUME NEW q \in Pulls
      PROVE  /\ Rivals[q] \in {NoPull} \cup Asking \cup Got
             /\ Rivals[q].st = "read" => q \in Reading /\ ~Rivals[q].alone
  <2>1. CASE q \in Reading
    <3>1. pull[q] \in Got
      BY <2>1, PullKinds DEF Reading
    <3>2. Rivals[q] = [pull[q] EXCEPT !.alone = FALSE]
      BY <2>1 DEF Rivals
    <3>3. [pull[q] EXCEPT !.alone = FALSE] \in Got /\ ~[pull[q] EXCEPT !.alone = FALSE].alone
      BY <3>1 DEF Got
    <3> QED BY <2>1, <3>2, <3>3
  <2>2. CASE q \notin Reading
    <3>1. Rivals[q] = pull[q] /\ pull[q].st # "read"
      BY <2>2 DEF Rivals, Reading
    <3> QED BY <3>1 DEF CheckInv
  <2> QED BY <2>1, <2>2
<1>6. DOMAIN Rivals = Pulls /\ Rivals = [q \in Pulls |-> Rivals[q]]
  BY DEF Rivals
<1>7. /\ pull' = [q \in Pulls |-> pull'[q]] /\ pull'[p] = got
      /\ \A q \in Pulls \ {p} : pull'[q] = Rivals[q]
  BY <1>2, <1>6
<1>8. pull' \in [Pulls -> {NoPull} \cup Asking \cup Got]
  BY <1>3, <1>5, <1>7
<1> QED BY <1>2, <1>4, <1>5, <1>7, <1>8

\* The steps of a check page and of its requests: what it gets, shows and asks for are rows.
CheckerSteps ==
  \/ \E c \in Checkers, p \in Pulls : OpenCheck(c, p) \/ PullWxqLog(c, p)
  \/ \E p \in Pulls : ReadLog(p) \/ SaveLog(p) \/ LosePull(p)
  \/ \E c \in Checkers, i \in DOMAIN rows : CheckedData(c, i) \/ DeleteData(c, i)
LEMMA CheckerRows == RowsInv /\ CheckerSteps => RowsInv'
<1> SUFFICES ASSUME RowsInv, CheckerSteps PROVE RowsInv'
  OBVIOUS
<1>1. UNCHANGED <<passed, shown, queue, unacked, inbox>>
  BY DEF CheckerSteps, OpenCheck, PullWxqLog, Asked, ReadLog, Read, SaveLog, LosePull, CheckedData,
         DeleteData, walls, wire
<1>2. MessagesInv'
  BY <1>1 DEF RowsInv, MessagesInv
<1>3. /\ rows \in Seq(Row) /\ Len(rows) \in Nat /\ DOMAIN rows = Ids /\ Ids \in SUBSET Nat
      /\ IsFiniteSet(Ids)
  <2>1. rows \in Seq(Row) /\ Len(rows) \in Nat /\ DOMAIN rows = Ids
    BY LenProperties DEF RowsInv, TableInv, Ids
  <2>2. 1 \in Int /\ Len(rows) \in Int
    BY <2>1
  <2>3. IsFiniteSet(Ids)
    BY <2>2, FS_Interval DEF Ids
  <2> QED BY <2>1, <2>3 DEF Ids
<1> DEFINE Pullings == [Pulls -> {NoPull} \cup Asking \cup Got]
\* It is enough that requests and lists are made of rows.
<1>9. ASSUME Ids' = Ids, pull' \in Pullings, list' \in [Checkers -> SUBSET Ids], UNCHANGED calls
      PROVE  CheckInv'
  BY <1>1, <1>9 DEF RowsInv, CheckInv, Got, Asking, NoPull
<1>10. pull \in Pullings /\ list \in [Checkers -> SUBSET Ids] /\ CheckInv
  BY DEF RowsInv, CheckInv
<1>4. ASSUME NEW c \in Checkers, NEW p \in Pulls, OpenCheck(c, p) \/ PullWxqLog(c, p) PROVE RowsInv'
  <2>1. /\ pull' \in Pullings /\ list' = [list EXCEPT ![c] = {}] /\ UNCHANGED <<rows, passed, calls>>
    BY <1>4, <1>10, PullAsked
  <2>2. list' \in [Checkers -> SUBSET Ids] /\ Ids' = Ids
    BY <1>10, <2>1 DEF Ids
  <2>3. CheckInv'
    BY <1>9, <2>1, <2>2
  <2>4. TableInv'
    BY <2>1, <2>2 DEF RowsInv, TableInv
  <2> QED BY <1>2, <2>3, <2>4 DEF RowsInv
<1>5. ASSUME NEW p \in Pulls, ReadLog(p) PROVE RowsInv'
  <2>1. pull' \in Pullings /\ UNCHANGED <<rows, passed, calls, list>>
    BY <1>3, <1>5, <1>10, PullRead
  <2>2. Ids' = Ids
    BY <2>1 DEF Ids
  <2>3. CheckInv'
    BY <1>9, <1>10, <2>1, <2>2
  <2>4. TableInv'
    BY <2>1, <2>2 DEF RowsInv, TableInv
  <2> QED BY <1>2, <2>3, <2>4 DEF RowsInv
<1>8. ASSUME NEW p \in Pulls, LosePull(p) PROVE RowsInv'
  <2>1. pull' = [pull EXCEPT ![p] = NoPull] /\ UNCHANGED <<rows, passed, calls, list>>
    BY <1>8 DEF LosePull
  <2>2. Ids' = Ids /\ pull' \in Pullings
    BY <1>10, <2>1 DEF Ids
  <2>3. CheckInv'
    BY <1>9, <1>10, <2>1, <2>2
  <2>4. TableInv'
    BY <2>1, <2>2 DEF RowsInv, TableInv
  <2> QED BY <1>2, <2>3, <2>4 DEF RowsInv
<1>6. ASSUME NEW p \in Pulls, SaveLog(p) PROVE RowsInv'
  <2>1. /\ pull[p].st = "read" /\ SetStatus(pull[p].ids, "Proccessed")
        /\ \/ list' = [k \in Checkers |-> IF k \in pull[p].by THEN list[k] \cup pull[p].ids ELSE list[k]]
           \/ UNCHANGED list
        /\ pull' = [pull EXCEPT ![p] = NoPull]
        /\ UNCHANGED calls
    BY <1>6 DEF SaveLog
  <2>2. /\ rows' \in Seq(Row) /\ Ids' = Ids
        /\ \A i \in Ids : rows'[i].status = "Proccessed" \/ rows'[i].status = rows[i].status
    BY <1>3, <2>1, StatusSet
  <2>3. TableInv'
    BY <1>1, <2>2 DEF RowsInv, TableInv
  <2>4. pull[p].ids \subseteq Ids
    BY <1>10, <2>1, PullKinds DEF Got
  <2>5. list' \in [Checkers -> SUBSET Ids] /\ pull' \in Pullings
    BY <1>10, <2>1, <2>4
  <2>6. CheckInv'
    BY <1>9, <2>1, <2>2, <2>5
  <2> QED BY <1>2, <2>3, <2>6 DEF RowsInv
<1>7. ASSUME NEW c \in Checkers, NEW i \in DOMAIN rows, CheckedData(c, i) \/ DeleteData(c, i)
      PROVE  RowsInv'
  <2>1. /\ i \in Ids
        /\ list' = [list EXCEPT ![c] = @ \ {i}] /\ calls' \in {calls, calls \cup {<<"check", i>>}}
        /\ UNCHANGED <<rows, pull>> /\ Ids' = Ids
    BY <1>3, <1>7 DEF CheckedData, DeleteData, Ids
  <2>2. TableInv'
    BY <1>1, <2>1 DEF RowsInv, TableInv
  <2>3. /\ calls' \subseteq {"check", "publish", "delete"} \X Ids
        /\ \A k \in Ids : /\ <<"publish", k>> \in calls' => <<"publish", k>> \in calls
                          /\ <<"delete", k>> \in calls' => <<"delete", k>> \in calls
    BY <2>1 DEF RowsInv, CheckInv
  <2>4. CheckInv'
    <3>1. list' \in [Checkers -> SUBSET Ids]
      BY <1>10, <2>1
    <3>2. calls' \subseteq {"check", "publish", "delete"} \X Ids
      BY <2>3
    <3>3. \A k \in Ids : <<"publish", k>> \in calls' \/ <<"delete", k>> \in calls' => k \in passed'
      BY <1>1, <2>3 DEF RowsInv, CheckInv
    <3> QED BY <1>10, <2>1, <3>1, <3>2, <3>3 DEF CheckInv, Got, Asking, NoPull
  <2> QED BY <1>2, <2>2, <2>4 DEF RowsInv
<1> QED BY <1>4, <1>5, <1>6, <1>7, <1>8 DEF CheckerSteps

\* The server's steps for single rows: a row is passed before it is published.
LEMMA ServerRows ==
  ASSUME RowsInv, NEW i \in DOMAIN rows,
         PostChecked(i) \/ BasicPublish(i) \/ DeleteMsg(i) \/ LoseCall(i)
  PROVE  RowsInv'
<1>1. rows \in Seq(Row) /\ DOMAIN rows = Ids /\ i \in Ids /\ passed \subseteq Ids
  BY LenProperties DEF RowsInv, TableInv, Ids
<1>2. /\ UNCHANGED <<list, pull, shown, unacked, inbox>>
      /\ calls' \subseteq calls \cup {<<"publish", i>>}
      /\ <<"publish", i>> \in calls' => <<"publish", i>> \in calls \/ i \in passed'
  BY DEF PostChecked, BasicPublish, DeleteMsg, LoseCall, checking, walls, wire, Wire!Publish
<1>3. passed \subseteq passed' /\ passed' \subseteq passed \cup {i}
  BY DEF PostChecked, BasicPublish, DeleteMsg, LoseCall
<1>4. /\ rows' \in Seq(Row) /\ Ids' = Ids
      /\ \A k \in Ids : rows'[k].status = "Checked" => k \in passed'
  <2>1. CASE PostChecked(i)
    <3>1. SetStatus({i}, "Checked") /\ i \in passed' /\ passed \subseteq passed'
      BY <2>1 DEF PostChecked
    <3>2. /\ rows' \in Seq(Row) /\ Ids' = Ids
          /\ \A k \in Ids : k \notin {i} => rows'[k].status = rows[k].status
      BY <1>1, <3>1, StatusSet
    <3> QED BY <3>1, <3>2 DEF RowsInv, TableInv
  <2>2. CASE DeleteMsg(i)
    <3>1. SetStatus({i}, "Deleted") /\ passed' = passed
      BY <2>2 DEF DeleteMsg
    <3>2. /\ rows' \in Seq(Row) /\ Ids' = Ids
          /\ \A k \in Ids : rows'[k].status = "Deleted" \/ rows'[k].status = rows[k].status
      BY <1>1, <3>1, StatusSet
    <3> QED BY <3>1, <3>2 DEF RowsInv, TableInv
  <2>3. CASE BasicPublish(i) \/ LoseCall(i)
    <3>1. UNCHANGED <<rows, passed>>
      BY <2>3 DEF BasicPublish, LoseCall
    <3> QED BY <1>1, <3>1 DEF RowsInv, TableInv, Ids
  <2> QED BY <2>1, <2>2, <2>3
<1>5. TableInv'
  BY <1>1, <1>3, <1>4 DEF TableInv
<1>6. CheckInv'
  <2>1. calls' \subseteq {"check", "publish", "delete"} \X Ids
    BY <1>1, <1>2 DEF RowsInv, CheckInv
  <2>2. ASSUME NEW k \in Ids, <<"publish", k>> \in calls' \/ <<"delete", k>> \in calls'
        PROVE  k \in passed'
    <3>1. CASE <<"publish", k>> \in calls' /\ k # i
      BY <1>2, <1>3, <3>1 DEF RowsInv, CheckInv
    <3>2. CASE <<"publish", k>> \in calls' /\ k = i
      BY <1>2, <1>3, <3>2 DEF RowsInv, CheckInv
    <3>3. CASE <<"delete", k>> \in calls'
      BY <1>2, <1>3, <3>3 DEF RowsInv, CheckInv
    <3> QED BY <2>2, <3>1, <3>2, <3>3
  <2> QED BY <1>2, <1>4, <2>1, <2>2 DEF RowsInv, CheckInv, Got, Asking, NoPull
<1>7. MessagesInv'
  <2>1. /\ shown \in [Walls -> Seq(passed')] /\ queue \in [Walls -> Seq(passed')]
        /\ unacked \in [Walls -> Seq(passed')] /\ inbox \in [Walls -> Seq(passed')]
    BY <1>3, SeqOfMore DEF RowsInv, MessagesInv
  <2>2. CASE UNCHANGED queue
    BY <1>2, <2>1, <2>2 DEF MessagesInv
  <2>3. CASE <<"publish", i>> \in calls /\ Wire!Publish(rows[i].type, i)
    <3>1. rows[i].type \in Walls
      <4>1. rows[i] \in Row
        BY <1>1
      <4> QED BY <4>1 DEF Row
    <3>2. i \in passed'
      BY <1>1, <1>3, <2>3 DEF RowsInv, CheckInv
    <3>3. \A s \in Seq(passed') : Append(s, i) \in Seq(passed')
      BY <3>2
    <3>4. queue' \in [Walls -> Seq(passed')]
      BY <2>1, <2>3, <3>1, <3>3 DEF Wire!Publish
    <3> QED BY <1>2, <2>1, <3>4 DEF MessagesInv
  <2> QED BY <2>2, <2>3 DEF PostChecked, BasicPublish, DeleteMsg, LoseCall, wire
<1> QED BY <1>5, <1>6, <1>7 DEF RowsInv

-----------------------------------------------------------------------------
(* The walls.                                                              *)

\* The messages a wall has room for.
Places(w) == IF w = "txt" THEN TxtMax ELSE PicTake + 1

ListsInv ==
  /\ dataObjList = [w \in Walls |-> Len(shown[w])]
  /\ \A w \in Walls : Len(shown[w]) <= Places(w)

BannerInv ==
  /\ currentIndex \in Nat /\ direction \in {"toRight", "toLeft"}
  /\ CarouselCurrent

\* Wall w shows the messages s, and keeps count of them; a carousel goes on or begins anew.
Refilled(w, s) ==
  /\ s \in Seq(passed) /\ Len(s) <= Places(w)
  /\ shown' = [shown EXCEPT ![w] = s]
  /\ dataObjList' = [dataObjList EXCEPT ![w] = Len(s)]
  /\ IF w = "img"
     THEN /\ maxIndex' = Len(s) - 1
          /\ \/ UNCHANGED <<currentIndex, direction>>
             \/ currentIndex' = 0 /\ direction' = "toRight"
     ELSE UNCHANGED carousel

\* Whatever sets a wall's messages so keeps its lists and its carousel together.
LEMMA RefilledKeeps ==
  ASSUME MessagesInv, ListsInv, BannerInv, NEW w \in Walls, NEW s, Refilled(w, s)
  PROVE  shown' \in [Walls -> Seq(passed)] /\ ListsInv' /\ BannerInv'
<1>1. shown' \in [Walls -> Seq(passed)]
  BY DEF MessagesInv, Refilled
<1>2. ListsInv'
  <2>1. \A v \in Walls : shown'[v] = IF v = w THEN s ELSE shown[v]
    BY DEF MessagesInv, Refilled
  <2>2. dataObjList' = [v \in Walls |-> Len(shown'[v])]
    BY <2>1 DEF Refilled, ListsInv
  <2>3. \A v \in Walls : Len(shown'[v]) <= Places(v)
    BY <2>1 DEF Refilled, ListsInv
  <2> QED BY <2>2, <2>3 DEF ListsInv, Places
<1>3. BannerInv'
  <2>1. CASE w = "img"
    <3>1. shown'["img"] = s
      BY <2>1 DEF MessagesInv, Refilled
    <3> QED BY <2>1, <3>1 DEF Refilled, BannerInv, CarouselCurrent
  <2>2. CASE w # "img"
    <3>1. shown'["img"] = shown["img"] /\ UNCHANGED carousel
      BY <2>2 DEF MessagesInv, Refilled, Walls
    <3> QED BY <3>1 DEF BannerInv, CarouselCurrent, carousel
  <2> QED BY <2>1, <2>2
<1> QED BY <1>1, <1>2, <1>3

\* A page that is opened loads checked rows, as many as it has room for.
LEMMA OpenRefills ==
  ASSUME RowsInv, NEW w \in Walls, OpenWall(w)
  PROVE  \E s : Refilled(w, s)
<1> DEFINE n == IF w = "txt" THEN TxtMax ELSE PicTake
           checked == {i \in With("Checked") : rows[i].type = w}
           s == NewestFirst(Newest(n, checked))
<1>1. /\ n \in Nat /\ n <= Places(w)
  BY WallConstants DEF Places
<1>2. checked \in SUBSET Nat /\ IsFiniteSet(checked) /\ checked \subseteq passed
  <2>1. DOMAIN rows = Ids /\ Len(rows) \in Nat
    BY LenProperties DEF RowsInv, TableInv, Ids
  <2>2. 1 \in Int /\ Len(rows) \in Int
    BY <2>1
  <2>3. IsFiniteSet(Ids)
    BY <2>2, FS_Interval DEF Ids
  <2>4. checked \subseteq Ids /\ checked \subseteq passed
    BY <2>1 DEF With, RowsInv, TableInv
  <2> QED BY <2>3, <2>4, FS_Subset DEF Ids
<1>3. shown' = [shown EXCEPT ![w] = s] /\ dataObjList' = [dataObjList EXCEPT ![w] = Len(s)]
  BY DEF OpenWall, OnGet, Filled, Taken
<1>4. IF w = "img" THEN Banner!KaiBanner ELSE UNCHANGED carousel
  BY DEF OpenWall, OnGet, Filled
<1> HIDE DEF n, checked
<1>5. /\ Newest(n, checked) \subseteq checked /\ IsFiniteSet(Newest(n, checked))
      /\ Cardinality(Newest(n, checked)) <= n /\ Cardinality(Newest(n, checked)) \in Nat
  BY <1>1, <1>2, NewestBounded
<1>6. s \in Seq(Newest(n, checked)) /\ Len(s) = Cardinality(Newest(n, checked))
  BY <1>2, <1>5, NewestFirstTyped
<1> HIDE DEF s
<1>7. s \in Seq(passed) /\ Len(s) <= Places(w)
  <2>1. /\ Len(s) \in Nat /\ s \in [1 .. Len(s) -> Newest(n, checked)]
        /\ Newest(n, checked) \subseteq passed
    BY <1>2, <1>5, <1>6, LenProperties
  <2>2. s \in [1 .. Len(s) -> passed]
    BY <2>1
  <2>3. Places(w) \in Nat
    BY WallConstants DEF Places
  <2> QED BY <1>1, <1>5, <1>6, <2>1, <2>2, <2>3, SeqDef
<1>8. CASE w = "img"
  <2>1. shown'["img"] = s
    BY <1>3, <1>8 DEF RowsInv, MessagesInv
  <2> QED BY <1>3, <1>4, <1>7, <1>8, <2>1 DEF Refilled, Banner!KaiBanner, Banner!StartUp
<1>9. CASE w # "img"
  BY <1>3, <1>4, <1>7, <1>9 DEF Refilled
<1> QED BY <1>8, <1>9

\* A change of the displayed list and of dataObjList that keeps them equally long.
LEMMA ChangeRefills ==
  ASSUME MessagesInv, NEW w \in Walls, NEW s \in Seq(passed), Len(s) <= Places(w),
         Change(w, s, Len(s))
  PROVE  Refilled(w, s)
<1>1. shown' = [shown EXCEPT ![w] = s] /\ dataObjList' = [dataObjList EXCEPT ![w] = Len(s)]
  BY DEF Change
<1>2. IF w = "img" THEN Banner!Init ELSE UNCHANGED carousel
  BY DEF Change
<1>3. CASE w = "img"
  <2>1. shown'["img"] = s
    BY <1>1, <1>3 DEF MessagesInv
  <2> QED BY <1>1, <1>2, <1>3, <2>1 DEF Refilled, Banner!Init, Banner!StartUp
<1>4. CASE w # "img"
  BY <1>1, <1>2, <1>4 DEF Refilled
<1> QED BY <1>3, <1>4

\* A message that arrives: the test of equality catches the full list, because the list is
\* never longer and both lose a message then.
LEMMA ArrivalRefills ==
  ASSUME MessagesInv, ListsInv, NEW w \in Walls, OnMessage(w)
  PROVE  \E s : Refilled(w, s)
<1> DEFINE m == Head(inbox[w])
           old == shown[w]
<1>1. m \in passed
  <2>1. inbox[w] \in Seq(passed) /\ inbox[w] # <<>>
    BY DEF MessagesInv, OnMessage, Wire!Receive
  <2> QED BY <2>1, TailElements, ToSetType
<1>2. old \in Seq(passed) /\ Len(old) \in Nat /\ dataObjList[w] = Len(old) /\ Len(old) <= Places(w)
  BY LenProperties DEF MessagesInv, ListsInv
<1>3. old # <<>> => /\ Tail(old) \in Seq(passed) /\ Len(Tail(old)) = Len(old) - 1
                    /\ Front(old) \in Seq(passed) /\ Len(Front(old)) = Len(old) - 1
  BY <1>2, TailElements, FrontElements
<1>4. old = <<>> <=> Len(old) = 0
  BY <1>2, EmptySeq
<1>5. CASE w = "txt"
  <2>1. TxtArrives(m) /\ Places(w) = TxtMax /\ TxtMax \in Nat \ {0}
    BY <1>5, WallConstants DEF OnMessage, Places
  <2> DEFINE full == dataObjList["txt"] + 1 = TxtMax + 1
             kept == IF full /\ old # <<>> THEN Front(old) ELSE old
             s == <<m>> \o kept
             length == dataObjList["txt"] + (IF full THEN 0 ELSE 1)
  <2>2. Change("txt", s, length)
    BY <1>5, <2>1 DEF TxtArrives
  <2>3. kept \in Seq(passed) /\ Len(kept) \in Nat /\ length = Len(kept) + 1 /\ length <= TxtMax
    BY <1>2, <1>3, <1>4, <1>5, <2>1
  <2>4. s \in Seq(passed) /\ Len(s) = Len(kept) + 1
    <3> HIDE DEF kept, m
    <3>1. <<m>> \in Seq(passed) /\ Len(<<m>>) = 1
      BY <1>1
    <3>2. s \in Seq(passed) /\ Len(s) = Len(<<m>>) + Len(kept)
      BY <2>3, <3>1, ConcatProperties
    <3> QED BY <2>3, <3>1, <3>2
  <2> HIDE DEF full, kept, s, length
  <2> QED BY <1>5, <2>1, <2>2, <2>3, <2>4, ChangeRefills
<1>6. CASE w = "img"
  <2>1. PicArrives(m) /\ Places(w) = PicTake + 1 /\ PicTake \in Nat
    BY <1>6, WallConstants DEF OnMessage, Places
  <2> DEFINE full == dataObjList["img"] = PicTake + 1
             kept == IF full /\ old # <<>> THEN Tail(old) ELSE old
             s == Append(kept, m)
             length == dataObjList["img"] + (IF full THEN 0 ELSE 1)
  <2>2. Change("img", s, length)
    BY <1>6, <2>1 DEF PicArrives
  <2>3. kept \in Seq(passed) /\ Len(kept) \in Nat /\ length = Len(kept) + 1 /\ length <= PicTake + 1
    BY <1>2, <1>3, <1>4, <1>6, <2>1
  <2>4. s \in Seq(passed) /\ Len(s) = Len(kept) + 1
    <3> HIDE DEF kept, m
    <3> QED BY <1>1, <2>3, AppendProperties
  <2> HIDE DEF full, kept, s, length
  <2> QED BY <1>6, <2>1, <2>2, <2>3, <2>4, ChangeRefills
<1> QED BY <1>5, <1>6 DEF Walls

\* A deletion takes one message off both lists.
LEMMA DeleteRefills ==
  ASSUME MessagesInv, ListsInv, NEW w \in Walls, NEW k \in DOMAIN shown[w], Delete(w, k)
  PROVE  (\E s : Refilled(w, s)) /\ shown[w][k] \in passed
<1> DEFINE old == shown[w]
           s == RemoveAt(old, k)
           length == dataObjList[w] - (IF dataObjList[w] >= k THEN 1 ELSE 0)
<1>1. /\ old \in Seq(passed) /\ Len(old) \in Nat /\ k \in 1 .. Len(old)
      /\ dataObjList[w] = Len(old) /\ Len(old) <= Places(w)
  BY LenProperties DEF MessagesInv, ListsInv
<1>2. s \in Seq(passed) /\ Len(s) = Len(old) - 1
  BY <1>1, RemoveAtPlaces
<1>3. length = Len(old) - 1
  <2> HIDE DEF old
  <2>1. ASSUME NEW n \in Nat, k \in 1 .. n
        PROVE  n - (IF n >= k THEN 1 ELSE 0) = n - 1
    BY <2>1
  <2> QED BY <1>1, <2>1
<1>4. Change(w, s, length)
  BY DEF Delete, Removed
<1>5. Places(w) \in Nat
  BY WallConstants DEF Places
<1>6. old[k] \in passed
  BY <1>1
<1> HIDE DEF s, length
<1>7. Len(s) <= Places(w)
  BY <1>1, <1>2, <1>5
<1>8. Refilled(w, s)
  BY <1>2, <1>3, <1>4, <1>7, ChangeRefills
<1> QED BY <1>6, <1>8

\* The steps of a wall, its socket and the broker.
LEMMA WallRows ==
  ASSUME RowsInv, ListsInv, BannerInv, NEW w \in Walls,
         \/ Deliver(w) \/ Interrupted(w) \/ Recover(w)
         \/ OpenWall(w) \/ SocketOpens(w) \/ SocketCloses(w) \/ OnMessage(w)
         \/ \E k \in DOMAIN shown[w] : Delete(w, k)
  PROVE  RowsInv' /\ ListsInv' /\ BannerInv'
<1>1. /\ UNCHANGED <<rows, passed, list, pull>> /\ Ids' = Ids
      /\ UNCHANGED calls \/ \E k \in DOMAIN shown[w] : Delete(w, k)
  BY DEF Deliver, Interrupted, Recover, OpenWall, SocketOpens, SocketCloses, OnMessage, Delete, Removed,
         checking, Ids
<1>2. TableInv'
  BY <1>1 DEF RowsInv, TableInv
<1>3. CheckInv'
  <2>1. CASE UNCHANGED calls
    BY <1>1, <2>1 DEF RowsInv, CheckInv, Got, Asking, NoPull
  <2>2. ASSUME NEW k \in DOMAIN shown[w], Delete(w, k)
        PROVE  CheckInv'
    <3> DEFINE i == shown[w][k]
    <3>1. i \in passed /\ calls' = calls \cup {<<"delete", i>>}
      BY <2>2, DeleteRefills DEF RowsInv, Delete, Removed
    <3> HIDE DEF i
    <3>2. i \in Ids
      BY <3>1 DEF RowsInv, TableInv
    <3>3. calls' \subseteq {"check", "publish", "delete"} \X Ids
      BY <3>1, <3>2 DEF RowsInv, CheckInv
    <3>4. \A j \in Ids : <<"publish", j>> \in calls' \/ <<"delete", j>> \in calls' => j \in passed
      BY <3>1 DEF RowsInv, CheckInv
    <3> QED BY <1>1, <3>3, <3>4 DEF RowsInv, CheckInv, Got, Asking, NoPull
  <2> QED BY <1>1, <2>1, <2>2
<1>4. /\ queue \in [Walls -> Seq(passed)] /\ unacked \in [Walls -> Seq(passed)]
      /\ inbox \in [Walls -> Seq(passed)]
  BY DEF RowsInv, MessagesInv
<1>5. /\ queue' \in [Walls -> Seq(passed)] /\ unacked' \in [Walls -> Seq(passed)]
      /\ inbox' \in [Walls -> Seq(passed)]
  <2>1. CASE Deliver(w) \/ Interrupted(w) \/ Recover(w)
    <3>1. Wire!Deliver(w) \/ Wire!Interrupted(w) \/ Wire!Recover(w)
      BY <2>1 DEF Deliver, Interrupted, Recover
    <3> QED BY <1>4, <3>1, WireMoves
  <2>2. CASE OpenWall(w) \/ SocketOpens(w) \/ SocketCloses(w)
    <3>1. UNCHANGED <<queue, unacked>> /\ inbox' \in {inbox, [inbox EXCEPT ![w] = <<>>]}
      BY <2>2 DEF OpenWall, SocketOpens, SocketCloses, Wire!Connect, Wire!Opened, Wire!Closed
    <3>2. <<>> \in Seq(passed)
      OBVIOUS
    <3> QED BY <1>4, <3>1, <3>2
  <2>3. CASE OnMessage(w)
    <3>1. inbox[w] \in Seq(passed) /\ inbox[w] # <<>> /\ inbox' = [inbox EXCEPT ![w] = Tail(inbox[w])]
          /\ UNCHANGED <<queue, unacked>>
      BY <1>4, <2>3 DEF OnMessage, Wire!Receive
    <3>2. Tail(inbox[w]) \in Seq(passed)
      BY <3>1, TailElements
    <3> QED BY <1>4, <3>1, <3>2
  <2>4. CASE \E k \in DOMAIN shown[w] : Delete(w, k)
    BY <1>4, <2>4 DEF Delete, Removed, wire
  <2> QED BY <2>1, <2>2, <2>3, <2>4
<1>6. shown' \in [Walls -> Seq(passed)] /\ ListsInv' /\ BannerInv'
  <2>1. CASE \E s : Refilled(w, s)
    BY <2>1, RefilledKeeps DEF RowsInv
  <2>2. CASE UNCHANGED walls
    BY <2>2 DEF walls, carousel, RowsInv, MessagesInv, ListsInv, BannerInv, CarouselCurrent
  <2>3. CASE OpenWall(w) \/ OnMessage(w) \/ \E k \in DOMAIN shown[w] : Delete(w, k)
    BY <2>1, <2>3, OpenRefills, ArrivalRefills, DeleteRefills DEF RowsInv
  <2> QED BY <2>2, <2>3 DEF Deliver, Interrupted, Recover, SocketOpens, SocketCloses
<1>7. MessagesInv'
  BY <1>1, <1>5, <1>6 DEF MessagesInv
<1> QED BY <1>2, <1>3, <1>6, <1>7 DEF RowsInv

\* The carousel: it is turned to the left by a click right of the first picture only, and
\* turns back when it gets there.
LEMMA CarouselRows ==
  ASSUME RowsInv, ListsInv, BannerInv, CarouselTicks \/ \E i \in 0 .. PicTake + 1 : Click(i)
  PROVE  RowsInv' /\ ListsInv' /\ BannerInv'
<1>1. /\ UNCHANGED <<rows, passed, list, pull, calls, queue, unacked, inbox, shown, dataObjList>>
      /\ UNCHANGED maxIndex
  BY DEF CarouselTicks, Click, checking, wire, Banner!Tick, Banner!BottomBtnsClickHandle, Banner!Show
<1>2. RowsInv'
  BY <1>1 DEF RowsInv, TableInv, CheckInv, MessagesInv, Ids, Got, Asking, NoPull
<1>3. ListsInv'
  BY <1>1 DEF ListsInv
<1>4. ASSUME CarouselTicks PROVE BannerInv'
  <2>1. /\ currentIndex \in Nat /\ (direction = "toLeft" => currentIndex > 0)
        /\ maxIndex = Len(shown["img"]) - 1 /\ direction \in {"toRight", "toLeft"}
    BY DEF BannerInv, CarouselCurrent
  <2>2. CASE direction = "toRight"
    <3>1. /\ currentIndex' = IF currentIndex + 1 > maxIndex THEN 0 ELSE currentIndex + 1
          /\ direction' = "toRight"
      BY <1>4, <2>2 DEF CarouselTicks, Banner!Tick, Banner!Show
    <3>2. currentIndex' \in Nat
      BY <2>1, <3>1
    <3> QED BY <1>1, <2>1, <3>1, <3>2 DEF BannerInv, CarouselCurrent
  <2>3. CASE direction = "toLeft"
    <3>1. /\ currentIndex' = currentIndex - 1
          /\ direction' = IF currentIndex - 1 <= 0 THEN "toRight" ELSE "toLeft"
      BY <1>4, <2>3 DEF CarouselTicks, Banner!Tick, Banner!Show
    <3>2. currentIndex' \in Nat /\ (direction' = "toLeft" => currentIndex' > 0)
      BY <2>1, <2>3, <3>1
    <3> QED BY <1>1, <2>1, <3>1, <3>2 DEF BannerInv, CarouselCurrent
  <2> QED BY <2>1, <2>2, <2>3
<1>5. ASSUME NEW i \in 0 .. PicTake + 1, Click(i) PROVE BannerInv'
  <2>1. i \in Nat
    BY WallConstants
  <2>2. /\ currentIndex' = i
        /\ direction' = IF i = 0 THEN "toRight" ELSE IF i = maxIndex THEN "toLeft" ELSE direction
    BY <1>5 DEF Click, Banner!BottomBtnsClickHandle, Banner!Show
  <2> QED BY <1>1, <2>1, <2>2 DEF BannerInv, CarouselCurrent
<1> QED BY <1>2, <1>3, <1>4, <1>5

-----------------------------------------------------------------------------
(* The invariant, and what follows from it.                                *)

WallInv == RowsInv /\ ListsInv /\ BannerInv

\* In the beginning the walls are empty.
LEMMA WallInit == Init => WallInv
<1> SUFFICES ASSUME Init PROVE WallInv
  OBVIOUS
<1>1. \A w \in Walls : shown[w] = <<>> /\ Places(w) \in Nat
  BY WallConstants DEF Init, Places
<1>2. ListsInv
  <2>1. \A w \in Walls : Len(shown[w]) = 0 /\ Len(shown[w]) <= Places(w)
    BY <1>1
  <2> QED BY <2>1 DEF Init, ListsInv
<1>3. BannerInv
  BY <1>1 DEF Init, BannerInv, CarouselCurrent, Walls
<1> QED BY <1>2, <1>3, RowsInit DEF WallInv

\* Every step keeps the walls' invariant.
LEMMA WallStep == WallInv /\ [Next]_vars => WallInv'
<1> SUFFICES ASSUME WallInv, [Next]_vars PROVE WallInv'
  OBVIOUS
<1> USE DEF WallInv
<1>1. CASE Guest
  <2>1. UNCHANGED walls
    BY <1>1 DEF Guest
  <2> QED BY <1>1, <2>1, GuestRows DEF walls, carousel, ListsInv, BannerInv, CarouselCurrent
<1>2. CASE CarouselTicks \/ \E i \in 0 .. PicTake + 1 : Click(i)
  BY <1>2, CarouselRows
<1>3. CASE CheckerSteps
  <2>1. UNCHANGED walls
    BY <1>3 DEF CheckerSteps, OpenCheck, PullWxqLog, Asked, ReadLog, Read, SaveLog, LosePull, CheckedData,
                DeleteData
  <2>2. RowsInv'
    BY <1>3, CheckerRows
  <2> QED BY <2>1, <2>2 DEF walls, carousel, ListsInv, BannerInv, CarouselCurrent
<1>4. ASSUME NEW i \in DOMAIN rows, PostChecked(i) \/ BasicPublish(i) \/ DeleteMsg(i) \/ LoseCall(i)
      PROVE  WallInv'
  <2>1. UNCHANGED walls
    BY <1>4 DEF PostChecked, BasicPublish, DeleteMsg, LoseCall
  <2> QED BY <1>4, <2>1, ServerRows DEF walls, carousel, ListsInv, BannerInv, CarouselCurrent
<1>5. ASSUME NEW w \in Walls,
             \/ Deliver(w) \/ Interrupted(w) \/ Recover(w)
             \/ OpenWall(w) \/ SocketOpens(w) \/ SocketCloses(w) \/ OnMessage(w)
             \/ \E k \in DOMAIN shown[w] : Delete(w, k)
      PROVE  WallInv'
  BY <1>5, WallRows
<1>6. CASE UNCHANGED vars
  BY <1>6 DEF vars, checking, walls, carousel, wire, RowsInv, TableInv, CheckInv, MessagesInv, Ids,
              Got, Asking, NoPull, ListsInv, BannerInv, CarouselCurrent
<1> HIDE DEF WallInv
<1> QED BY <1>1, <1>2, <1>3, <1>4, <1>5, <1>6 DEF Next, CheckerSteps

\* The wall's invariant: rows, requests and messages are those of the table, what is on a wall
\* or on its way there has been passed, and each wall's two lists and its carousel agree.
THEOREM WallInvariant == Spec => []WallInv
BY WallInit, WallStep, PTL DEF Spec

\* The guest's invariant: his photo under way is the one he confirmed.
THEOREM GuestInvariant == Spec => []GuestInv
BY GuestInit, GuestStep, PTL DEF Spec

\* Every behaviour is well typed; currentIndex, which a tick lowers, stays a natural number.
THEOREM WallTyped == Spec => []TypeOK
<1>1. WallInv /\ GuestInv => TypeOK
  <2> SUFFICES ASSUME WallInv, GuestInv PROVE TypeOK
    OBVIOUS
  <2>1. DOMAIN rows = Ids /\ \A i \in Ids : rows[i] \in Row
    BY LenProperties DEF WallInv, RowsInv, TableInv, Ids
  <2>2. \A i \in Ids : /\ rows[i].type \in Walls
                       /\ rows[i].status \in {"Created", "Proccessed", "Checked", "Deleted"}
    BY <2>1 DEF Row
  <2>3. page.previewImgSrc \in Photos \cup {NoPhoto}
    BY DEF GuestInv, GuestTyped, MaybePhoto
  <2> QED BY <2>1, <2>2, <2>3 DEF WallInv, RowsInv, CheckInv, BannerInv, TypeOK
<1> QED BY <1>1, WallInvariant, GuestInvariant, PTL

\* Nothing gets on a wall, or on its way to one, that no checker has passed, whatever is
\* loaded, deleted, published, delivered and delivered again.
THEOREM NothingUnchecked == Spec => []OnlyPassed
<1>1. WallInv => OnlyPassed
  <2> SUFFICES ASSUME WallInv, NEW w \in Walls
               PROVE  ToSet(shown[w]) \cup ToSet(queue[w]) \cup ToSet(unacked[w]) \cup ToSet(inbox[w])
                        \subseteq passed
    BY DEF OnlyPassed
  <2>1. /\ shown[w] \in Seq(passed) /\ queue[w] \in Seq(passed)
        /\ unacked[w] \in Seq(passed) /\ inbox[w] \in Seq(passed)
    BY DEF WallInv, RowsInv, MessagesInv
  <2> QED BY <2>1, ToSetType
<1> QED BY <1>1, WallInvariant, PTL

\* The walls keep to their places, although the pages compare the length with one number only.
THEOREM WallsKeepBounds == Spec => []WallsBounded
<1>1. WallInv => WallsBounded
  BY WallConstants DEF WallInv, ListsInv, Places, Walls, WallsBounded
<1> QED BY <1>1, WallInvariant, PTL

\* The carousel counts the pictures there are and turns back before the left end.
THEOREM CarouselStaysCurrent == Spec => []CarouselCurrent
<1>1. WallInv => CarouselCurrent
  BY DEF WallInv, BannerInv
<1> QED BY <1>1, WallInvariant, PTL

-----------------------------------------------------------------------------
(* Action properties.                                                      *)

\* In WxqApp the photo whose upload begins is the one the guest has confirmed: only the
\* callback of the token begins one, and it finds that photo still previewed.
THEOREM ConfirmedIsSent == Spec => SentAsConfirmed
<1>1. ASSUME GuestInv, [Next]_vars
      PROVE  [program = "WxqApp" /\ upload = NoPhoto /\ upload' # NoPhoto => upload' = confirmed]_vars
  <2> SUFFICES ASSUME Next, program = "WxqApp", upload = NoPhoto, upload' # NoPhoto
               PROVE  upload' = confirmed
    BY <1>1
  <2>1. WxqAppGuest
    BY Phones DEF Guest, guest, phone
  <2>2. App!UploadImg
    BY <2>1 DEF WxqAppGuest, App!OnLaunch, App!GetUserInfo, App!TextInput, App!TakePhoto, App!Chosen,
                App!Cancel, App!SendImg, App!PostMsg, App!SendTxt, App!Uploaded, App!Lost, App!SetData
  <2> QED BY <1>1, <2>2 DEF App!UploadImg, GuestInv, PhotoInv
<1> QED BY <1>1, GuestInvariant, PTL DEF Spec, SentAsConfirmed

\* A row is "Created" before its first pull and never again, and no row of a pull that is alone,
\* and still to be saved, has been shown to a checker. If a pull is alone, there is no other.
Shown(i) ==
  \/ \E c \in Checkers : i \in list[c]
  \/ <<"check", i>> \in calls
  \/ i \in passed

Alone(p) == pull[p].st = "read" /\ pull[p].alone

FreshInv ==
  /\ \A i \in Ids : Shown(i) => rows[i].status # "Created"
  /\ \A p \in Pulls : Alone(p) => \A i \in pull[p].ids : rows[i].status = "Created"
  /\ \A p \in Pulls : Alone(p) => Reading = {p}

\* What the proofs about FreshInv use of WallInv.
LEMMA WallFacts ==
  ASSUME WallInv
  PROVE  /\ rows \in Seq(Row) /\ Len(rows) \in Nat /\ DOMAIN rows = Ids /\ passed \subseteq Ids
         /\ list \in [Checkers -> SUBSET Ids]
         /\ pull \in [Pulls -> {NoPull} \cup Asking \cup Got] /\ CheckInv
         /\ \A p \in Pulls : pull[p].st = "read" => pull[p].ids \subseteq Ids
         /\ \A i \in Ids : <<"delete", i>> \in calls => i \in passed
         /\ \A i : Shown(i) => i \in Ids
<1>1. CheckInv /\ passed \subseteq Ids /\ rows \in Seq(Row)
  BY DEF WallInv, RowsInv, TableInv
<1>2. Len(rows) \in Nat /\ DOMAIN rows = Ids
  BY <1>1, LenProperties DEF Ids
<1>3. \A p \in Pulls : pull[p].st = "read" => pull[p].ids \subseteq Ids
  BY <1>1, PullKinds DEF Got
<1>4. \A i : Shown(i) => i \in Ids
  <2>1. \A e \in {"check", "publish", "delete"} \X Ids : e[2] \in Ids
    OBVIOUS
  <2>2. \A i : <<"check", i>> \in calls => <<"check", i>>[2] \in Ids
    BY <1>1, <2>1 DEF CheckInv
  <2> QED BY <1>1, <2>2 DEF CheckInv, Shown
<1> QED BY <1>1, <1>2, <1>3, <1>4 DEF CheckInv

\* A step that shows no new row, changes no row and reads nothing keeps the invariant.
LEMMA FreshKept ==
  ASSUME WallInv, FreshInv, \A i \in Ids : rows'[i] = rows[i],
         \A i : Shown(i)' => Shown(i), \A q \in Pulls : StillRead(q)
  PROVE  FreshInv'
<1>1. \A i \in Ids' : Shown(i)' => rows'[i].status # "Created"
  BY WallFacts DEF FreshInv
<1>2. \A p \in Pulls : Alone(p)' => Alone(p) /\ pull'[p].ids = pull[p].ids
  BY DEF StillRead, Alone
<1>3. \A p \in Pulls : Alone(p)' => \A i \in pull'[p].ids : rows'[i].status = "Created"
  <2> SUFFICES ASSUME NEW p \in Pulls, Alone(p)', NEW i \in pull'[p].ids PROVE rows'[i].status = "Created"
    OBVIOUS
  <2>1. Alone(p) /\ i \in pull[p].ids
    BY <1>2
  <2>2. i \in Ids /\ rows[i].status = "Created"
    BY <2>1, WallFacts DEF FreshInv, Alone
  <2> QED BY <2>2
<1>4. ASSUME NEW p \in Pulls, Alone(p)' PROVE Reading' = {p}
  <2>1. Reading' \subseteq Reading
    BY DEF Reading, StillRead
  <2>2. Reading = {p}
    BY <1>2, <1>4 DEF FreshInv
  <2>3. p \in Reading'
    BY <1>4 DEF Alone, Reading
  <2> QED BY <2>1, <2>2, <2>3
<1> QED BY <1>1, <1>3, <1>4 DEF FreshInv

\* The steps that read, save, check and delete keep it, too.
LEMMA FreshStep == WallInv /\ FreshInv /\ [Next]_vars => FreshInv'
<1> SUFFICES ASSUME WallInv, FreshInv, [Next]_vars PROVE FreshInv'
  OBVIOUS
<1>1. /\ rows \in Seq(Row) /\ Len(rows) \in Nat /\ DOMAIN rows = Ids
      /\ list \in [Checkers -> SUBSET Ids]
      /\ pull \in [Pulls -> {NoPull} \cup Asking \cup Got] /\ CheckInv
      /\ \A p \in Pulls : pull[p].st = "read" => pull[p].ids \subseteq Ids
      /\ \A i \in Ids : <<"delete", i>> \in calls => i \in passed
      /\ \A i : Shown(i) => i \in Ids
  BY WallFacts
<1>2. ASSUME UNCHANGED pull PROVE \A q \in Pulls : StillRead(q)
  BY <1>2 DEF StillRead
<1>3. CASE Guest
  <2>1. \A i \in Ids : rows'[i] = rows[i]
    BY <1>1, <1>3, RowAdded
  <2>2. UNCHANGED <<passed, list, pull, calls>>
    BY <1>3 DEF Guest, checking
  <2>3. \A i : Shown(i)' => Shown(i)
    BY <2>2 DEF Shown
  <2> QED BY <1>2, <2>1, <2>2, <2>3, FreshKept
<1>4. ASSUME UNCHANGED <<rows, passed, list, pull>>, \A i : <<"check", i>> \in calls' => <<"check", i>> \in calls
      PROVE  FreshInv'
  <2>1. \A i : Shown(i)' => Shown(i)
    BY <1>4 DEF Shown
  <2> QED BY <1>2, <1>4, <2>1, FreshKept
<1>5. ASSUME NEW c \in Checkers, NEW p \in Pulls, OpenCheck(c, p) \/ PullWxqLog(c, p) PROVE FreshInv'
  <2>1. /\ list' = [list EXCEPT ![c] = {}] /\ UNCHANGED <<rows, passed, calls>>
        /\ \A q \in Pulls : StillRead(q)
    BY <1>1, <1>5, PullAsked
  <2>2. \A i : Shown(i)' => Shown(i)
    BY <1>1, <2>1 DEF Shown
  <2> QED BY <2>1, <2>2, FreshKept
<1>6. ASSUME NEW p \in Pulls, LosePull(p) PROVE FreshInv'
  <2>1. pull' = [pull EXCEPT ![p] = NoPull] /\ UNCHANGED <<rows, passed, calls, list>>
    BY <1>6 DEF LosePull
  <2>2. \A q \in Pulls : StillRead(q)
    BY <1>1, <2>1 DEF StillRead, NoPull
  <2>3. \A i : Shown(i)' => Shown(i)
    BY <2>1 DEF Shown
  <2> QED BY <2>1, <2>2, <2>3, FreshKept
<1>7. ASSUME NEW p \in Pulls, ReadLog(p) PROVE FreshInv'
  <2>1. /\ UNCHANGED <<rows, passed, calls, list>>
        /\ \A q \in Pulls \ {p} : pull'[q].st = "read" => ~pull'[q].alone /\ q \in Reading
        /\ pull'[p].ids \subseteq With("Created") /\ (pull'[p].alone => Reading = {})
    BY <1>1, <1>7, PullRead
  <2>2. \A i \in Ids : Shown(i) => rows[i].status # "Created"
    BY DEF FreshInv
  <2>3. \A i \in Ids' : Shown(i)' => rows'[i].status # "Created"
    BY <2>1, <2>2 DEF Shown, Ids
  <2>4. \A q \in Pulls : Alone(q)' => q = p /\ Reading = {}
    BY <2>1 DEF Alone
  <2>5. \A q \in Pulls : Alone(q)' => \A i \in pull'[q].ids : rows'[i].status = "Created"
    <3>1. \A i \in With("Created") : rows[i].status = "Created"
      BY DEF With
    <3> QED BY <2>1, <2>4, <3>1
  <2>6. ASSUME NEW q \in Pulls, Alone(q)' PROVE Reading' = {q}
    <3>1. q = p /\ Reading = {}
      BY <2>4, <2>6
    <3>2. \A k \in Pulls \ {p} : pull'[k].st # "read"
      BY <2>1, <3>1
    <3> QED BY <2>6, <3>1, <3>2 DEF Reading, Alone
  <2> QED BY <2>3, <2>5, <2>6 DEF FreshInv
<1>8. ASSUME NEW p \in Pulls, SaveLog(p) PROVE FreshInv'
  <2>1. /\ pull[p].st = "read" /\ SetStatus(pull[p].ids, "Proccessed")
        /\ \A c \in Checkers : list'[c] \subseteq list[c] \cup pull[p].ids
        /\ pull' = [pull EXCEPT ![p] = NoPull]
        /\ UNCHANGED <<passed, calls>>
    BY <1>1, <1>8 DEF SaveLog
  <2>2. /\ rows' \in Seq(Row) /\ Len(rows') = Len(rows) /\ Ids' = Ids
        /\ \A i \in Ids : /\ rows'[i].type = rows[i].type
                          /\ i \in pull[p].ids => rows'[i].status = "Proccessed"
                          /\ i \notin pull[p].ids => rows'[i].status = rows[i].status
    BY <1>1, <2>1, StatusSet
  <2>3. \A i : Shown(i)' => Shown(i) \/ i \in pull[p].ids
    BY <2>1 DEF Shown
  <2>4. ASSUME NEW i \in Ids, Shown(i)' PROVE rows'[i].status # "Created"
    <3>1. CASE i \in pull[p].ids
      BY <2>2, <3>1
    <3>2. CASE i \notin pull[p].ids
      BY <2>2, <2>3, <2>4, <3>2 DEF FreshInv
    <3> QED BY <3>1, <3>2
  <2>5. \A q \in Pulls : ~Alone(q)'
    <3> SUFFICES ASSUME NEW q \in Pulls, Alone(q)' PROVE FALSE
      OBVIOUS
    <3>1. q # p
      BY <1>1, <2>1 DEF Alone, NoPull
    <3>2. pull'[q] = pull[q]
      BY <1>1, <2>1, <3>1
    <3>3. Reading = {q}
      BY <3>2 DEF Alone, FreshInv
    <3>4. p \in Reading
      BY <2>1 DEF Reading
    <3> QED BY <3>1, <3>3, <3>4
  <2> QED BY <2>2, <2>4, <2>5 DEF FreshInv
<1>9. ASSUME NEW c \in Checkers, NEW i \in Ids, CheckedData(c, i) \/ DeleteData(c, i)
      PROVE  FreshInv'
  <2>1. /\ i \in list[c] /\ \A k \in Checkers : list'[k] \subseteq list[k]
        /\ \A k : <<"check", k>> \in calls' => <<"check", k>> \in calls \/ k = i
        /\ UNCHANGED <<rows, passed, pull>>
    BY <1>1, <1>9 DEF CheckedData, DeleteData
  <2>2. \A k : Shown(k)' => Shown(k)
    BY <2>1 DEF Shown
  <2> QED BY <1>2, <2>1, <2>2, FreshKept
<1>10. ASSUME NEW i \in Ids, PostChecked(i) \/ DeleteMsg(i)
       PROVE  FreshInv'
  <2>1. /\ UNCHANGED <<list, pull>> /\ passed' \subseteq passed \cup {i}
        /\ \A k : <<"check", k>> \in calls' => <<"check", k>> \in calls
        /\ <<"check", i>> \in calls \/ <<"delete", i>> \in calls
    BY <1>10 DEF PostChecked, DeleteMsg, checking
  <2>2. PICK status \in {"Checked", "Deleted"} : SetStatus({i}, status)
    BY <1>10 DEF PostChecked, DeleteMsg
  <2>3. /\ rows' \in Seq(Row) /\ Len(rows') = Len(rows) /\ Ids' = Ids
        /\ \A k \in Ids : /\ rows'[k].type = rows[k].type
                          /\ k \in {i} => rows'[k].status = status
                          /\ k \notin {i} => rows'[k].status = rows[k].status
    BY <1>1, <2>2, StatusSet
  <2>4. Shown(i) /\ \A k : Shown(k)' => Shown(k)
    <3>1. Shown(i)
      BY <1>1, <2>1 DEF Shown
    <3> QED BY <2>1, <3>1 DEF Shown
  <2>5. ASSUME NEW k \in Ids, Shown(k)' PROVE rows'[k].status # "Created"
    <3>1. CASE k = i
      BY <2>2, <2>3, <3>1
    <3>2. CASE k # i
      BY <2>3, <2>4, <2>5, <3>2 DEF FreshInv
    <3> QED BY <3>1, <3>2
  <2>6. ASSUME NEW p \in Pulls, Alone(p)', NEW k \in pull'[p].ids PROVE rows'[k].status = "Created"
    <3>1. Alone(p) /\ k \in pull[p].ids /\ k \in Ids
      BY <1>1, <2>1, <2>6 DEF Alone
    <3>2. rows[k].status = "Created" /\ k # i
      BY <2>4, <3>1 DEF FreshInv
    <3> QED BY <2>3, <3>1, <3>2
  <2>7. \A p \in Pulls : Alone(p)' => Reading' = {p}
    BY <2>1 DEF FreshInv, Alone, Reading
  <2> QED BY <2>3, <2>5, <2>6, <2>7 DEF FreshInv
<1> DEFINE Moves ==
             \/ Guest
             \/ \E c \in Checkers, p \in Pulls : OpenCheck(c, p) \/ PullWxqLog(c, p)
             \/ \E p \in Pulls : ReadLog(p) \/ SaveLog(p) \/ LosePull(p)
             \/ \E c \in Checkers, i \in Ids : CheckedData(c, i) \/ DeleteData(c, i)
             \/ \E i \in Ids : PostChecked(i) \/ DeleteMsg(i)
           Others ==
             \/ \E i \in Ids : BasicPublish(i) \/ LoseCall(i)
             \/ CarouselTicks \/ \E i \in 0 .. PicTake + 1 : Click(i)
             \/ \E w \in Walls : Deliver(w) \/ Interrupted(w) \/ Recover(w)
             \/ \E w \in Walls : OpenWall(w) \/ SocketOpens(w) \/ SocketCloses(w) \/ OnMessage(w)
             \/ \E w \in Walls : \E k \in DOMAIN shown[w] : Delete(w, k)
             \/ UNCHANGED vars
<1>11. CASE Moves
  BY <1>3, <1>5, <1>6, <1>7, <1>8, <1>9, <1>10, <1>11
<1>12. CASE Others
  <2>1. UNCHANGED <<rows, passed, list, pull>>
    BY <1>12 DEF BasicPublish, LoseCall, CarouselTicks, Click, Deliver, Interrupted, Recover, OpenWall,
                 SocketOpens, SocketCloses, OnMessage, Delete, Removed, vars, checking
  <2>2. \/ calls' \subseteq calls
        \/ \E j : calls' = calls \cup {<<"delete", j>>}
    BY <1>12 DEF BasicPublish, LoseCall, CarouselTicks, Click, Deliver, Interrupted, Recover, OpenWall,
                 SocketOpens, SocketCloses, OnMessage, Delete, Removed, vars
  <2>3. \A i, j : <<"check", i>> # <<"delete", j>>
    OBVIOUS
  <2>4. \A i : <<"check", i>> \in calls' => <<"check", i>> \in calls
    BY <2>2, <2>3
  <2> QED BY <1>4, <2>1, <2>4
<1>13. Moves \/ Others
  BY <1>1 DEF Next
<1> QED BY <1>11, <1>12, <1>13

\* In the beginning there is no row and no pull.
LEMMA FreshInit == Init => FreshInv
<1> SUFFICES ASSUME Init PROVE FreshInv
  OBVIOUS
<1>1. Ids = {} /\ \A p \in Pulls : ~Alone(p)
  BY DEF Init, Ids, Alone, NoPull
<1> QED BY <1>1 DEF FreshInv

\* However many check pages there are, and whichever of their pulls overlap: what a checker has
\* passed stays passed until it is deleted, or until a pull that overlapped with another saves
\* it as "Proccessed". The rows of a pull that is alone are still those nobody has seen.
THEOREM PassedNeverTakenBack == Spec => PassedStays
<1> DEFINE Stays ==
      \A i \in DOMAIN rows :
        rows[i].status = "Checked" /\ rows'[i].status \notin {"Checked", "Deleted"} =>
          \E p \in Reading : i \in pull[p].ids /\ ~pull[p].alone
<1>1. ASSUME WallInv, FreshInv, [Next]_vars PROVE [Stays]_vars
  <2> SUFFICES ASSUME Next, NEW i \in DOMAIN rows, rows[i].status = "Checked",
                      rows'[i].status \notin {"Checked", "Deleted"}
               PROVE  \E p \in Reading : i \in pull[p].ids /\ ~pull[p].alone
    BY <1>1
  <2>1. rows \in Seq(Row) /\ DOMAIN rows = Ids /\ i \in Ids
    BY <1>1, WallFacts
  <2>2. CASE UNCHANGED rows
    BY <2>2
  <2>3. CASE Guest
    <3>1. rows'[i] = rows[i]
      BY <2>1, <2>3, RowAdded
    <3> QED BY <3>1
  <2>4. ASSUME NEW p \in Pulls, SaveLog(p)
        PROVE  \E q \in Reading : i \in pull[q].ids /\ ~pull[q].alone
    <3>1. p \in Reading /\ SetStatus(pull[p].ids, "Proccessed") /\ pull[p].ids \subseteq Ids
      BY <1>1, <2>4, WallFacts DEF SaveLog, Reading
    <3>2. i \notin pull[p].ids => rows'[i].status = rows[i].status
      BY <2>1, <3>1, StatusSet
    <3>3. i \in pull[p].ids
      BY <3>2
    <3>4. ~pull[p].alone
      BY <1>1, <3>1, <3>3 DEF FreshInv, Alone, Reading
    <3> QED BY <3>1, <3>3, <3>4
  <2>5. ASSUME NEW k \in DOMAIN rows, NEW status \in {"Checked", "Deleted"}, SetStatus({k}, status)
        PROVE  FALSE
    <3>1. i \in {k} => rows'[i].status = status
      BY <2>1, <2>5, StatusSet
    <3>2. i \notin {k} => rows'[i].status = rows[i].status
      BY <2>1, <2>5, StatusSet
    <3> QED BY <3>1, <3>2
  <2>6. \/ UNCHANGED rows \/ Guest \/ \E p \in Pulls : SaveLog(p)
        \/ \E k \in DOMAIN rows : SetStatus({k}, "Checked") \/ SetStatus({k}, "Deleted")
    BY DEF Next, CarouselTicks, Click, OpenCheck, PullWxqLog, Asked, ReadLog, Read, LosePull,
           CheckedData, DeleteData, PostChecked, BasicPublish, DeleteMsg, LoseCall, Deliver,
           Interrupted, Recover, OpenWall, SocketOpens, SocketCloses, OnMessage, Delete, Removed
  <2> QED BY <2>2, <2>3, <2>4, <2>5, <2>6
<1>2. Init => FreshInv
  BY FreshInit
<1>3. WallInv /\ FreshInv /\ [Next]_vars => FreshInv'
  BY FreshStep
<1>4. Spec => [][Stays]_vars
  BY <1>1, <1>2, <1>3, WallInvariant, PTL DEF Spec
<1> QED BY <1>4 DEF PassedStays

=============================================================================
