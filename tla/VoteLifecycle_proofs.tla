------------------------ MODULE VoteLifecycle_proofs ------------------------
(***************************************************************************)
(* Proofs about VoteLifecycle, for any administrators (infinitely many     *)
(* too) and any bounds on the votes and the posted rows.                   *)
(***************************************************************************)
EXTENDS VoteLifecycle, SequenceLemmas

-----------------------------------------------------------------------------
(* Types. TypeOK needs to know of the pending rows that they are a         *)
(* sequence.                                                               *)

Ops == {"none", "create", "update", "open", "delete", "reopen", "start", "end", "reset"}
PCs == {"idle", "others", "rows", "reopen", "save", "saveThenReopen"}
Requests == [op : Ops, id : {0} \cup VoteIds, pc : PCs,
             changes : SUBSET Change, rows : SUBSET DOMAIN posts, touches : SUBSET VoteIds]
Meanwhiles == [saved : SUBSET {"start", "end"}, written : SUBSET DOMAIN posts]

TypeInv == TypeOK /\ pending \in Seq(Nat)

\* What TypeOK says, in the form the proofs below use.
LEMMA Types ==
  ASSUME TypeInv
  PROVE  /\ nextId \in 1 .. MaxVotes + 1 /\ nextId \in Nat
         /\ request \in [Admins -> Requests]
         /\ \A a \in Admins : request[a] \in Requests /\ request[a].id < nextId
         /\ \A v \in DOMAIN votes : v \in VoteIds /\ v < nextId /\ v \in Nat /\ votes[v] \in [Columns -> BOOLEAN]
         /\ posts \in Seq(VoteIds) /\ Len(posts) \in Nat /\ DOMAIN posts = 1 .. Len(posts)
         /\ pending \in Seq(Nat) /\ Len(pending) \in Nat
         /\ ToSet(pending) \subseteq DOMAIN posts /\ log \subseteq DOMAIN posts
         /\ meanwhile \in [Admins -> Meanwhiles]
<1>1. MaxVotes \in Nat /\ nextId \in 1 .. MaxVotes + 1 /\ nextId \in Nat
  BY ConstantsOK DEF TypeInv, TypeOK
<1>2. \A v \in DOMAIN votes : v \in VoteIds /\ v < nextId /\ v \in Nat
  BY <1>1 DEF TypeInv, TypeOK, VoteIds
<1>3. posts \in Seq(VoteIds) /\ pending \in Seq(Nat)
  BY DEF TypeInv, TypeOK
<1>4. request \in [Admins -> Requests]
  BY DEF TypeInv, TypeOK, Requests, Ops, PCs
<1>5. meanwhile \in [Admins -> Meanwhiles]
  BY DEF TypeInv, TypeOK, Meanwhiles
<1> QED BY <1>1, <1>2, <1>3, <1>4, <1>5, LenProperties DEF TypeInv, TypeOK

\* The changes a request collects are changes of votes there are.
LEMMA ChangesTyped ==
  ASSUME TypeInv
  PROVE  /\ \A v \in VoteIds, column \in Columns, value \in BOOLEAN : Set(v, column, value) \in Change
         /\ \A v, assigned : assigned \subseteq Change => Changes(v, assigned) \subseteq Change
         /\ \A changes : changes \subseteq Change => CloseOpenVotes(changes) \subseteq Change
<1>1. \A v \in VoteIds, column \in Columns, value \in BOOLEAN : Set(v, column, value) \in Change
  BY DEF Set, Change
<1>2. \A v \in OpenVotes : Set(v, "open", FALSE) \in Change
  BY <1>1, Types DEF OpenVotes, Columns
<1> QED BY <1>1, <1>2 DEF Changes, CloseOpenVotes

\* An administrator who is idle has a request of its type.
LEMMA NoRequestTyped == NoRequest \in Requests
BY DEF NoRequest, Requests, Ops, PCs

\* Nothing is what a reset that begins has noticed.
LEMMA NothingTyped == Nothing \in Meanwhiles
BY DEF Nothing, Meanwhiles

\* What Begin adds to the requests.
LEMMA BeginTyped ==
  ASSUME TypeInv, overlapped \in BOOLEAN, NEW a \in Admins, NEW r \in Requests, r.id < nextId, Begin(a, r)
  PROVE  TypeInv'
<1>1. request' \in [Admins -> Requests] /\ \A b \in Admins : request'[b].id < nextId
  BY Types DEF Begin
<1> QED BY <1>1 DEF Begin, voteVars, postVars, TypeInv, TypeOK, Requests, Ops, PCs

\* A step that changes one request and no table.
LEMMA RequestTyped ==
  ASSUME TypeInv, NEW a \in Admins, NEW r \in Requests, r.id < nextId,
         request' = [request EXCEPT ![a] = r], UNCHANGED <<voteVars, postVars, overlapped>>,
         meanwhile' \in [Admins -> Meanwhiles]
  PROVE  TypeInv'
<1>1. request' \in [Admins -> Requests] /\ \A b \in Admins : request'[b].id < nextId
  BY Types
<1> QED BY <1>1 DEF voteVars, postVars, TypeInv, TypeOK, Requests, Ops, PCs, Meanwhiles

\* The columns of vote v after a transaction that does not create it.
Row(r, v) == [column \in Columns |->
                IF Set(v, column, TRUE) \in r.changes THEN TRUE
                ELSE IF Set(v, column, FALSE) \in r.changes THEN FALSE
                ELSE votes[v][column]]
NewRow == [column \in Columns |-> column = "open"]

\* The rows after a transaction.
LEMMA SavedRows ==
  ASSUME NEW r
  PROVE  /\ \A v : v \in DOMAIN Saved(r) <=> \/ v \in DOMAIN votes /\ ~(r.op = "delete" /\ v = r.id)
                                             \/ r.op = "create" /\ v = nextId
         /\ \A v \in DOMAIN Saved(r) : r.op = "create" /\ v = nextId => Saved(r)[v] = NewRow
         /\ \A v \in DOMAIN Saved(r) : ~(r.op = "create" /\ v = nextId) => Saved(r)[v] = Row(r, v)
<1> DEFINE new == IF r.op = "create" THEN {nextId} ELSE {}
           kept == IF r.op = "delete" THEN DOMAIN votes \ {r.id} ELSE DOMAIN votes
<1>1. Saved(r) = [v \in kept \cup new |-> IF v \in new THEN NewRow ELSE Row(r, v)]
  BY DEF Saved, Row, NewRow
<1>2. \A v : v \in new <=> r.op = "create" /\ v = nextId
  OBVIOUS
<1>3. \A v : v \in kept <=> v \in DOMAIN votes /\ ~(r.op = "delete" /\ v = r.id)
  OBVIOUS
<1> HIDE DEF new, kept
<1> QED BY <1>1, <1>2, <1>3

\* A row as a save leaves it has the columns.
LEMMA RowTyped ==
  ASSUME NEW r, NEW v, votes[v] \in [Columns -> BOOLEAN]
  PROVE  Row(r, v) \in [Columns -> BOOLEAN]
BY DEF Row

\* A transaction leaves a table of votes.
LEMMA SavedTyped ==
  ASSUME TypeInv, NEW a \in Admins, SaveChanges(a)
  PROVE  /\ nextId' \in 1 .. MaxVotes + 1 /\ nextId' >= nextId
         /\ DOMAIN votes' \subseteq 1 .. nextId' - 1
         /\ \A v \in DOMAIN votes' : votes'[v] \in [Columns -> BOOLEAN]
<1> DEFINE r == request[a]
<1>1. /\ votes' = Saved(r) /\ MaxVotes \in Nat
      /\ nextId' = IF r.op = "create" THEN nextId + 1 ELSE nextId
      /\ r.op = "create" => nextId <= MaxVotes
  BY ConstantsOK DEF SaveChanges
<1>2. nextId' \in 1 .. MaxVotes + 1 /\ nextId' >= nextId
  BY <1>1, Types
<1>3. \A v \in DOMAIN Saved(r) : /\ Saved(r)[v] \in [Columns -> BOOLEAN]
                                 /\ v \in DOMAIN votes \/ (v = nextId /\ r.op = "create")
  <2> SUFFICES ASSUME NEW v \in DOMAIN Saved(r)
               PROVE  /\ Saved(r)[v] \in [Columns -> BOOLEAN]
                      /\ v \in DOMAIN votes \/ (v = nextId /\ r.op = "create")
    OBVIOUS
  <2>1. /\ v \in DOMAIN votes \/ (v = nextId /\ r.op = "create")
        /\ Saved(r)[v] = NewRow \/ (v \in DOMAIN votes /\ Saved(r)[v] = Row(r, v))
    BY SavedRows
  <2>2. NewRow \in [Columns -> BOOLEAN]
    BY Zenon DEF NewRow
  <2>3. v \in DOMAIN votes => Row(r, v) \in [Columns -> BOOLEAN]
    BY RowTyped, Types
  <2> QED BY <2>1, <2>2, <2>3
<1>4. DOMAIN Saved(r) \subseteq 1 .. nextId' - 1
  <2>1. \A v \in DOMAIN votes : v \in Nat /\ 1 <= v /\ v < nextId
    BY Types DEF VoteIds
  <2>2. nextId \in Nat /\ 1 <= nextId /\ (r.op = "create" => nextId' = nextId + 1) /\ nextId' \in Nat
    BY <1>1, <1>2, Types
  <2> QED BY <1>2, <1>3, <2>1, <2>2
<1> QED BY <1>1, <1>2, <1>3, <1>4

\* A flush takes the n oldest of the pending rows.
LEMMA FlushedRows ==
  ASSUME TypeInv, NEW n \in 1 .. Len(pending), Flush(n)
  PROVE  /\ pending' \in Seq(Nat) /\ Len(pending') = Len(pending) - n
         /\ \A i \in 1 .. Len(pending) - n : pending'[i] = pending[n + i]
         /\ ToSet(pending') \subseteq ToSet(pending)
         /\ log' = log \cup {pending[i] : i \in 1 .. n}
         /\ log' \subseteq log \cup ToSet(pending)
<1> DEFINE m == Len(pending)
<1>1. pending \in Seq(Nat) /\ m \in Nat
  BY Types
<1>2. pending' = SubSeq(pending, n + 1, m) /\ log' = log \cup {pending[i] : i \in 1 .. n}
  BY DEF Flush
<1>3. \A i \in n + 1 .. m : pending[i] \in Nat
  BY <1>1, LenProperties
<1>4. /\ pending' \in Seq(Nat)
      /\ Len(pending') = IF n + 1 <= m THEN m - (n + 1) + 1 ELSE 0
      /\ \A i \in 1 .. m - (n + 1) + 1 : pending'[i] = pending[n + 1 + i - 1]
  BY <1>1, <1>2, <1>3, SubSeqProperties
<1>5. Len(pending') = m - n
  <2>1. ASSUME NEW k \in Nat, NEW j \in 1 .. k
        PROVE  (IF j + 1 <= k THEN k - (j + 1) + 1 ELSE 0) = k - j
    OBVIOUS
  <2> QED BY <1>1, <1>4, <2>1
<1>6. \A i \in 1 .. m - n : i \in 1 .. m - (n + 1) + 1 /\ n + 1 + i - 1 = n + i /\ n + i \in 1 .. m
  BY <1>1
<1>7. \A x : x \in ToSet(pending) <=> \E i \in 1 .. m : pending[i] = x
  BY <1>1, ToSetPlace
<1>8. \A x : x \in ToSet(pending') <=> \E i \in 1 .. m - n : pending'[i] = x
  BY <1>4, <1>5, ToSetPlace
<1>9. 1 .. n \subseteq 1 .. m
  BY <1>1
<1>10. \A i \in 1 .. m - n : pending'[i] = pending[n + i]
  BY <1>4, <1>6
<1>11. ToSet(pending') \subseteq ToSet(pending)
  BY <1>6, <1>7, <1>8, <1>10
<1>12. log' \subseteq log \cup ToSet(pending)
  BY <1>2, <1>7, <1>9
<1> QED BY <1>2, <1>4, <1>5, <1>10, <1>11, <1>12

\* The tables are empty in the beginning.
LEMMA TypeInit == Init => TypeInv
<1> SUFFICES ASSUME Init PROVE TypeInv
  OBVIOUS
<1>1. DOMAIN votes = {} /\ nextId = 1 /\ 1 \in 1 .. MaxVotes + 1
  BY ConstantsOK DEF Init
<1>2. request = [a \in Admins |-> NoRequest] /\ NoRequest.id < nextId
  BY <1>1 DEF Init, NoRequest
<1>3. request \in [Admins -> Requests]
  BY <1>2, NoRequestTyped
<1>4. log = {} /\ overlapped \in BOOLEAN /\ meanwhile \in [Admins -> Meanwhiles]
  BY NothingTyped DEF Init
<1>5. ToSet(pending) = {}
  BY ToSetEmpty, Zenon DEF Init
<1>6. posts \in Seq(VoteIds) /\ pending \in Seq(Nat)
  BY EmptySeq DEF Init
<1> QED BY <1>1, <1>2, <1>3, <1>4, <1>5, <1>6 DEF TypeInv, TypeOK, Requests, Ops, PCs, Meanwhiles

\* Every step keeps the types.
LEMMA TypeNext == TypeInv /\ [Next]_vars => TypeInv'
<1> SUFFICES ASSUME TypeInv, [Next]_vars PROVE TypeInv'
  OBVIOUS
<1>1. overlapped \in BOOLEAN
  BY DEF TypeInv, TypeOK
<1>2. CASE UNCHANGED vars
  BY <1>2 DEF vars, voteVars, postVars, historyVars, TypeInv, TypeOK
<1>3. ASSUME NEW a \in Admins, CreateVotingPost(a) PROVE TypeInv'
  <2> DEFINE r == [NoRequest EXCEPT !.op = "create", !.pc = "save", !.changes = CloseOpenVotes({})]
  <2>1. CloseOpenVotes({}) \subseteq Change
    BY ChangesTyped
  <2>2. r.id < nextId
    BY Types DEF NoRequest
  <2>3. r \in Requests
    BY <2>1 DEF NoRequest, Requests, Ops, PCs
  <2> QED BY <1>1, <1>3, <2>2, <2>3, BeginTyped DEF CreateVotingPost
<1>4. ASSUME NEW a \in Admins, NEW v \in VoteIds, UpdateVotingPost(a, v) PROVE TypeInv'
  <2>1. PICK t \in {{}, {v}} :
          Begin(a, [NoRequest EXCEPT !.op = "update", !.id = v, !.pc = "others", !.touches = t,
                                     !.changes = Changes(v, {Set(v, "open", TRUE)})])
    BY <1>4 DEF UpdateVotingPost
  <2> DEFINE r == [NoRequest EXCEPT !.op = "update", !.id = v, !.pc = "others", !.touches = t,
                                    !.changes = Changes(v, {Set(v, "open", TRUE)})]
  <2>2. Changes(v, {Set(v, "open", TRUE)}) \subseteq Change
    BY ChangesTyped DEF Columns
  <2>3. v < nextId /\ t \subseteq VoteIds
    BY <1>4, Types DEF UpdateVotingPost, Exists
  <2>4. \A c \in SUBSET Change, w \in SUBSET VoteIds :
          [NoRequest EXCEPT !.op = "update", !.id = v, !.pc = "others", !.touches = w, !.changes = c] \in Requests
    BY DEF NoRequest, Requests, Ops, PCs
  <2>5. r.id = v
    BY DEF NoRequest
  <2>6. r \in Requests
    BY <2>2, <2>3, <2>4, Zenon
  <2> QED BY <1>1, <2>1, <2>3, <2>5, <2>6, BeginTyped
<1>5. ASSUME NEW a \in Admins, NEW v \in VoteIds, OpenVote(a, v) PROVE TypeInv'
  <2> DEFINE r == [NoRequest EXCEPT !.op = "open", !.id = v, !.pc = "others",
                                    !.changes = Changes(v, {Set(v, "open", TRUE)})]
  <2>1. Changes(v, {Set(v, "open", TRUE)}) \subseteq Change
    BY ChangesTyped DEF Columns
  <2>2. r \in Requests /\ r.id < nextId
    BY <1>5, <2>1, Types DEF OpenVote, Exists, NoRequest, Requests, Ops, PCs
  <2> QED BY <1>1, <1>5, <2>2, BeginTyped DEF OpenVote
<1>6. ASSUME NEW a \in Admins, NEW v \in VoteIds, DelVote(a, v) PROVE TypeInv'
  <2> DEFINE r == [NoRequest EXCEPT !.op = "delete", !.id = v, !.touches = {v},
                                    !.pc = IF votes[v].open THEN "saveThenReopen" ELSE "save"]
  <2>1. (IF votes[v].open THEN "saveThenReopen" ELSE "save") \in PCs
    BY DEF PCs
  <2>2. \A pc \in PCs : LET q == [NoRequest EXCEPT !.op = "delete", !.id = v, !.touches = {v}, !.pc = pc]
                        IN q \in Requests /\ q.id = v
    BY NoRequestTyped DEF NoRequest, Requests, Ops
  <2>3. v < nextId
    BY <1>6, Types DEF DelVote, Exists
  <2>4. r \in Requests /\ r.id < nextId
    BY <2>1, <2>2, <2>3, Zenon
  <2> QED BY <1>1, <1>6, <2>4, BeginTyped DEF DelVote
<1>7. ASSUME NEW a \in Admins, NEW v \in VoteIds, StartVote(a, v) PROVE TypeInv'
  <2> DEFINE r == [NoRequest EXCEPT !.op = "start", !.id = v, !.pc = "save",
                                    !.changes = Changes(v, {Set(v, "enabled", TRUE)})]
  <2>1. Changes(v, {Set(v, "enabled", TRUE)}) \subseteq Change
    BY ChangesTyped DEF Columns
  <2>2. r \in Requests /\ r.id < nextId
    BY <1>7, <2>1, Types DEF StartVote, Exists, NoRequest, Requests, Ops, PCs
  <2> QED BY <1>1, <1>7, <2>2, BeginTyped DEF StartVote
<1>8. ASSUME NEW a \in Admins, NEW v \in VoteIds, EndVote(a, v) PROVE TypeInv'
  <2> DEFINE assigned == {Set(v, "enabled", FALSE), Set(v, "expired", TRUE)}
             r == [NoRequest EXCEPT !.op = "end", !.id = v, !.pc = "save", !.changes = Changes(v, assigned)]
  <2>1. Changes(v, assigned) \subseteq Change
    BY ChangesTyped DEF Columns
  <2>2. r \in Requests /\ r.id < nextId
    BY <1>8, <2>1, Types DEF EndVote, Exists, NoRequest, Requests, Ops, PCs
  <2> QED BY <1>1, <1>8, <2>2, BeginTyped DEF EndVote
<1>9. ASSUME NEW a \in Admins, NEW v \in VoteIds, ResetVote(a, v) PROVE TypeInv'
  <2> DEFINE assigned == {Set(v, "enabled", FALSE), Set(v, "expired", FALSE)}
             r == [NoRequest EXCEPT !.op = "reset", !.id = v, !.pc = "rows", !.touches = {v},
                                    !.changes = Changes(v, assigned)]
  <2>1. Changes(v, assigned) \subseteq Change
    BY ChangesTyped DEF Columns
  <2>2. r \in Requests /\ r.id < nextId
    BY <1>9, <2>1, Types DEF ResetVote, Exists, NoRequest, Requests, Ops, PCs
  <2> QED BY <1>1, <1>9, <2>2, BeginTyped DEF ResetVote
<1>10. ASSUME NEW a \in Admins, CloseOthers(a) PROVE TypeInv'
  <2> DEFINE r == [request[a] EXCEPT !.pc = "save", !.changes = CloseOpenVotes(@)]
  <2>1. r \in Requests /\ r.id < nextId
    BY Types, ChangesTyped DEF Requests, PCs
  <2>2. request' = [request EXCEPT ![a] = r]
    BY <1>10, Types DEF CloseOthers
  <2> QED BY <1>10, <2>1, <2>2, RequestTyped, Types DEF CloseOthers, historyVars
<1>11. ASSUME NEW a \in Admins, ReadTopVote(a) PROVE TypeInv'
  <2>1. CASE DOMAIN votes = {}
    <3>1. NoRequest.id < nextId
      BY Types DEF NoRequest
    <3> QED BY <1>11, <2>1, <3>1, NoRequestTyped, RequestTyped, Types DEF ReadTopVote, historyVars
  <2>2. CASE DOMAIN votes # {}
    <3> DEFINE top == Max(DOMAIN votes)
               r == [NoRequest EXCEPT !.op = "reopen", !.id = top, !.pc = "save",
                                      !.changes = Changes(top, {Set(top, "open", TRUE)})]
    <3>1. top \in DOMAIN votes
      <4>1. DOMAIN votes \in SUBSET Nat /\ \A v \in DOMAIN votes : v <= nextId /\ nextId \in Nat
        BY Types
      <4> QED BY <2>2, <4>1, Types, MaxOfBounded
    <3> HIDE DEF top
    <3>2. Changes(top, {Set(top, "open", TRUE)}) \subseteq Change
      BY <3>1, ChangesTyped, Types DEF Columns
    <3>3. r \in Requests /\ r.id < nextId
      BY <3>1, <3>2, Types DEF NoRequest, Requests, Ops, PCs
    <3>4. request' = [request EXCEPT ![a] = r]
      BY <1>11, <2>2 DEF ReadTopVote, top
    <3> QED BY <1>11, <3>3, <3>4, RequestTyped, Types DEF ReadTopVote, historyVars
  <2> QED BY <2>1, <2>2
<1>12. ASSUME NEW a \in Admins, ReadRows(a) PROVE TypeInv'
  <2> DEFINE rows == {i \in log : posts[i] = request[a].id}
             r == [request[a] EXCEPT !.pc = "save", !.rows = rows]
  <2>1. rows \subseteq DOMAIN posts
    BY Types
  <2> HIDE DEF rows
  <2>2. r \in Requests /\ r.id < nextId
    BY <2>1, Types DEF Requests, PCs
  <2>3. request' = [request EXCEPT ![a] = r]
    BY <1>12, Types DEF ReadRows, rows
  <2>4. meanwhile' \in [Admins -> Meanwhiles]
    BY <1>12, Types DEF ReadRows, Meanwhiles
  <2> QED BY <1>12, <2>2, <2>3, <2>4, RequestTyped DEF ReadRows
<1>13. ASSUME NEW a \in Admins, SaveChanges(a) PROVE TypeInv'
  <2> DEFINE next == IF request[a].pc = "saveThenReopen"
                     THEN [NoRequest EXCEPT !.op = "delete", !.pc = "reopen"] ELSE NoRequest
  <2>1. next \in Requests /\ next.id < nextId'
    <3>1. 0 < nextId'
      BY <1>13, SavedTyped, ConstantsOK
    <3> QED BY <3>1 DEF NoRequest, Requests, Ops, PCs
  <2>2. request' \in [Admins -> Requests] /\ \A b \in Admins : request'[b].id < nextId'
    <3>1. request' = [request EXCEPT ![a] = next]
      BY <1>13 DEF SaveChanges
    <3>2. \A b \in Admins : request[b].id < nextId'
      BY <1>13, SavedTyped, Types DEF Requests, VoteIds
    <3> HIDE DEF next
    <3> QED BY <2>1, <3>1, <3>2, Types
  <2>3. log' \subseteq DOMAIN posts /\ UNCHANGED <<posts, pending, overlapped>>
    BY <1>13, Types DEF SaveChanges
  <2>4. meanwhile' \in [Admins -> Meanwhiles]
    <3>1. \A m \in Meanwhiles : \A S : [m EXCEPT !.saved = @ \cup (S \cap {"start", "end"})] \in Meanwhiles
      BY DEF Meanwhiles
    <3>2. meanwhile' = Noticed(a)
      BY <1>13 DEF SaveChanges
    <3> QED BY <3>1, <3>2, NothingTyped, Types DEF Noticed
  <2> QED BY <1>1, <1>13, <2>2, <2>3, <2>4, SavedTyped, Types
          DEF TypeInv, TypeOK, Requests, Ops, PCs, Meanwhiles
<1>14. ASSUME NEW a \in Admins, Fail(a) PROVE TypeInv'
  <2>1. NoRequest.id < nextId
    BY Types DEF NoRequest
  <2>2. meanwhile' \in [Admins -> Meanwhiles]
    BY <1>14, NothingTyped, Types DEF Fail
  <2> QED BY <1>14, <2>1, <2>2, NoRequestTyped, RequestTyped DEF Fail
<1>15. ASSUME NEW v \in VoteIds, Post(v) PROVE TypeInv'
  <2>1. /\ posts' = Append(posts, v) /\ pending' = Append(pending, Len(posts) + 1)
        /\ UNCHANGED <<voteVars, request, log, overlapped, meanwhile>>
    BY <1>15 DEF Post, historyVars
  <2>2. posts' \in Seq(VoteIds) /\ DOMAIN posts' = 1 .. Len(posts) + 1
    BY <2>1, Types, AppendProperties, LenProperties
  <2>3. pending' \in Seq(Nat) /\ ToSet(pending') = ToSet(pending) \cup {Len(posts) + 1}
    <3>1. Len(posts) + 1 \in Nat
      BY Types
    <3>2. pending' = Append(pending, Len(posts) + 1) /\ pending \in Seq(Nat)
      BY <2>1, Types
    <3> QED BY <3>1, <3>2, AppendProperties, ToSetAppends
  <2>4. DOMAIN posts \subseteq DOMAIN posts' /\ Len(posts) + 1 \in DOMAIN posts'
    BY <2>2, Types
  <2>5. request \in [Admins -> [op : Ops, id : {0} \cup VoteIds, pc : PCs, changes : SUBSET Change,
                                rows : SUBSET DOMAIN posts', touches : SUBSET VoteIds]]
    BY <2>4, Types DEF Requests
  <2>6. meanwhile \in [Admins -> [saved : SUBSET {"start", "end"}, written : SUBSET DOMAIN posts']]
    BY <2>4, Types DEF Meanwhiles
  <2> QED BY <2>1, <2>2, <2>3, <2>4, <2>5, <2>6 DEF voteVars, TypeInv, TypeOK, Ops, PCs
<1>16. ASSUME NEW n \in 1 .. Len(pending), Flush(n) PROVE TypeInv'
  <2>1. pending' \in Seq(Nat) /\ ToSet(pending') \subseteq ToSet(pending)
        /\ log' \subseteq log \cup ToSet(pending)
    BY <1>16, FlushedRows
  <2>2. meanwhile' \in [Admins -> Meanwhiles]
    <3>1. {pending[i] : i \in 1 .. n} \subseteq DOMAIN posts
      <4>1. \A i \in 1 .. n : i \in 1 .. Len(pending)
        BY Types
      <4> QED BY <4>1, Types, ToSetPlace
    <3>2. \A m \in Meanwhiles : \A S \in SUBSET DOMAIN posts : [m EXCEPT !.written = @ \cup S] \in Meanwhiles
      BY DEF Meanwhiles
    <3> QED BY <1>16, <3>1, <3>2, Types DEF Flush
  <2> QED BY <1>16, <2>1, <2>2 DEF Flush, voteVars, TypeInv, TypeOK, Meanwhiles
<1>17. CASE Crash
  <2>1. request' \in [Admins -> Requests] /\ \A b \in Admins : request'[b].id < nextId
    BY <1>17, NoRequestTyped, Types DEF Crash, NoRequest
  <2>2. pending' \in Seq(Nat) /\ ToSet(pending') = {}
    BY <1>17, ToSetEmpty DEF Crash
  <2>3. meanwhile' \in [Admins -> Meanwhiles]
    BY <1>17, NothingTyped DEF Crash
  <2> QED BY <1>17, <2>1, <2>2, <2>3
          DEF Crash, voteVars, TypeInv, TypeOK, Requests, Ops, PCs, Meanwhiles
<1> QED BY <1>2, <1>3, <1>4, <1>5, <1>6, <1>7, <1>8, <1>9, <1>10, <1>11, <1>12, <1>13, <1>14,
           <1>15, <1>16, <1>17 DEF Next

-----------------------------------------------------------------------------
(* One open vote. While requests do not overlap, the votes a request reads *)
(* are the votes it saves over. So it is enough to know of the one request *)
(* in progress what its save will leave open: at most one vote, or none    *)
(* when it is to reopen one afterwards; and before the second read of an   *)
(* update, that it opens no other vote than its own.                       *)

AtMostOne(S) == \A v, w \in S : v = w

\* The open votes after a request's save.
OpenAfter(r) == {v \in DOMAIN Saved(r) : Saved(r)[v].open}

LeavesOne(r) ==
  /\ r.pc \in {"rows", "save"} => AtMostOne(OpenAfter(r))
  /\ r.pc = "saveThenReopen" => OpenAfter(r) = {}
  /\ r.pc = "others" => /\ r.op \in {"update", "open"}
                        /\ \A v : Set(v, "open", TRUE) \in r.changes => v = r.id
  /\ r.pc = "reopen" => OpenVotes = {}

OpenInv ==
  ~overlapped =>
    /\ \A a, b \in Admins : a = b \/ request[a].pc = "idle" \/ request[b].pc = "idle"
    /\ \A a \in Admins : LeavesOne(request[a])
    /\ AtMostOne(OpenVotes)

\* What a save leaves open: what it opens, and what was open and it does not close.
LEMMA OpenAfterSave ==
  ASSUME NEW r
  PROVE  \A v : v \in OpenAfter(r) <=>
           \/ r.op = "create" /\ v = nextId
           \/ /\ v \in DOMAIN votes /\ ~(r.op = "delete" /\ v = r.id)
              /\ \/ Set(v, "open", TRUE) \in r.changes
                 \/ v \in OpenVotes /\ Set(v, "open", FALSE) \notin r.changes
<1> SUFFICES ASSUME NEW v
             PROVE  v \in OpenAfter(r) <=>
                      \/ r.op = "create" /\ v = nextId
                      \/ /\ v \in DOMAIN votes /\ ~(r.op = "delete" /\ v = r.id)
                         /\ \/ Set(v, "open", TRUE) \in r.changes
                            \/ v \in OpenVotes /\ Set(v, "open", FALSE) \notin r.changes
  OBVIOUS
<1>1. v \in OpenAfter(r) <=> v \in DOMAIN Saved(r) /\ Saved(r)[v].open
  BY DEF OpenAfter
<1>2. v \in DOMAIN Saved(r) <=> \/ v \in DOMAIN votes /\ ~(r.op = "delete" /\ v = r.id)
                                \/ r.op = "create" /\ v = nextId
  BY SavedRows
<1>3. NewRow.open
  BY Zenon DEF NewRow, Columns
<1>4. Row(r, v).open <=> \/ Set(v, "open", TRUE) \in r.changes
                         \/ Set(v, "open", FALSE) \notin r.changes /\ votes[v].open
  BY Zenon DEF Row, Columns
<1>5. v \in DOMAIN votes => (v \in OpenVotes <=> votes[v].open)
  BY DEF OpenVotes
<1>6. /\ v \in DOMAIN Saved(r) /\ r.op = "create" /\ v = nextId => Saved(r)[v] = NewRow
      /\ v \in DOMAIN Saved(r) /\ ~(r.op = "create" /\ v = nextId) => Saved(r)[v] = Row(r, v)
  BY SavedRows
<1> QED BY <1>1, <1>2, <1>3, <1>4, <1>5, <1>6

\* After a save that closes what was open at its second read: only what it opened itself.
LEMMA OthersClosed ==
  ASSUME TypeInv, NEW r, NEW own, r.changes = CloseOpenVotes(own), r.op # "create",
         NEW id, \A v : Set(v, "open", TRUE) \in own => v = id
  PROVE  OpenAfter(r) \subseteq {id}
<1> SUFFICES ASSUME NEW v \in OpenAfter(r) PROVE v = id
  OBVIOUS
<1>1. \/ Set(v, "open", TRUE) \in r.changes
      \/ v \in OpenVotes /\ Set(v, "open", FALSE) \notin r.changes
  BY OpenAfterSave
<1>2. Set(v, "open", TRUE) \in r.changes => Set(v, "open", TRUE) \in own
  BY DEF CloseOpenVotes, Set
<1>3. v \in OpenVotes /\ Set(v, "open", FALSE) \notin r.changes => Set(v, "open", TRUE) \in own
  BY DEF CloseOpenVotes
<1> QED BY <1>1, <1>2, <1>3

\* The changes of the handlers that do not touch IsOpen leave open what was.
LEMMA OpenUntouched ==
  ASSUME NEW r, r.op # "create",
         \A v : Set(v, "open", TRUE) \notin r.changes, AtMostOne(OpenVotes)
  PROVE  AtMostOne(OpenAfter(r))
BY OpenAfterSave DEF AtMostOne

\* A step that leaves the votes alone: what holds of the requests now does afterwards.
LEMMA SameVotes ==
  ASSUME UNCHANGED voteVars, NEW a \in Admins, NEW r, request'[a] = r, LeavesOne(r)
  PROVE  LeavesOne(request[a])'
<1>1. Saved(request[a])' = Saved(r)
  BY DEF voteVars, Saved
<1>2. OpenAfter(request[a])' = OpenAfter(r)
  BY <1>1 DEF OpenAfter
<1>3. OpenVotes' = OpenVotes
  BY DEF voteVars, OpenVotes
<1> QED BY <1>2, <1>3 DEF LeavesOne, AtMostOne

\* Who has no request saves nothing.
LEMMA IdleLeavesOne == LeavesOne(NoRequest)
BY DEF LeavesOne, NoRequest

\* A request that begins while nobody else has one keeps the invariant, if what it will save does.
LEMMA BeginKeepsOne ==
  ASSUME TypeInv, OpenInv, NEW a \in Admins, NEW r, Begin(a, r), AtMostOne(OpenVotes) => LeavesOne(r)
  PROVE  OpenInv'
<1> SUFFICES ASSUME ~overlapped' PROVE OpenInv'
  BY DEF OpenInv
<1>1. /\ ~overlapped /\ \A b \in Admins \ {a} : request[b].pc = "idle"
      /\ request' = [request EXCEPT ![a] = r] /\ UNCHANGED voteVars
  BY DEF Begin
<1>2. AtMostOne(OpenVotes) /\ LeavesOne(r) /\ \A b \in Admins : LeavesOne(request[b])
  BY <1>1 DEF OpenInv
<1>3. request'[a] = r /\ \A b \in Admins \ {a} : request'[b] = request[b]
  BY <1>1, Types
<1>4. ASSUME NEW b \in Admins PROVE LeavesOne(request[b])'
  BY <1>1, <1>2, <1>3, SameVotes
<1>5. AtMostOne(OpenVotes)'
  BY <1>1, <1>2 DEF voteVars, AtMostOne, OpenVotes
<1>6. \A b, c \in Admins : b = c \/ request'[b].pc = "idle" \/ request'[c].pc = "idle"
  BY <1>1, <1>3
<1> QED BY <1>4, <1>5, <1>6 DEF OpenInv

\* A request that goes on, while nobody else has one, keeps the invariant if what it will save
\* does.
LEMMA RequestKeepsOne ==
  ASSUME TypeInv, OpenInv, NEW a \in Admins, NEW r, request[a].pc # "idle",
         request' = [request EXCEPT ![a] = r], UNCHANGED <<voteVars, overlapped>>,
         ~overlapped => LeavesOne(r)
  PROVE  OpenInv'
<1> SUFFICES ASSUME ~overlapped PROVE OpenInv'
  BY DEF OpenInv
<1>1. /\ AtMostOne(OpenVotes) /\ LeavesOne(r) /\ \A b \in Admins : LeavesOne(request[b])
      /\ \A b \in Admins \ {a} : request[b].pc = "idle"
  BY DEF OpenInv
<1>2. request'[a] = r /\ \A b \in Admins \ {a} : request'[b] = request[b]
  BY Types
<1>3. ASSUME NEW b \in Admins PROVE LeavesOne(request[b])'
  BY <1>1, <1>2, SameVotes
<1>4. AtMostOne(OpenVotes)'
  BY <1>1 DEF voteVars, AtMostOne, OpenVotes
<1>5. \A b, c \in Admins : b = c \/ request'[b].pc = "idle" \/ request'[c].pc = "idle"
  BY <1>1, <1>2
<1> QED BY <1>3, <1>4, <1>5 DEF OpenInv

\* Nobody else is at work when a save is made, so the votes become what it leaves.
LEMMA SaveKeepsOne ==
  ASSUME TypeInv, OpenInv, NEW a \in Admins, SaveChanges(a)
  PROVE  OpenInv'
<1> SUFFICES ASSUME ~overlapped PROVE OpenInv'
  BY DEF OpenInv, SaveChanges
<1> DEFINE r == request[a]
<1>1. /\ LeavesOne(r) /\ r.pc \in {"save", "saveThenReopen"}
      /\ \A b \in Admins \ {a} : request[b].pc = "idle"
  BY DEF OpenInv, SaveChanges, Saving
<1>2. OpenVotes' = OpenAfter(r)
  BY DEF SaveChanges, OpenVotes, OpenAfter
<1>3. AtMostOne(OpenVotes)' /\ (r.pc = "saveThenReopen" => OpenVotes' = {})
  BY <1>1, <1>2 DEF LeavesOne, AtMostOne
<1>4. /\ \A b \in Admins \ {a} : request'[b] = request[b]
      /\ request'[a] = IF r.pc = "saveThenReopen" THEN [NoRequest EXCEPT !.op = "delete", !.pc = "reopen"]
                       ELSE NoRequest
  BY Types DEF SaveChanges
<1>5. ASSUME NEW b \in Admins PROVE LeavesOne(request[b])'
  <2>1. request'[b].pc = "idle" \/ (request'[b].pc = "reopen" /\ OpenVotes' = {})
    <3>1. NoRequest.pc = "idle" /\ [NoRequest EXCEPT !.op = "delete", !.pc = "reopen"].pc = "reopen"
      BY DEF NoRequest
    <3>2. CASE b = a
      BY <1>1, <1>3, <1>4, <3>1, <3>2
    <3>3. CASE b # a
      BY <1>1, <1>4, <3>3
    <3> QED BY <3>2, <3>3
  <2> QED BY <2>1 DEF LeavesOne
<1>6. \A b, c \in Admins : b = c \/ request'[b].pc = "idle" \/ request'[c].pc = "idle"
  BY <1>1, <1>4
<1> QED BY <1>3, <1>5, <1>6 DEF OpenInv

\* No vote is open in the beginning.
LEMMA OpenInit == Init => OpenInv
<1> SUFFICES ASSUME Init PROVE OpenInv
  OBVIOUS
<1>1. \A a \in Admins : request[a] = NoRequest /\ request[a].pc = "idle"
  BY DEF Init, NoRequest
<1>2. OpenVotes = {}
  BY DEF Init, OpenVotes
<1> QED BY <1>1, <1>2, IdleLeavesOne DEF OpenInv, AtMostOne

\* Every step keeps one open vote at most, while requests do not overlap.
LEMMA OpenNext == TypeInv /\ OpenInv /\ [Next]_vars => OpenInv'
<1> SUFFICES ASSUME TypeInv, OpenInv, [Next]_vars PROVE OpenInv'
  OBVIOUS
<1>1. ASSUME UNCHANGED <<voteVars, request, overlapped>> PROVE OpenInv'
  <2> SUFFICES ASSUME ~overlapped PROVE OpenInv'
    BY <1>1 DEF OpenInv
  <2>1. \A a, b \in Admins : a = b \/ request'[a].pc = "idle" \/ request'[b].pc = "idle"
    BY <1>1 DEF OpenInv
  <2>2. ASSUME NEW a \in Admins PROVE LeavesOne(request[a])'
    BY <1>1, SameVotes DEF OpenInv
  <2>3. AtMostOne(OpenVotes)'
    BY <1>1 DEF OpenInv, voteVars, AtMostOne, OpenVotes
  <2> QED BY <2>1, <2>2, <2>3 DEF OpenInv
<1>2. CASE UNCHANGED vars
  BY <1>1, <1>2 DEF vars, voteVars, historyVars
<1>3. ASSUME NEW a \in Admins, CreateVotingPost(a) PROVE OpenInv'
  <2> DEFINE r == [NoRequest EXCEPT !.op = "create", !.pc = "save", !.changes = CloseOpenVotes({})]
  <2>1. r.pc = "save" /\ r.op = "create" /\ r.changes = CloseOpenVotes({})
    BY DEF NoRequest
  <2>2. ASSUME NEW v \in OpenAfter(r) PROVE v = nextId
    <3>1. \/ v = nextId
          \/ /\ v \in DOMAIN votes
             /\ \/ Set(v, "open", TRUE) \in r.changes
                \/ v \in OpenVotes /\ Set(v, "open", FALSE) \notin r.changes
      BY OpenAfterSave
    <3> QED BY <2>1, <3>1 DEF CloseOpenVotes, Set
  <2>3. LeavesOne(r)
    BY <2>1, <2>2 DEF LeavesOne, AtMostOne
  <2> QED BY <1>3, <2>3, BeginKeepsOne DEF CreateVotingPost
<1>4. ASSUME NEW a \in Admins, NEW v \in VoteIds, UpdateVotingPost(a, v) PROVE OpenInv'
  <2>1. PICK t \in {{}, {v}} :
          Begin(a, [NoRequest EXCEPT !.op = "update", !.id = v, !.pc = "others", !.touches = t,
                                     !.changes = Changes(v, {Set(v, "open", TRUE)})])
    BY <1>4 DEF UpdateVotingPost
  <2> DEFINE r == [NoRequest EXCEPT !.op = "update", !.id = v, !.pc = "others", !.touches = t,
                                    !.changes = Changes(v, {Set(v, "open", TRUE)})]
  <2>2. /\ r.pc = "others" /\ r.op = "update" /\ r.id = v
        /\ r.changes = Changes(v, {Set(v, "open", TRUE)})
    BY DEF NoRequest
  <2>3. LeavesOne(r)
    BY <2>2 DEF LeavesOne, Changes, Set
  <2> QED BY <2>1, <2>3, BeginKeepsOne
<1>5. ASSUME NEW a \in Admins, NEW v \in VoteIds, OpenVote(a, v) PROVE OpenInv'
  <2> DEFINE r == [NoRequest EXCEPT !.op = "open", !.id = v, !.pc = "others",
                                    !.changes = Changes(v, {Set(v, "open", TRUE)})]
  <2>1. /\ r.pc = "others" /\ r.op = "open" /\ r.id = v
        /\ r.changes = Changes(v, {Set(v, "open", TRUE)})
    BY DEF NoRequest
  <2>2. LeavesOne(r)
    BY <2>1 DEF LeavesOne, Changes, Set
  <2> QED BY <1>5, <2>2, BeginKeepsOne DEF OpenVote
<1>6. ASSUME NEW a \in Admins, NEW v \in VoteIds, DelVote(a, v) PROVE OpenInv'
  <2> DEFINE to == IF votes[v].open THEN "saveThenReopen" ELSE "save"
             r == [NoRequest EXCEPT !.op = "delete", !.id = v, !.touches = {v}, !.pc = to]
  <2>1. r.pc = to /\ r.op = "delete" /\ r.id = v /\ r.changes = {} /\ v \in DOMAIN votes
    BY <1>6 DEF DelVote, Exists, NoRequest
  <2>2. \A w : w \in OpenAfter(r) => w \in OpenVotes /\ w # v
    <3> HIDE DEF r
    <3> QED BY <2>1, OpenAfterSave
  <2>3. AtMostOne(OpenVotes) => AtMostOne(OpenAfter(r))
    BY <2>2 DEF AtMostOne
  <2>4. AtMostOne(OpenVotes) /\ votes[v].open => OpenAfter(r) = {}
    BY <2>1, <2>2 DEF AtMostOne, OpenVotes
  <2>5. /\ r.pc = "saveThenReopen" => votes[v].open
        /\ r.pc \in {"save", "saveThenReopen"}
    BY <2>1
  <2>6. AtMostOne(OpenVotes) => LeavesOne(r)
    BY <2>3, <2>4, <2>5 DEF LeavesOne
  <2> QED BY <1>6, <2>6, BeginKeepsOne DEF DelVote
<1>7. ASSUME NEW a \in Admins, NEW v \in VoteIds, StartVote(a, v) PROVE OpenInv'
  <2> DEFINE r == [NoRequest EXCEPT !.op = "start", !.id = v, !.pc = "save",
                                    !.changes = Changes(v, {Set(v, "enabled", TRUE)})]
  <2>1. r.pc = "save" /\ r.op = "start" /\ r.changes = Changes(v, {Set(v, "enabled", TRUE)})
    BY DEF NoRequest
  <2>2. \A w : Set(w, "open", TRUE) \notin r.changes
    BY <2>1 DEF Changes, Set
  <2>3. AtMostOne(OpenVotes) => AtMostOne(OpenAfter(r))
    BY <2>1, <2>2, OpenUntouched
  <2>4. AtMostOne(OpenVotes) => LeavesOne(r)
    BY <2>1, <2>3 DEF LeavesOne
  <2> QED BY <1>7, <2>4, BeginKeepsOne DEF StartVote
<1>8. ASSUME NEW a \in Admins, NEW v \in VoteIds, EndVote(a, v) PROVE OpenInv'
  <2> DEFINE assigned == {Set(v, "enabled", FALSE), Set(v, "expired", TRUE)}
             r == [NoRequest EXCEPT !.op = "end", !.id = v, !.pc = "save", !.changes = Changes(v, assigned)]
  <2>1. r.pc = "save" /\ r.op = "end" /\ r.changes = Changes(v, assigned)
    BY DEF NoRequest
  <2>2. \A w : Set(w, "open", TRUE) \notin r.changes
    BY <2>1 DEF Changes, Set
  <2>3. AtMostOne(OpenVotes) => AtMostOne(OpenAfter(r))
    BY <2>1, <2>2, OpenUntouched
  <2>4. AtMostOne(OpenVotes) => LeavesOne(r)
    BY <2>1, <2>3 DEF LeavesOne
  <2> QED BY <1>8, <2>4, BeginKeepsOne DEF EndVote
<1>9. ASSUME NEW a \in Admins, NEW v \in VoteIds, ResetVote(a, v) PROVE OpenInv'
  <2> DEFINE assigned == {Set(v, "enabled", FALSE), Set(v, "expired", FALSE)}
             r == [NoRequest EXCEPT !.op = "reset", !.id = v, !.pc = "rows", !.touches = {v},
                                    !.changes = Changes(v, assigned)]
  <2>1. r.pc = "rows" /\ r.op = "reset" /\ r.changes = Changes(v, assigned)
    BY DEF NoRequest
  <2>2. \A w : Set(w, "open", TRUE) \notin r.changes
    BY <2>1 DEF Changes, Set
  <2>3. AtMostOne(OpenVotes) => AtMostOne(OpenAfter(r))
    BY <2>1, <2>2, OpenUntouched
  <2>4. AtMostOne(OpenVotes) => LeavesOne(r)
    BY <2>1, <2>3 DEF LeavesOne
  <2> QED BY <1>9, <2>4, BeginKeepsOne DEF ResetVote
<1>10. ASSUME NEW a \in Admins, CloseOthers(a) PROVE OpenInv'
  <2> DEFINE q == request[a]
             r == [q EXCEPT !.pc = "save", !.changes = CloseOpenVotes(@)]
  <2>1. /\ q.pc = "others" /\ q \in Requests
        /\ request' = [request EXCEPT ![a] = r] /\ UNCHANGED <<voteVars, overlapped>>
    BY <1>10, Types DEF CloseOthers, historyVars
  <2>2. r.pc = "save" /\ r.op = q.op /\ r.id = q.id /\ r.changes = CloseOpenVotes(q.changes)
    BY <2>1 DEF Requests
  <2>3. ASSUME ~overlapped PROVE LeavesOne(r)
    <3>1. q.op # "create" /\ \A v : Set(v, "open", TRUE) \in q.changes => v = q.id
      BY <2>1, <2>3 DEF OpenInv, LeavesOne
    <3> HIDE DEF r
    <3>2. OpenAfter(r) \subseteq {q.id}
      BY <2>2, <3>1, OthersClosed
    <3> QED BY <2>2, <3>2 DEF LeavesOne, AtMostOne
  <2> QED BY <2>1, <2>3, RequestKeepsOne
<1>11. ASSUME NEW a \in Admins, ReadTopVote(a) PROVE OpenInv'
  <2>1. request[a].pc = "reopen" /\ UNCHANGED <<voteVars, overlapped>>
    BY <1>11 DEF ReadTopVote, historyVars
  <2>2. CASE DOMAIN votes = {}
    BY <1>11, <2>1, <2>2, IdleLeavesOne, RequestKeepsOne DEF ReadTopVote
  <2>3. CASE DOMAIN votes # {}
    <3> DEFINE top == Max(DOMAIN votes)
               r == [NoRequest EXCEPT !.op = "reopen", !.id = top, !.pc = "save",
                                      !.changes = Changes(top, {Set(top, "open", TRUE)})]
    <3>1. r.pc = "save" /\ r.op = "reopen" /\ r.changes = Changes(top, {Set(top, "open", TRUE)})
      BY DEF NoRequest
    <3>2. \A v : Set(v, "open", TRUE) \in r.changes => v = top
      BY <3>1 DEF Changes, Set
    <3>3. ASSUME ~overlapped PROVE LeavesOne(r)
      <4>1. OpenVotes = {}
        BY <2>1, <3>3 DEF OpenInv, LeavesOne
      <4>2. \A v : v \in OpenAfter(r) => v = top
        BY <3>1, <3>2, <4>1, OpenAfterSave
      <4> QED BY <3>1, <4>2 DEF LeavesOne, AtMostOne
    <3>4. request' = [request EXCEPT ![a] = r]
      BY <1>11, <2>3 DEF ReadTopVote
    <3> QED BY <2>1, <3>3, <3>4, RequestKeepsOne
  <2> QED BY <2>2, <2>3
<1>12. ASSUME NEW a \in Admins, ReadRows(a) PROVE OpenInv'
  <2> DEFINE q == request[a]
             rows == {i \in log : posts[i] = q.id}
             r == [q EXCEPT !.pc = "save", !.rows = rows]
  <2>1. /\ q.pc = "rows" /\ q \in Requests
        /\ request' = [request EXCEPT ![a] = r] /\ UNCHANGED <<voteVars, overlapped>>
    BY <1>12, Types DEF ReadRows
  <2>2. r.pc = "save" /\ r.op = q.op /\ r.id = q.id /\ r.changes = q.changes
    BY <2>1 DEF Requests
  <2>3. ASSUME ~overlapped PROVE LeavesOne(r)
    <3>1. AtMostOne(OpenAfter(q))
      BY <2>1, <2>3 DEF OpenInv, LeavesOne
    <3>2. \A v : v \in OpenAfter(r) <=> v \in OpenAfter(q)
      BY <2>2, OpenAfterSave
    <3> QED BY <2>2, <3>1, <3>2 DEF LeavesOne, AtMostOne
  <2> QED BY <2>1, <2>3, RequestKeepsOne
<1>13. ASSUME NEW a \in Admins, Fail(a) PROVE OpenInv'
  BY <1>13, IdleLeavesOne, RequestKeepsOne DEF Fail
<1>14. ASSUME NEW v \in VoteIds, Post(v) PROVE OpenInv'
  BY <1>1, <1>14 DEF Post, historyVars
<1>15. ASSUME NEW n \in 1 .. Len(pending), Flush(n) PROVE OpenInv'
  BY <1>1, <1>15 DEF Flush
<1>16. CASE Crash
  <2> SUFFICES ASSUME ~overlapped PROVE OpenInv'
    BY <1>16 DEF OpenInv, Crash
  <2>1. \A a \in Admins : request'[a] = NoRequest /\ request'[a].pc = "idle"
    BY <1>16 DEF Crash, NoRequest
  <2>2. ASSUME NEW a \in Admins PROVE LeavesOne(request[a])'
    BY <1>16, <2>1, IdleLeavesOne, SameVotes DEF Crash
  <2>3. AtMostOne(OpenVotes)'
    BY <1>16 DEF Crash, OpenInv, voteVars, AtMostOne, OpenVotes
  <2> QED BY <2>1, <2>2, <2>3 DEF OpenInv
<1> QED BY <1>2, <1>3, <1>4, <1>5, <1>6, <1>7, <1>8, <1>9, <1>10, <1>11, <1>12, <1>13, <1>14,
           <1>15, <1>16, SaveKeepsOne DEF Next

-----------------------------------------------------------------------------
(* A vote starts by a StartVote and expires by an EndVote. Only these      *)
(* collect the changes that set IsEnable and Expired, and only of their    *)
(* own vote.                                                               *)

\* Request r sets the column of vote v.
Sets(r, v, column, op) ==
  Set(v, column, TRUE) \in r.changes => r.op = op /\ r.id = v /\ r.pc = "save"

EnableInv ==
  \A a \in Admins : \A v :
    Sets(request[a], v, "enabled", "start") /\ Sets(request[a], v, "expired", "end")

\* No request has changes in the beginning.
LEMMA EnableInit == Init => EnableInv
<1> SUFFICES ASSUME Init PROVE EnableInv
  OBVIOUS
<1>1. \A a \in Admins : request[a].changes = {}
  BY DEF Init, NoRequest
<1> QED BY <1>1 DEF EnableInv, Sets

\* Every step keeps it: only StartVote sets IsEnable, only EndVote sets Expired.
LEMMA EnableNext == TypeInv /\ EnableInv /\ [Next]_vars => EnableInv'
<1> SUFFICES ASSUME TypeInv, EnableInv, [Next]_vars PROVE EnableInv'
  OBVIOUS
<1> DEFINE Starts(r) == \A v : Sets(r, v, "enabled", "start") /\ Sets(r, v, "expired", "end")
<1>1. ASSUME NEW a \in Admins, NEW r, request' = [request EXCEPT ![a] = r], Starts(r)
      PROVE  EnableInv'
  BY <1>1, Types DEF EnableInv
<1>2. ASSUME UNCHANGED request PROVE EnableInv'
  BY <1>2 DEF EnableInv
<1>3. CASE UNCHANGED vars
  BY <1>2, <1>3 DEF vars
<1>4. Starts(NoRequest)
  BY DEF Sets, NoRequest
<1>5. ASSUME NEW a \in Admins, CreateVotingPost(a) PROVE EnableInv'
  <2> DEFINE r == [NoRequest EXCEPT !.op = "create", !.pc = "save", !.changes = CloseOpenVotes({})]
  <2>1. r.changes = CloseOpenVotes({})
    BY DEF NoRequest
  <2>2. Starts(r)
    BY <2>1 DEF Sets, CloseOpenVotes, Set
  <2> QED BY <1>1, <1>5, <2>2 DEF CreateVotingPost, Begin
<1>6. ASSUME NEW a \in Admins, NEW v \in VoteIds, UpdateVotingPost(a, v) PROVE EnableInv'
  <2>1. PICK t \in {{}, {v}} :
          Begin(a, [NoRequest EXCEPT !.op = "update", !.id = v, !.pc = "others", !.touches = t,
                                     !.changes = Changes(v, {Set(v, "open", TRUE)})])
    BY <1>6 DEF UpdateVotingPost
  <2> DEFINE r == [NoRequest EXCEPT !.op = "update", !.id = v, !.pc = "others", !.touches = t,
                                    !.changes = Changes(v, {Set(v, "open", TRUE)})]
  <2>2. r.changes = Changes(v, {Set(v, "open", TRUE)})
    BY DEF NoRequest
  <2>3. Starts(r)
    BY <2>2 DEF Sets, Changes, Set
  <2> QED BY <1>1, <2>1, <2>3 DEF Begin
<1>7. ASSUME NEW a \in Admins, NEW v \in VoteIds, OpenVote(a, v) PROVE EnableInv'
  <2> DEFINE r == [NoRequest EXCEPT !.op = "open", !.id = v, !.pc = "others",
                                    !.changes = Changes(v, {Set(v, "open", TRUE)})]
  <2>1. r.changes = Changes(v, {Set(v, "open", TRUE)})
    BY DEF NoRequest
  <2>2. Starts(r)
    BY <2>1 DEF Sets, Changes, Set
  <2> QED BY <1>1, <1>7, <2>2 DEF OpenVote, Begin
<1>8. ASSUME NEW a \in Admins, NEW v \in VoteIds, DelVote(a, v) PROVE EnableInv'
  <2> DEFINE r == [NoRequest EXCEPT !.op = "delete", !.id = v, !.touches = {v},
                                    !.pc = IF votes[v].open THEN "saveThenReopen" ELSE "save"]
  <2>1. r.changes = {}
    BY DEF NoRequest
  <2>2. Starts(r)
    BY <2>1 DEF Sets
  <2> QED BY <1>1, <1>8, <2>2 DEF DelVote, Begin
<1>9. ASSUME NEW a \in Admins, NEW v \in VoteIds, StartVote(a, v) PROVE EnableInv'
  <2> DEFINE r == [NoRequest EXCEPT !.op = "start", !.id = v, !.pc = "save",
                                    !.changes = Changes(v, {Set(v, "enabled", TRUE)})]
  <2>1. r.pc = "save" /\ r.op = "start" /\ r.id = v /\ r.changes = Changes(v, {Set(v, "enabled", TRUE)})
    BY DEF NoRequest
  <2>2. Starts(r)
    BY <2>1 DEF Sets, Changes, Set
  <2> QED BY <1>1, <1>9, <2>2 DEF StartVote, Begin
<1>10. ASSUME NEW a \in Admins, NEW v \in VoteIds, EndVote(a, v) PROVE EnableInv'
  <2> DEFINE assigned == {Set(v, "enabled", FALSE), Set(v, "expired", TRUE)}
             r == [NoRequest EXCEPT !.op = "end", !.id = v, !.pc = "save", !.changes = Changes(v, assigned)]
  <2>1. r.changes = Changes(v, assigned)
    BY DEF NoRequest
  <2>2. Starts(r)
    BY <2>1 DEF Sets, Changes, Set
  <2> QED BY <1>1, <1>10, <2>2 DEF EndVote, Begin
<1>11. ASSUME NEW a \in Admins, NEW v \in VoteIds, ResetVote(a, v) PROVE EnableInv'
  <2> DEFINE assigned == {Set(v, "enabled", FALSE), Set(v, "expired", FALSE)}
             r == [NoRequest EXCEPT !.op = "reset", !.id = v, !.pc = "rows", !.touches = {v},
                                    !.changes = Changes(v, assigned)]
  <2>1. r.changes = Changes(v, assigned)
    BY DEF NoRequest
  <2>2. Starts(r)
    BY <2>1 DEF Sets, Changes, Set
  <2> QED BY <1>1, <1>11, <2>2 DEF ResetVote, Begin
<1>12. ASSUME NEW a \in Admins, CloseOthers(a) PROVE EnableInv'
  <2> DEFINE r == [request[a] EXCEPT !.pc = "save", !.changes = CloseOpenVotes(@)]
  <2>1. /\ r.changes = CloseOpenVotes(request[a].changes) /\ request' = [request EXCEPT ![a] = r]
        /\ r.op = request[a].op /\ r.id = request[a].id /\ r.pc = "save"
    BY <1>12, Types DEF CloseOthers, Requests
  <2>2. Starts(r)
    BY <2>1 DEF EnableInv, Sets, CloseOpenVotes, Set
  <2> QED BY <1>1, <2>1, <2>2
<1>13. ASSUME NEW a \in Admins, ReadTopVote(a) PROVE EnableInv'
  <2> DEFINE top == Max(DOMAIN votes)
             r == [NoRequest EXCEPT !.op = "reopen", !.id = top, !.pc = "save",
                                    !.changes = Changes(top, {Set(top, "open", TRUE)})]
  <2>1. r.changes = Changes(top, {Set(top, "open", TRUE)})
    BY DEF NoRequest
  <2>2. Starts(r)
    BY <2>1 DEF Sets, Changes, Set
  <2>3. request' = [request EXCEPT ![a] = NoRequest] \/ request' = [request EXCEPT ![a] = r]
    BY <1>13 DEF ReadTopVote
  <2> QED BY <1>1, <1>4, <2>2, <2>3
<1>14. ASSUME NEW a \in Admins, ReadRows(a) PROVE EnableInv'
  <2> DEFINE rows == {i \in log : posts[i] = request[a].id}
             r == [request[a] EXCEPT !.pc = "save", !.rows = rows]
  <2>1. /\ r.changes = request[a].changes /\ request' = [request EXCEPT ![a] = r]
        /\ r.op = request[a].op /\ r.id = request[a].id /\ r.pc = "save"
    BY <1>14, Types DEF ReadRows, Requests
  <2>2. Starts(r)
    BY <2>1 DEF EnableInv, Sets
  <2> QED BY <1>1, <2>1, <2>2
<1>15. ASSUME NEW a \in Admins, SaveChanges(a) PROVE EnableInv'
  <2> DEFINE r == [NoRequest EXCEPT !.op = "delete", !.pc = "reopen"]
  <2>1. Starts(r)
    BY DEF Sets, NoRequest
  <2>2. request' = [request EXCEPT ![a] = NoRequest] \/ request' = [request EXCEPT ![a] = r]
    BY <1>15 DEF SaveChanges
  <2> QED BY <1>1, <1>4, <2>1, <2>2
<1>16. ASSUME NEW a \in Admins, Fail(a) PROVE EnableInv'
  BY <1>1, <1>4, <1>16 DEF Fail
<1>17. CASE Crash
  BY <1>4, <1>17 DEF Crash, EnableInv
<1>18. ASSUME NEW v \in VoteIds, Post(v) PROVE EnableInv'
  BY <1>2, <1>18 DEF Post
<1>19. ASSUME NEW n \in 1 .. Len(pending), Flush(n) PROVE EnableInv'
  BY <1>2, <1>19 DEF Flush
<1> QED BY <1>3, <1>5, <1>6, <1>7, <1>8, <1>9, <1>10, <1>11, <1>12, <1>13, <1>14, <1>15, <1>16,
           <1>17, <1>18, <1>19 DEF Next

\* What a step does to the flag of a vote that stays.
EnabledStep ==
  \A v \in DOMAIN votes \cap DOMAIN votes' :
    ~votes[v].enabled /\ votes'[v].enabled =>
      \E a \in Admins : request[a].op = "start" /\ request[a].id = v /\ request'[a].pc = "idle"

\* So a vote that becomes enabled does so by the save of a StartVote.
LEMMA EnableStep == TypeInv /\ EnableInv /\ [Next]_vars => [EnabledStep]_vars
<1> SUFFICES ASSUME TypeInv, EnableInv, Next, NEW v \in DOMAIN votes \cap DOMAIN votes',
                    ~votes[v].enabled, votes'[v].enabled
             PROVE  \E a \in Admins : request[a].op = "start" /\ request[a].id = v /\ request'[a].pc = "idle"
  BY DEF EnabledStep
<1>1. ASSUME UNCHANGED votes PROVE FALSE
  BY <1>1
<1>2. ASSUME NEW a \in Admins, SaveChanges(a)
      PROVE  request[a].op = "start" /\ request[a].id = v /\ request'[a].pc = "idle"
  <2> DEFINE r == request[a]
  <2>1. votes' = Saved(r) /\ v \in DOMAIN Saved(r) /\ v # nextId
    BY <1>2, Types DEF SaveChanges
  <2>2. Saved(r)[v] = Row(r, v)
    BY <2>1, SavedRows
  <2>3. Set(v, "enabled", TRUE) \in r.changes
    <3>1. Row(r, v).enabled => \/ Set(v, "enabled", TRUE) \in r.changes
                               \/ votes[v].enabled
      BY Zenon DEF Row, Columns
    <3> QED BY <2>1, <2>2, <3>1
  <2>4. r.op = "start" /\ r.id = v /\ r.pc = "save"
    BY <2>3 DEF EnableInv, Sets
  <2>5. request'[a] = NoRequest
    BY <1>2, <2>4, Types DEF SaveChanges
  <2> QED BY <2>4, <2>5 DEF NoRequest
<1>3. \/ \E a \in Admins : SaveChanges(a)
      \/ UNCHANGED votes
  BY DEF Next, CreateVotingPost, UpdateVotingPost, OpenVote, DelVote, StartVote, EndVote, ResetVote,
         Begin, CloseOthers, ReadTopVote, ReadRows, Fail, Post, Flush, Crash, voteVars
<1> QED BY <1>1, <1>2, <1>3

-----------------------------------------------------------------------------
(* A reset starts its vote over. Until its save, where the vote is enabled *)
(* or expired either the save changes that or a start or an end has been   *)
(* saved since the reset read it; and a row of the vote in the table is    *)
(* among those it deletes or has been written since it read them.          *)

\* Where the flag of a reset's vote is set, it clears it or knows who set it.
Cleared(a, column, op) ==
  LET r == request[a]
  IN r.id \in DOMAIN votes /\ votes[r.id][column] =>
       Set(r.id, column, FALSE) \in r.changes \/ op \in meanwhile[a].saved

Resetting(a) ==
  request[a].op = "reset" =>
    /\ request[a].pc \in {"rows", "save"} /\ request[a].id \in request[a].touches
    /\ Cleared(a, "enabled", "start") /\ Cleared(a, "expired", "end")
    /\ request[a].pc = "save" =>
         {i \in log : posts[i] = request[a].id} \subseteq request[a].rows \cup meanwhile[a].written

ResetInv == \A a \in Admins : Resetting(a)

\* No reset is in progress in the beginning.
LEMMA ResetInit == Init => ResetInv
BY DEF Init, ResetInv, Resetting, NoRequest

\* Other requests, and failures, leave to each reset in progress what it has.
LEMMA ResetKept ==
  ASSUME TypeInv, ResetInv, NEW a \in Admins, NEW r, r.op # "reset",
         request' = [request EXCEPT ![a] = r], UNCHANGED <<votes, posts, log>>,
         \A b \in Admins \ {a} : meanwhile'[b] = meanwhile[b]
  PROVE  ResetInv'
<1>1. request'[a] = r /\ \A b \in Admins \ {a} : request'[b] = request[b]
  BY Types
<1>2. Resetting(a)'
  BY <1>1 DEF Resetting
<1>3. ASSUME NEW b \in Admins \ {a} PROVE Resetting(b)'
  BY <1>1, <1>3 DEF ResetInv, Resetting, Cleared
<1> QED BY <1>2, <1>3 DEF ResetInv

\* A reset that begins changes every flag it finds set.
LEMMA ResetBegins ==
  ASSUME TypeInv, ResetInv, NEW a \in Admins, NEW v \in VoteIds, ResetVote(a, v)
  PROVE  ResetInv'
<1> DEFINE assigned == {Set(v, "enabled", FALSE), Set(v, "expired", FALSE)}
           r == [NoRequest EXCEPT !.op = "reset", !.id = v, !.pc = "rows", !.touches = {v},
                                  !.changes = Changes(v, assigned)]
<1>1. Begin(a, r)
  BY DEF ResetVote
<1>2. r.op = "reset" /\ r.id = v /\ r.pc = "rows" /\ r.touches = {v} /\ r.changes = Changes(v, assigned)
  BY DEF NoRequest
<1>3. \A column \in {"enabled", "expired"} : votes[v][column] => Set(v, column, FALSE) \in Changes(v, assigned)
  BY DEF Changes, Set
<1> HIDE DEF r, assigned
<1>4. /\ request'[a] = r /\ \A b \in Admins \ {a} : request'[b] = request[b]
      /\ UNCHANGED <<votes, posts, log, meanwhile>>
  BY <1>1, Types DEF Begin, voteVars, postVars
<1>5. Resetting(a)'
  BY <1>2, <1>3, <1>4 DEF Resetting, Cleared
<1>6. ASSUME NEW b \in Admins \ {a} PROVE Resetting(b)'
  BY <1>4, <1>6 DEF ResetInv, Resetting, Cleared
<1> QED BY <1>5, <1>6 DEF ResetInv

\* The rows a reset reads are all there are of its vote.
LEMMA ResetReads ==
  ASSUME TypeInv, ResetInv, NEW a \in Admins, ReadRows(a)
  PROVE  ResetInv'
<1> DEFINE rows == {i \in log : posts[i] = request[a].id}
           r == [request[a] EXCEPT !.pc = "save", !.rows = rows]
<1>1. request' = [request EXCEPT ![a] = r] /\ UNCHANGED <<votes, posts, log>>
  BY Types DEF ReadRows, voteVars, postVars
<1>2. /\ r.op = request[a].op /\ r.id = request[a].id /\ r.pc = "save" /\ r.rows = rows
      /\ r.changes = request[a].changes /\ r.touches = request[a].touches
  BY Types DEF Requests
<1>3. meanwhile'[a].saved = meanwhile[a].saved /\ \A b \in Admins \ {a} : meanwhile'[b] = meanwhile[b]
  BY Types DEF ReadRows, Meanwhiles
<1> HIDE DEF r
<1>4. request'[a] = r /\ \A b \in Admins \ {a} : request'[b] = request[b]
  BY <1>1, Types
<1>5. Resetting(a)'
  <2>1. SUFFICES ASSUME request[a].op = "reset" PROVE Resetting(a)'
    BY <1>2, <1>4 DEF Resetting
  <2>2. /\ request[a].id \in request[a].touches
        /\ Cleared(a, "enabled", "start") /\ Cleared(a, "expired", "end")
    BY <2>1 DEF ResetInv, Resetting
  <2>3. Cleared(a, "enabled", "start")' /\ Cleared(a, "expired", "end")'
    BY <1>1, <1>2, <1>3, <1>4, <2>2 DEF Cleared
  <2>4. {i \in log' : posts'[i] = request'[a].id} = request'[a].rows
    BY <1>1, <1>2, <1>4
  <2> QED BY <1>2, <1>4, <2>2, <2>3, <2>4 DEF Resetting
<1>6. ASSUME NEW b \in Admins \ {a} PROVE Resetting(b)'
  BY <1>1, <1>3, <1>4, <1>6 DEF ResetInv, Resetting, Cleared
<1> QED BY <1>5, <1>6 DEF ResetInv

\* What a save does to a flag of a vote there was before: only a start enables, only an end
\* expires, and what the save changes to FALSE is FALSE.
LEMMA FlagSaved ==
  ASSUME TypeInv, EnableInv, NEW a \in Admins, SaveChanges(a), NEW v \in DOMAIN votes', v < nextId,
         NEW column, NEW op, (column = "enabled" /\ op = "start") \/ (column = "expired" /\ op = "end"),
         votes'[v][column]
  PROVE  /\ v \in DOMAIN votes
         /\ \/ request[a].op = op /\ request[a].id = v
            \/ votes[v][column] /\ Set(v, column, FALSE) \notin request[a].changes
<1> DEFINE r == request[a]
<1>1. votes' = Saved(r) /\ v # nextId
  BY Types DEF SaveChanges
<1>2. v \in DOMAIN votes /\ Saved(r)[v] = Row(r, v)
  BY <1>1, SavedRows
<1>3. column \in Columns
  BY DEF Columns
<1>4. Row(r, v)[column] = IF Set(v, column, TRUE) \in r.changes THEN TRUE
                          ELSE IF Set(v, column, FALSE) \in r.changes THEN FALSE ELSE votes[v][column]
  BY <1>3, Zenon DEF Row
<1>5. Sets(r, v, column, op)
  BY DEF EnableInv
<1> QED BY <1>1, <1>2, <1>4, <1>5 DEF Sets

\* A save by another request leaves a reset's flags cleared by it, or tells it who set them.
LEMMA FlagNoticed ==
  ASSUME TypeInv, EnableInv, NEW a \in Admins, SaveChanges(a), NEW b \in Admins \ {a},
         request[b].op = "reset",
         NEW column, NEW op, (column = "enabled" /\ op = "start") \/ (column = "expired" /\ op = "end"),
         Cleared(b, column, op)
  PROVE  Cleared(b, column, op)'
<1> DEFINE v == request[b].id
<1>1. request'[b] = request[b] /\ v < nextId
  BY Types DEF SaveChanges
<1>2. meanwhile'[b] = IF request[a].id = v
                      THEN [meanwhile[b] EXCEPT !.saved = @ \cup ({request[a].op} \cap {"start", "end"})]
                      ELSE meanwhile[b]
  BY DEF SaveChanges, Noticed
<1>3. /\ meanwhile[b].saved \subseteq meanwhile'[b].saved
      /\ request[a].id = v /\ request[a].op \in {"start", "end"} => request[a].op \in meanwhile'[b].saved
  <2>1. \A m \in Meanwhiles : \A S : [m EXCEPT !.saved = @ \cup S].saved = m.saved \cup S
    BY DEF Meanwhiles
  <2>2. meanwhile'[b].saved = IF request[a].id = v
                              THEN meanwhile[b].saved \cup ({request[a].op} \cap {"start", "end"})
                              ELSE meanwhile[b].saved
    BY <1>2, <2>1, Types
  <2> QED BY <2>2
<1>4. SUFFICES ASSUME v \in DOMAIN votes', votes'[v][column]
               PROVE  Set(v, column, FALSE) \in request[b].changes \/ op \in meanwhile'[b].saved
  BY <1>1 DEF Cleared
<1>5. v \in DOMAIN votes /\ ((request[a].op = op /\ request[a].id = v) \/ votes[v][column])
  <2> HIDE DEF v
  <2> QED BY <1>1, <1>4, FlagSaved
<1> QED BY <1>3, <1>5 DEF Cleared

\* A save keeps what the other resets have.
LEMMA ResetOthersSave ==
  ASSUME TypeInv, EnableInv, ResetInv, NEW a \in Admins, SaveChanges(a)
  PROVE  ResetInv'
<1> DEFINE next == IF request[a].pc = "saveThenReopen"
                   THEN [NoRequest EXCEPT !.op = "delete", !.pc = "reopen"] ELSE NoRequest
<1>1. next.op # "reset"
  BY DEF NoRequest
<1>2. request' = [request EXCEPT ![a] = next] /\ log' \subseteq log /\ UNCHANGED posts
  BY DEF SaveChanges
<1> HIDE DEF next
<1>3. request'[a] = next /\ \A b \in Admins \ {a} : request'[b] = request[b]
  BY <1>2, Types
<1>4. Resetting(a)'
  BY <1>1, <1>3 DEF Resetting
<1>5. ASSUME NEW b \in Admins \ {a} PROVE Resetting(b)'
  <2> SUFFICES ASSUME request[b].op = "reset" PROVE Resetting(b)'
    BY <1>3 DEF Resetting
  <2>1. /\ request[b].pc \in {"rows", "save"} /\ request[b].id \in request[b].touches
        /\ Cleared(b, "enabled", "start") /\ Cleared(b, "expired", "end")
        /\ request[b].pc = "save" =>
             {i \in log : posts[i] = request[b].id} \subseteq request[b].rows \cup meanwhile[b].written
    BY DEF ResetInv, Resetting
  <2>2. Cleared(b, "enabled", "start")' /\ Cleared(b, "expired", "end")'
    <3>1. Cleared(b, "enabled", "start")'
      BY <2>1, FlagNoticed
    <3>2. Cleared(b, "expired", "end")'
      BY <2>1, FlagNoticed
    <3> QED BY <3>1, <3>2
  <2>3. meanwhile'[b].written = meanwhile[b].written
    BY Types DEF SaveChanges, Noticed, Meanwhiles
  <2> QED BY <1>2, <1>3, <2>1, <2>2, <2>3 DEF Resetting
<1> QED BY <1>4, <1>5 DEF ResetInv

\* A flush tells the resets in progress what it writes.
LEMMA ResetFlushed ==
  ASSUME TypeInv, ResetInv, NEW n \in 1 .. Len(pending), Flush(n)
  PROVE  ResetInv'
<1> DEFINE new == {pending[i] : i \in 1 .. n}
<1> SUFFICES ASSUME NEW a \in Admins, request[a].op = "reset" PROVE Resetting(a)'
  BY DEF ResetInv, Resetting, Flush
<1>1. log' = log \cup new /\ UNCHANGED <<votes, posts, request>>
  BY DEF Flush, voteVars
<1>2. meanwhile'[a] = [meanwhile[a] EXCEPT !.written = @ \cup new]
  BY DEF Flush
<1>3. meanwhile'[a].saved = meanwhile[a].saved /\ meanwhile'[a].written = meanwhile[a].written \cup new
  BY <1>2, Types DEF Meanwhiles
<1> HIDE DEF new
<1> QED BY <1>1, <1>3 DEF ResetInv, Resetting, Cleared

\* Every step keeps it.
LEMMA ResetNext == TypeInv /\ EnableInv /\ ResetInv /\ [Next]_vars => ResetInv'
<1> SUFFICES ASSUME TypeInv, EnableInv, ResetInv, [Next]_vars PROVE ResetInv'
  OBVIOUS
<1>1. CASE UNCHANGED vars
  BY <1>1 DEF vars, voteVars, postVars, historyVars, ResetInv, Resetting, Cleared
<1>2. ASSUME NEW a \in Admins, NEW r, Begin(a, r), r.op # "reset" PROVE ResetInv'
  BY <1>2, ResetKept DEF Begin, voteVars, postVars
<1>3. ASSUME NEW a \in Admins, CreateVotingPost(a) PROVE ResetInv'
  <2> DEFINE r == [NoRequest EXCEPT !.op = "create", !.pc = "save", !.changes = CloseOpenVotes({})]
  <2>1. r.op = "create"
    BY DEF NoRequest
  <2> QED BY <1>2, <1>3, <2>1 DEF CreateVotingPost
<1>4. ASSUME NEW a \in Admins, NEW v \in VoteIds, UpdateVotingPost(a, v) PROVE ResetInv'
  <2>1. PICK t \in {{}, {v}} :
          Begin(a, [NoRequest EXCEPT !.op = "update", !.id = v, !.pc = "others", !.touches = t,
                                     !.changes = Changes(v, {Set(v, "open", TRUE)})])
    BY <1>4 DEF UpdateVotingPost
  <2> DEFINE r == [NoRequest EXCEPT !.op = "update", !.id = v, !.pc = "others", !.touches = t,
                                    !.changes = Changes(v, {Set(v, "open", TRUE)})]
  <2>2. r.op = "update"
    BY DEF NoRequest
  <2> QED BY <1>2, <2>1, <2>2
<1>5. ASSUME NEW a \in Admins, NEW v \in VoteIds, OpenVote(a, v) PROVE ResetInv'
  <2> DEFINE r == [NoRequest EXCEPT !.op = "open", !.id = v, !.pc = "others",
                                    !.changes = Changes(v, {Set(v, "open", TRUE)})]
  <2>1. r.op = "open"
    BY DEF NoRequest
  <2> QED BY <1>2, <1>5, <2>1 DEF OpenVote
<1>6. ASSUME NEW a \in Admins, NEW v \in VoteIds, DelVote(a, v) PROVE ResetInv'
  <2> DEFINE r == [NoRequest EXCEPT !.op = "delete", !.id = v, !.touches = {v},
                                    !.pc = IF votes[v].open THEN "saveThenReopen" ELSE "save"]
  <2>1. r.op = "delete"
    BY DEF NoRequest
  <2> QED BY <1>2, <1>6, <2>1 DEF DelVote
<1>7. ASSUME NEW a \in Admins, NEW v \in VoteIds, StartVote(a, v) PROVE ResetInv'
  <2> DEFINE r == [NoRequest EXCEPT !.op = "start", !.id = v, !.pc = "save",
                                    !.changes = Changes(v, {Set(v, "enabled", TRUE)})]
  <2>1. r.op = "start"
    BY DEF NoRequest
  <2> QED BY <1>2, <1>7, <2>1 DEF StartVote
<1>8. ASSUME NEW a \in Admins, NEW v \in VoteIds, EndVote(a, v) PROVE ResetInv'
  <2> DEFINE r == [NoRequest EXCEPT !.op = "end", !.id = v, !.pc = "save",
                     !.changes = Changes(v, {Set(v, "enabled", FALSE), Set(v, "expired", TRUE)})]
  <2>1. r.op = "end"
    BY DEF NoRequest
  <2> QED BY <1>2, <1>8, <2>1 DEF EndVote
<1>9. ASSUME NEW a \in Admins, CloseOthers(a) PROVE ResetInv'
  <2> DEFINE r == [request[a] EXCEPT !.pc = "save", !.changes = CloseOpenVotes(@)]
  <2>1. request' = [request EXCEPT ![a] = r] /\ r.op = request[a].op /\ request[a].pc = "others"
    BY <1>9, Types DEF CloseOthers, Requests
  <2>2. request[a].op # "reset"
    BY <2>1 DEF ResetInv, Resetting
  <2> HIDE DEF r
  <2> QED BY <1>9, <2>1, <2>2, ResetKept DEF CloseOthers, voteVars, postVars, historyVars
<1>10. ASSUME NEW a \in Admins, ReadTopVote(a) PROVE ResetInv'
  <2> DEFINE top == Max(DOMAIN votes)
             r == [NoRequest EXCEPT !.op = "reopen", !.id = top, !.pc = "save",
                                    !.changes = Changes(top, {Set(top, "open", TRUE)})]
  <2>1. r.op = "reopen" /\ NoRequest.op = "none"
    BY DEF NoRequest
  <2>2. request' = [request EXCEPT ![a] = NoRequest] \/ request' = [request EXCEPT ![a] = r]
    BY <1>10 DEF ReadTopVote
  <2> HIDE DEF r
  <2> QED BY <1>10, <2>1, <2>2, ResetKept DEF ReadTopVote, voteVars, postVars, historyVars
<1>11. ASSUME NEW a \in Admins, Fail(a) PROVE ResetInv'
  <2>1. NoRequest.op # "reset" /\ \A b \in Admins \ {a} : meanwhile'[b] = meanwhile[b]
    BY <1>11, Types DEF Fail, NoRequest
  <2> QED BY <1>11, <2>1, ResetKept DEF Fail, voteVars, postVars
<1>12. ASSUME NEW v \in VoteIds, Post(v) PROVE ResetInv'
  <2>1. /\ posts' = Append(posts, v) /\ \A i \in log : posts'[i] = posts[i]
        /\ UNCHANGED <<votes, log, request, meanwhile>>
    BY <1>12, Types, AppendProperties DEF Post, voteVars, historyVars
  <2> QED BY <2>1 DEF ResetInv, Resetting, Cleared
<1>13. CASE Crash
  BY <1>13 DEF Crash, NoRequest, ResetInv, Resetting
<1> QED BY <1>1, <1>3, <1>4, <1>5, <1>6, <1>7, <1>8, <1>9, <1>10, <1>11, <1>12, <1>13,
           ResetBegins, ResetReads, ResetOthersSave, ResetFlushed DEF Next

\* So the save of a reset leaves its vote as good as new, but for what it has noticed.
LEMMA ResetSaves == TypeInv /\ EnableInv /\ ResetInv /\ [Next]_vars => [StartedOver]_vars
<1> SUFFICES ASSUME TypeInv, EnableInv, ResetInv, NEW a \in Admins, request[a].op = "reset", SaveChanges(a)
             PROVE  /\ votes'[request[a].id].enabled => "start" \in meanwhile[a].saved
                    /\ votes'[request[a].id].expired => "end" \in meanwhile[a].saved
                    /\ {i \in log' : posts[i] = request[a].id} \subseteq meanwhile[a].written
  BY DEF StartedOver
<1> DEFINE v == request[a].id
<1>1. /\ request[a].pc = "save" /\ Cleared(a, "enabled", "start") /\ Cleared(a, "expired", "end")
      /\ {i \in log : posts[i] = v} \subseteq request[a].rows \cup meanwhile[a].written
  BY DEF ResetInv, Resetting, SaveChanges, Saving
<1>2. log' = log \ request[a].rows
  BY DEF SaveChanges
<1>3. v \in DOMAIN votes /\ v < nextId
  BY Types DEF ResetInv, Resetting, SaveChanges, Rows
<1>4. v \in DOMAIN votes'
  BY <1>3, SavedRows DEF SaveChanges
<1>5. ASSUME NEW column, NEW op, (column = "enabled" /\ op = "start") \/ (column = "expired" /\ op = "end"),
             votes'[v][column], Cleared(a, column, op)
      PROVE  op \in meanwhile[a].saved
  <2>1. op \in {"start", "end"}
    BY <1>5
  <2>2. votes[v][column] /\ Set(v, column, FALSE) \notin request[a].changes
    BY <1>3, <1>4, <1>5, <2>1, FlagSaved
  <2> QED BY <1>3, <1>5, <2>2 DEF Cleared
<1>6. votes'[v]["enabled"] => "start" \in meanwhile[a].saved
  BY <1>1, <1>5
<1>7. votes'[v]["expired"] => "end" \in meanwhile[a].saved
  BY <1>1, <1>5
<1>8. {i \in log' : posts[i] = v} \subseteq meanwhile[a].written
  BY <1>1, <1>2
<1> QED BY <1>6, <1>7, <1>8

-----------------------------------------------------------------------------
(* The theorems.                                                           *)

\* Every behaviour is well typed; among others no request is about an Id not given yet.
THEOREM VotesTyped == Spec => []TypeInv
BY TypeInit, TypeNext, PTL DEF Spec

\* The same, for the type invariant that the runs check.
THEOREM VotesTypeCorrect == Spec => []TypeOK
<1>1. TypeInv => TypeOK
  BY DEF TypeInv
<1> QED BY <1>1, VotesTyped, PTL

\* Administrators that work one at a time never leave two votes open, whatever they
\* request, wherever a handler fails and whenever the process dies.
THEOREM OneOpenVote == Spec => []AtMostOneOpen
<1>1. Spec => []OpenInv
  <2>1. Init => OpenInv
    BY OpenInit
  <2>2. TypeInv /\ OpenInv /\ [Next]_vars => OpenInv'
    BY OpenNext
  <2> QED BY <2>1, <2>2, VotesTyped, PTL DEF Spec
<1>2. OpenInv => AtMostOneOpen
  <2> SUFFICES ASSUME OpenInv, ~overlapped PROVE Cardinality(OpenVotes) <= 1
    BY DEF AtMostOneOpen
  <2>1. \A v, w \in OpenVotes : v = w
    BY DEF OpenInv, AtMostOne
  <2>2. OpenVotes = {} \/ \E v : OpenVotes = {v}
    BY <2>1
  <2>3. \A v : Cardinality({v}) = 1
    BY FS_Singleton
  <2>4. Cardinality({}) = 0
    BY FS_EmptySet
  <2>5. 0 <= 1 /\ 1 <= 1
    OBVIOUS
  <2> QED BY <2>2, <2>3, <2>4, <2>5, Zenon
<1> QED BY <1>1, <1>2, PTL

\* Only a StartVote ever sets IsEnable, only an EndVote Expired.
THEOREM EnabledBySets == Spec => []EnableInv
BY EnableInit, EnableNext, VotesTyped, PTL DEF Spec

\* A stopped vote starts only by the save of a StartVote of that vote, however the requests
\* overlap.
THEOREM StartedByStart == Spec => EnabledByStart
<1>1. Spec => []EnableInv
  BY EnabledBySets
<1>2. TypeInv /\ EnableInv /\ [Next]_vars => [EnabledStep]_vars
  BY EnableStep
<1>3. Spec => [][EnabledStep]_vars
  BY <1>1, <1>2, VotesTyped, PTL DEF Spec
<1> QED BY <1>3 DEF EnabledStep, EnabledByStart

\* A reset leaves its vote as good as new, but for what was started, ended or written while
\* it was in progress, however many requests and flushes cross it.
THEOREM ResetsStartOver == Spec => ResetStartsOver
<1>1. Spec => []ResetInv
  BY ResetInit, ResetNext, VotesTyped, EnabledBySets, PTL DEF Spec
<1>2. TypeInv /\ EnableInv /\ ResetInv /\ [Next]_vars => [StartedOver]_vars
  BY ResetSaves
<1>3. Spec => [][StartedOver]_vars
  BY <1>1, <1>2, VotesTyped, EnabledBySets, PTL DEF Spec
<1> QED BY <1>3 DEF ResetStartsOver
=============================================================================
