--------------------------- MODULE VoteLifecycle ---------------------------
(***************************************************************************)
(* The administrators' requests on the table of votes (GameController.cs,  *)
(* VoteController.cs) and the votes that phones post meanwhile.            *)
(*                                                                         *)
(* A request reads rows, assigns their properties and saves, with a        *)
(* DbContext of its own. Entity Framework updates the columns whose value  *)
(* differs from the one read, all in one transaction, which fails if a row *)
(* it updates or deletes is gone. So a request keeps from its reads to its *)
(* save the set of its changes; what others save in between stays.         *)
(* A posted row waits in the memory of the process until DbOperationMngr   *)
(* writes it (AsyncWriter states what that promises).                      *)
(***************************************************************************)
EXTENDS Naturals, Sequences, SequencesExt, FiniteSetsExt

CONSTANTS
  Admins,     \* the requests that may be in progress at once
  MaxVotes,   \* bound of the model: how many votes are ever created
  MaxPosts    \* bound of the model: how many rows phones ever post

ASSUME ConstantsOK == MaxVotes \in Nat /\ MaxPosts \in Nat

VARIABLES
  votes,      \* the table VoteInfo: a record for every Id that has a row
  nextId,     \* its AUTO_INCREMENT
  request,    \* the administrators' requests
  posts,      \* the VoteId of every row of VoteLog ever posted
  pending,    \* the posted rows that wait to be written
  log,        \* the table VoteLog
  overlapped, \* history: two requests have been in progress at once
  meanwhile   \* history: what happened to a reset's vote while the reset is in progress

voteVars == <<votes, nextId>>
postVars == <<posts, pending, log>>
historyVars == <<overlapped, meanwhile>>
vars == <<voteVars, request, postVars, historyVars>>

Columns == {"open", "enabled", "expired"}   \* IsOpen, IsEnable, Expired
VoteIds == 1 .. MaxVotes
Change == [vote : VoteIds, column : Columns, value : BOOLEAN]
Set(v, column, value) == [vote |-> v, column |-> column, value |-> value]

\* A request: changes are those its save will make, rows the rows of VoteLog it deletes,
\* touches the vote whose row it updates in columns the model leaves out.
NoRequest == [op |-> "none", id |-> 0, pc |-> "idle", changes |-> {}, rows |-> {}, touches |-> {}]

\* The requests on the reset's vote saved since it read the vote, and the rows of VoteLog
\* written since it read those (of any vote).
Nothing == [saved |-> {}, written |-> {}]

Init ==
  /\ votes = << >> /\ nextId = 1
  /\ request = [a \in Admins |-> NoRequest]
  /\ posts = <<>> /\ pending = <<>> /\ log = {}
  /\ overlapped = FALSE /\ meanwhile = [a \in Admins |-> Nothing]

Exists(v) == v \in DOMAIN votes
OpenVotes == {v \in DOMAIN votes : votes[v].open}

\* The changes that make a vote's columns these values: none where they are so already.
Changes(v, assigned) == {c \in assigned : votes[v][c.column] # c.value}

\* "foreach (var item in otherOpenVote) item.IsOpen = false", the query run against the
\* database: it returns the request's own vote too if that is open there, and an own
\* IsOpen = true not saved yet is taken back.
CloseOpenVotes(changes) ==
  {c \in changes : ~(c.column = "open" /\ c.vote \in OpenVotes)}
  \cup {Set(v, "open", FALSE) : v \in {w \in OpenVotes : Set(w, "open", TRUE) \notin changes}}

\* Request a begins: its handler runs to the first change of its DbContext.
Begin(a, r) ==
  /\ request[a].pc = "idle"
  /\ request' = [request EXCEPT ![a] = r]
  /\ overlapped' = (overlapped \/ \E b \in Admins \ {a} : request[b].pc # "idle")
  /\ UNCHANGED <<voteVars, postVars, meanwhile>>

-----------------------------------------------------------------------------
(* Mutated forms of definitions below.                                     *)

\* The other votes are not closed.
MutantCreateVotingPost(a) == Begin(a, [NoRequest EXCEPT !.op = "create", !.pc = "save"])

\* dbContext.Update(trackVoteInfo), as line 325 once did: every column is written.
MutantUpdateVotingPost(a, v) ==
  /\ Exists(v)
  /\ Begin(a, [NoRequest EXCEPT !.op = "update", !.id = v, !.pc = "others", !.touches = {v},
       !.changes = {Set(v, column, votes[v][column] \/ column = "open") : column \in Columns}])

\* Not the vote before the deleted one, but the one after it.
MutantReadTopVote(a) ==
  /\ request[a].pc = "reopen"
  /\ request' = [request EXCEPT ![a] =
       IF DOMAIN votes = {} THEN NoRequest
       ELSE LET top == Max(DOMAIN votes) + 1
            IN [NoRequest EXCEPT !.op = "reopen", !.id = top, !.pc = "save",
                                 !.changes = {Set(top, "open", TRUE)}]]
  /\ UNCHANGED <<voteVars, postVars, historyVars>>

-----------------------------------------------------------------------------
(* The requests. A request on an Id without a row ends at its first read,  *)
(* in a NullReferenceException, and is no step here.                       *)

\* The new row (IsOpen true by default) is written by the save.
CreateVotingPost(a) ==
  Begin(a, [NoRequest EXCEPT !.op = "create", !.pc = "save", !.changes = CloseOpenVotes({})])

\* VoteEdit.cshtml posts no IsOpen, so that of the bound VoteInfo is true: line 317 holds.
\* The rest of the posted data may differ from the row's or not.
UpdateVotingPost(a, v) ==
  /\ Exists(v)
  /\ \E t \in {{}, {v}} :
       Begin(a, [NoRequest EXCEPT !.op = "update", !.id = v, !.pc = "others", !.touches = t,
                                  !.changes = Changes(v, {Set(v, "open", TRUE)})])

OpenVote(a, v) ==
  /\ Exists(v)
  /\ Begin(a, [NoRequest EXCEPT !.op = "open", !.id = v, !.pc = "others",
                                !.changes = Changes(v, {Set(v, "open", TRUE)})])

\* The second read of UpdateVotingPost and OpenVote.
CloseOthers(a) ==
  /\ request[a].pc = "others"
  /\ request' = [request EXCEPT ![a].pc = "save", ![a].changes = CloseOpenVotes(@)]
  /\ UNCHANGED <<voteVars, postVars, historyVars>>

\* The save of the vote's options changes nothing here.
DelVote(a, v) ==
  /\ Exists(v)
  /\ Begin(a, [NoRequest EXCEPT !.op = "delete", !.id = v, !.touches = {v},
       !.pc = IF votes[v].open THEN "saveThenReopen" ELSE "save"])

\* DelVote of an open vote reads the vote with the greatest Id to open it: an exception if
\* there is none.
ReadTopVote(a) ==
  /\ request[a].pc = "reopen"
  /\ request' = [request EXCEPT ![a] =
       IF DOMAIN votes = {} THEN NoRequest
       ELSE LET top == Max(DOMAIN votes)
            IN [NoRequest EXCEPT !.op = "reopen", !.id = top, !.pc = "save",
                                 !.changes = Changes(top, {Set(top, "open", TRUE)})]]
  /\ UNCHANGED <<voteVars, postVars, historyVars>>

\* CloseSeconds and EnableStartTime touch no other row: a save that fails for them alone
\* is one that changes nothing.
StartVote(a, v) ==
  /\ Exists(v)
  /\ Begin(a, [NoRequest EXCEPT !.op = "start", !.id = v, !.pc = "save",
       !.changes = Changes(v, {Set(v, "enabled", TRUE)})])

EndVote(a, v) ==
  /\ Exists(v)
  /\ Begin(a, [NoRequest EXCEPT !.op = "end", !.id = v, !.pc = "save",
       !.changes = Changes(v, {Set(v, "enabled", FALSE), Set(v, "expired", TRUE)})])

\* EnableTime is always another.
ResetVote(a, v) ==
  /\ Exists(v)
  /\ Begin(a, [NoRequest EXCEPT !.op = "reset", !.id = v, !.pc = "rows", !.touches = {v},
       !.changes = Changes(v, {Set(v, "enabled", FALSE), Set(v, "expired", FALSE)})])

\* RemoveRange runs the query of the vote's rows in the database.
ReadRows(a) ==
  /\ request[a].pc = "rows"
  /\ request' = [request EXCEPT ![a].pc = "save",
                                ![a].rows = {i \in log : posts[i] = request[a].id}]
  /\ meanwhile' = [meanwhile EXCEPT ![a].written = {}]
  /\ UNCHANGED <<voteVars, postVars, overlapped>>

Saving(a) == request[a].pc \in {"save", "saveThenReopen"}
Rows(r) == {c.vote : c \in r.changes} \cup r.touches

\* What a transaction leaves of the table.
Saved(r) ==
  LET new == IF r.op = "create" THEN {nextId} ELSE {}
      kept == IF r.op = "delete" THEN DOMAIN votes \ {r.id} ELSE DOMAIN votes
      blank == [column \in Columns |-> column = "open"]
  IN [v \in kept \cup new |->
        IF v \in new THEN blank
        ELSE [column \in Columns |->
                IF Set(v, column, TRUE) \in r.changes THEN TRUE
                ELSE IF Set(v, column, FALSE) \in r.changes THEN FALSE
                ELSE votes[v][column]]]

\* What the resets in progress learn of the save of request a.
Noticed(a) ==
  [b \in Admins |->
     IF b = a THEN Nothing
     ELSE IF request[b].op = "reset" /\ request[b].id = request[a].id
          THEN [meanwhile[b] EXCEPT !.saved = @ \cup ({request[a].op} \cap {"start", "end"})]
          ELSE meanwhile[b]]

SaveChanges(a) ==
  LET r == request[a]
  IN /\ Saving(a)
     /\ Rows(r) \subseteq DOMAIN votes /\ r.rows \subseteq log
     /\ r.op = "create" => nextId <= MaxVotes
     /\ votes' = Saved(r)
     /\ nextId' = IF r.op = "create" THEN nextId + 1 ELSE nextId
     /\ log' = log \ r.rows
     /\ request' = [request EXCEPT ![a] = IF r.pc = "saveThenReopen"
                                          THEN [NoRequest EXCEPT !.op = "delete", !.pc = "reopen"]
                                          ELSE NoRequest]
     /\ meanwhile' = Noticed(a)
     /\ UNCHANGED <<posts, pending, overlapped>>

\* The handler ends in an exception: DbUpdateConcurrencyException, no connection, ...
Fail(a) ==
  /\ request[a].pc # "idle"
  /\ request' = [request EXCEPT ![a] = NoRequest]
  /\ meanwhile' = [meanwhile EXCEPT ![a] = Nothing]
  /\ UNCHANGED <<voteVars, postVars, overlapped>>

-----------------------------------------------------------------------------
\* VoteController.Post checks nothing: the vote may be closed, ended or deleted by now.
Post(v) ==
  /\ Len(posts) < MaxPosts
  /\ v < nextId
  /\ posts' = Append(posts, v)
  /\ pending' = Append(pending, Len(posts) + 1)
  /\ UNCHANGED <<voteVars, request, log, historyVars>>

\* AsyncWriter's Persist: a tick of DbOperationMngr writes the n oldest rows.
Flush(n) ==
  /\ log' = log \cup {pending[i] : i \in 1 .. n}
  /\ pending' = SubSeq(pending, n + 1, Len(pending))
  /\ meanwhile' = [a \in Admins |->
       IF request[a].op = "reset"
       THEN [meanwhile[a] EXCEPT !.written = @ \cup {pending[i] : i \in 1 .. n}]
       ELSE meanwhile[a]]
  /\ UNCHANGED <<voteVars, request, posts, overlapped>>

\* The process dies between any two steps: queued rows and requests are gone.
Crash ==
  /\ pending' = <<>>
  /\ request' = [a \in Admins |-> NoRequest]
  /\ meanwhile' = [a \in Admins |-> Nothing]
  /\ UNCHANGED <<voteVars, posts, log, overlapped>>

Next ==
  \/ \E a \in Admins :
       \/ CreateVotingPost(a)
       \/ \E v \in VoteIds :
            \/ UpdateVotingPost(a, v) \/ OpenVote(a, v) \/ DelVote(a, v)
            \/ StartVote(a, v) \/ EndVote(a, v) \/ ResetVote(a, v)
       \/ CloseOthers(a) \/ ReadTopVote(a) \/ ReadRows(a) \/ SaveChanges(a) \/ Fail(a)
  \/ \E v \in VoteIds : Post(v)
  \/ \E n \in 1 .. Len(pending) : Flush(n)
  \/ Crash

Spec == Init /\ [][Next]_vars

-----------------------------------------------------------------------------
(* Properties. *)

TypeOK ==
  /\ DOMAIN votes \subseteq 1 .. nextId - 1
  /\ \A v \in DOMAIN votes : votes[v] \in [Columns -> BOOLEAN]
  /\ nextId \in 1 .. MaxVotes + 1
  /\ request \in [Admins ->
       [op : {"none", "create", "update", "open", "delete", "reopen", "start", "end", "reset"},
        id : {0} \cup VoteIds,
        pc : {"idle", "others", "rows", "reopen", "save", "saveThenReopen"},
        changes : SUBSET Change, rows : SUBSET DOMAIN posts, touches : SUBSET VoteIds]]
  /\ \A a \in Admins : request[a].id < nextId
  /\ posts \in Seq(VoteIds)
  /\ ToSet(pending) \cup log \subseteq DOMAIN posts
  /\ overlapped \in BOOLEAN
  /\ meanwhile \in [Admins -> [saved : SUBSET {"start", "end"}, written : SUBSET DOMAIN posts]]

\* Phones are shown the open vote, so there must not be two. As long as administrators work
\* one at a time there are not, through every sequence of requests, failures between the
\* saves of one, and deaths of the process.
AtMostOneOpen == ~overlapped => Cardinality(OpenVotes) <= 1

\* A stopped vote does not start again behind the administrator's back: IsEnable becomes
\* true only by the save of a StartVote, whatever another request read before the vote was
\* ended or reset and saves after it.
EnabledByStart == [][
  \A v \in DOMAIN votes \cap DOMAIN votes' :
    ~votes[v].enabled /\ votes'[v].enabled =>
      \E a \in Admins : request[a].op = "start" /\ request[a].id = v /\ request'[a].pc = "idle"]_vars

\* A reset answers with success when its save is done, long after its reads; others save and
\* rows are written in between. The vote it leaves is as good as new but for that: enabled
\* only by a StartVote, expired only by an EndVote saved since the reset read the vote, and
\* with no row in the table but those written since it read the rows. Queued rows outlive it.
StartedOver ==
  \A a \in Admins : request[a].op = "reset" /\ SaveChanges(a) =>
    /\ votes'[request[a].id].enabled => "start" \in meanwhile[a].saved
    /\ votes'[request[a].id].expired => "end" \in meanwhile[a].saved
    /\ {i \in log' : posts[i] = request[a].id} \subseteq meanwhile[a].written
ResetStartsOver == [][StartedOver]_vars
=============================================================================
