---------------------------- MODULE Jdly_proofs ----------------------------
(***************************************************************************)
(* Proofs about Jdly, for any employees, quizzes, photos and lengths of a  *)
(* quiz, as long as one of these is the longest.                           *)
(***************************************************************************)
EXTENDS Jdly, SequenceLemmas

-----------------------------------------------------------------------------
(* The inductive invariant. TypeOK bounds the countdown only if the ages   *)
(* and lengths it is computed from are bounded, in the table and in the    *)
(* cache, and if there is a newest quiz. NoPartialAnswers needs the same   *)
(* of the answers under way, and that a page knows the Id of its quiz      *)
(* exactly when it has photos. ThanksMeansDone needs that the server       *)
(* acknowledges only what it has taken, and CurrentInv: what is read of a  *)
(* quiz that nobody starts or clears ages with the table, in the cache and *)
(* on the pages, whose countdown is one second behind while it is due.     *)

Lengths == {0} \cup Seconds
Question == [enabled : BOOLEAN, age : 0 .. Old, secs : Lengths]
Cached == [JdlyId : Quizzes, age : 0 .. Old, secs : Lengths, current : BOOLEAN]
Answers == [JdlyId : {0} \cup Quizzes, UserCode : Employees, chosen : 0 .. Options]
Waiting == [st : {"sent", "lost"}, JdlyId : {0}, left : {0}, chosen : {0}, due : {FALSE},
            current : {FALSE}]
Failed == [st : {"running"}, JdlyId : {0}, left : {NaN}, chosen : {0}, due : BOOLEAN, current : {FALSE}]
Running == [st : {"running"}, JdlyId : Quizzes, left : -Old .. Max(Seconds), chosen : 0 .. Options,
            due : BOOLEAN, current : BOOLEAN]

\* Complete, or posted by a page that has no photos.
Whole(r) == IF r.JdlyId = 0 THEN r.chosen = 0 ELSE r.chosen = Options

TableInv ==
  /\ DOMAIN question \subseteq Quizzes
  /\ \E newest \in DOMAIN question : \A q \in DOMAIN question : q <= newest
  /\ \A q \in DOMAIN question : question[q] \in Question
  /\ cache \in Seq(Cached)

PhoneInv ==
  /\ page \in [Employees -> {"none", "index", "vote", "thanks"}]
  /\ check \in [Employees -> {"none", "sent", "lost", "refused", "admitted"}]
  /\ view \in [Employees -> {NoView} \cup Waiting \cup Failed \cup Running]
  /\ post \in [Employees -> [sent : SUBSET Answers, acknowledged : BOOLEAN]]
  /\ \A e \in Employees : page[e] = "vote" <=> view[e] # NoView

AnswersInv ==
  /\ \A r \in queued \cup rows : Whole(r)
  /\ \A e \in Employees : \A r \in post[e].sent : Whole(r)
  /\ \A e \in Employees : post[e].acknowledged => e \in taken

\* What is cached is what the table says, if it is current.
SameAge(c) ==
  c.current => /\ c.JdlyId \in DOMAIN question
               /\ c.age = question[c.JdlyId].age /\ c.secs = question[c.JdlyId].secs

\* And so is a countdown, as long as the table knows how old the quiz is.
InTime(v) ==
  v.current => /\ v.JdlyId \in DOMAIN question
               /\ \/ question[v.JdlyId].age = Old
                  \/ v.left = question[v.JdlyId].secs - question[v.JdlyId].age + (IF v.due THEN 1 ELSE 0)

CurrentInv ==
  /\ \A i \in DOMAIN cache : SameAge(cache[i])
  /\ \A e \in Employees : view[e] \in Running => InTime(view[e])

JdlyInv == TableInv /\ PhoneInv /\ AnswersInv /\ CurrentInv

-----------------------------------------------------------------------------

\* The longest quiz, and what is older than any.
LEMMA Longest ==
  /\ Max(Seconds) \in Seconds /\ Max(Seconds) \in Nat /\ Old \in Nat /\ Old = Max(Seconds) + 1
  /\ \A s \in Lengths : s \in 0 .. Max(Seconds)
<1>1. \E m \in Seconds : \A s \in Seconds : m >= s
  BY QuizConstants
<1>2. Max(Seconds) \in Seconds /\ \A s \in Seconds : Max(Seconds) >= s
  BY <1>1, Zenon DEF Max
<1>3. Seconds \subseteq Nat
  BY QuizConstants
<1>4. Max(Seconds) \in Nat
  BY <1>2, <1>3
<1>5. \A s \in Lengths : s \in 0 .. Max(Seconds)
  BY <1>2, <1>3, <1>4 DEF Lengths
<1> QED BY <1>2, <1>4, <1>5 DEF Old

\* An age stays in its range as it grows.
LEMMA OlderTyped == ASSUME NEW age \in 0 .. Old PROVE Older(age) \in 0 .. Old
<1>1. age + 1 \in Nat /\ Old \in Nat
  BY Longest
<1>2. Min({age + 1, Old}) \in {age + 1, Old} /\ Min({age + 1, Old}) <= Old
  <2>1. \E x \in {age + 1, Old} : \A y \in {age + 1, Old} : x <= y
    BY <1>1
  <2>2. /\ Min({age + 1, Old}) \in {age + 1, Old}
        /\ \A y \in {age + 1, Old} : Min({age + 1, Old}) <= y
    BY <2>1, Zenon DEF Min
  <2> QED BY <2>2
<1> QED BY <1>1, <1>2 DEF Older

\* It is a second more, until it is old.
LEMMA OlderAge ==
  ASSUME NEW age \in 0 .. Old
  PROVE  Older(age) = IF age = Old THEN Old ELSE age + 1
<1>1. age + 1 \in Nat /\ Old \in Nat /\ age <= Old
  BY Longest
<1>2. Min({age + 1, Old}) \in {age + 1, Old} /\ Min({age + 1, Old}) <= Old /\ Min({age + 1, Old}) <= age + 1
  <2>1. \E x \in {age + 1, Old} : \A y \in {age + 1, Old} : x <= y
    BY <1>1
  <2>2. /\ Min({age + 1, Old}) \in {age + 1, Old}
        /\ \A y \in {age + 1, Old} : Min({age + 1, Old}) <= y
    BY <2>1, Zenon DEF Min
  <2> QED BY <2>2
<1>3. age = Old \/ age + 1 <= Old
  BY <1>1
<1> DEFINE m == Min({age + 1, Old})
<1>4. Older(age) = m
  BY DEF Older
<1> HIDE DEF m
<1>5. m \in {age + 1, Old} /\ m <= Old /\ m <= age + 1
  BY <1>2 DEF m
<1> QED BY <1>1, <1>3, <1>4, <1>5

\* The newest quiz is one of the table's.
LEMMA NewestQuiz ==
  ASSUME TableInv
  PROVE  /\ Newest \in DOMAIN question /\ Newest \in Quizzes
         /\ \A q \in DOMAIN question : q <= Newest
<1>1. /\ Max(DOMAIN question) \in DOMAIN question
      /\ \A q \in DOMAIN question : Max(DOMAIN question) >= q
  <2>1. \E n \in DOMAIN question : \A q \in DOMAIN question : n >= q
    BY QuizConstants DEF TableInv
  <2> QED BY <2>1, Zenon DEF Max
<1>2. DOMAIN question \subseteq Quizzes /\ Quizzes \subseteq Nat
  BY QuizConstants DEF TableInv
<1> QED BY <1>1, <1>2 DEF Newest

\* A new quiz is one: neither started nor cleared.
LEMMA NewTyped == New \in Question
BY Longest DEF New, Question, Lengths

\* A failed page shows no number, which is less than any countdown.
LEMMA NaNLow == NaN \in Int /\ ~(NaN > 0) /\ NaN \notin -Old .. Max(Seconds)
BY Longest DEF NaN

\* The four kinds of view are told apart by their st.
LEMMA Kinds ==
  /\ NoView.st = "none"
  /\ \A w \in Waiting : w.st \in {"sent", "lost"} /\ w # NoView
  /\ \A w \in Failed \cup Running : w.st = "running" /\ w # NoView
<1>1. NoView.st = "none"
  BY DEF NoView
<1>2. \A w \in Waiting : w.st \in {"sent", "lost"}
  BY DEF Waiting
<1>3. \A w \in Failed : w.st = "running"
  BY DEF Failed
<1>4. \A w \in Running : w.st = "running"
  BY DEF Running
<1> QED BY <1>1, <1>2, <1>3, <1>4

\* The views, and what is visible of each.
LEMMA Views ==
  ASSUME PhoneInv, NEW e \in Employees
  PROVE  /\ view[e] = NoView \/ view[e] \in Waiting \/ view[e] \in Failed \/ view[e] \in Running
         /\ view[e] = NoView <=> view[e].st = "none"
         /\ view[e] \in Waiting <=> view[e].st \in {"sent", "lost"}
         /\ view[e] \in Failed \cup Running <=> view[e].st = "running"
         /\ page[e] = "vote" <=> view[e].st # "none"
<1>1. view[e] = NoView \/ view[e] \in Waiting \/ view[e] \in Failed \/ view[e] \in Running
  BY DEF PhoneInv
<1>2. /\ view[e] = NoView => view[e].st = "none"
      /\ view[e] \in Waiting => view[e].st \in {"sent", "lost"}
      /\ view[e] \in Failed \cup Running => view[e].st = "running"
  BY Kinds
<1>3. page[e] = "vote" <=> view[e] # NoView
  BY DEF PhoneInv
<1> QED BY <1>1, <1>2, <1>3

\* The invariant has the types.
LEMMA JdlyTypes == JdlyInv => TypeOK
<1> SUFFICES ASSUME JdlyInv PROVE TypeOK
  OBVIOUS
<1>1. \A e \in Employees : view[e].st # "none" => view[e].left \in {NaN} \cup -Old .. Max(Seconds)
  <2> SUFFICES ASSUME NEW e \in Employees, view[e].st # "none"
               PROVE  view[e].left \in {NaN} \cup -Old .. Max(Seconds)
    OBVIOUS
  <2>1. view[e] \in Waiting \/ view[e] \in Failed \/ view[e] \in Running
    BY Views DEF JdlyInv
  <2>2. 0 \in -Old .. Max(Seconds)
    BY Longest
  <2> QED BY <2>1, <2>2 DEF Waiting, Failed, Running
<1>2. \A e \in Employees : page[e] = "vote" <=> view[e].st # "none"
  BY Views DEF JdlyInv
<1>3. \A q \in DOMAIN question : question[q].age \in 0 .. Old
  BY DEF JdlyInv, TableInv, Question
<1> QED BY <1>1, <1>2, <1>3 DEF JdlyInv, PhoneInv, TypeOK

\* The invariant has whole answers.
LEMMA JdlyComplete == JdlyInv => NoPartialAnswers
BY DEF JdlyInv, AnswersInv, NoPartialAnswers, Whole

-----------------------------------------------------------------------------

\* In the beginning nobody has answered.
LEMMA JdlyInit == Init => JdlyInv
<1> SUFFICES ASSUME Init PROVE JdlyInv
  OBVIOUS
<1>1. Min(Quizzes) \in Quizzes
  <2>1. Quizzes \in SUBSET Nat /\ Quizzes # {}
    BY QuizConstants
  <2>2. \E m \in Quizzes : \A q \in Quizzes : m <= q
    BY <2>1, LeastNatural
  <2> QED BY <2>2, Zenon DEF Min
<1>2. DOMAIN question = {Min(Quizzes)} /\ question[Min(Quizzes)] = New
  BY DEF Init
<1>3. TableInv
  <2>1. \A q \in DOMAIN question : q <= Min(Quizzes)
    <3>1. Min(Quizzes) \in Nat
      BY <1>1, QuizConstants
    <3> HIDE DEF Min
    <3> QED BY <1>2, <3>1
  <2>2. cache \in Seq(Cached)
    BY DEF Init
  <2> QED BY <1>1, <1>2, <2>1, <2>2, NewTyped DEF TableInv
<1>4. PhoneInv
  BY DEF Init, PhoneInv, NoPost
<1>5. AnswersInv
  BY DEF Init, AnswersInv, NoPost
<1>6. CurrentInv
  <2>1. \A e \in Employees : view[e] \notin Running
    BY DEF Init, NoView, Running
  <2>2. DOMAIN cache = {}
    BY DEF Init
  <2> QED BY <2>1, <2>2 DEF CurrentInv
<1> QED BY <1>3, <1>4, <1>5, <1>6 DEF JdlyInv

\* What is outdated keeps its type.
LEMMA OutdatedTyped ==
  ASSUME NEW q
  PROVE  /\ \A r \in Cached : Outdated(r, q) \in Cached
         /\ \A r \in Failed : Outdated(r, q) \in Failed
         /\ \A r \in Running : Outdated(r, q) \in Running
<1>1. \A r \in Cached : Outdated(r, q) \in Cached
  BY DEF Cached, Outdated
<1>2. \A r \in Failed : Outdated(r, q) \in Failed
  BY DEF Failed, Outdated
<1>3. \A r \in Running : Outdated(r, q) \in Running
  BY DEF Running, Outdated
<1> QED BY <1>1, <1>2, <1>3

\* What GetVote reads, and what it answers.
Fresh == [JdlyId |-> Newest, age |-> question[Newest].age, secs |-> question[Newest].secs,
          current |-> TRUE]
LEMMA AnswerTyped ==
  ASSUME TableInv
  PROVE  (IF cache # <<>> THEN cache[1] ELSE Fresh) \in Cached
<1>1. CASE cache # <<>>
  BY <1>1, EmptySeq, LenProperties DEF TableInv
<1>2. CASE cache = <<>>
  <2>1. question[Newest] \in Question /\ Newest \in Quizzes
    BY NewestQuiz DEF TableInv
  <2> QED BY <1>2, <2>1 DEF Question, Cached, Fresh
<1> QED BY <1>1, <1>2

\* The steps of administrators and of time, on the table and the cache.
LEMMA TableNext == JdlyInv /\ [Next]_vars => TableInv'
<1> SUFFICES ASSUME JdlyInv, [Next]_vars PROVE TableInv'
  OBVIOUS
<1>1. TableInv /\ PhoneInv
  BY DEF JdlyInv
<1>2. ASSUME UNCHANGED <<question, cache>> PROVE TableInv'
  BY <1>1, <1>2 DEF TableInv
<1>3. CASE UNCHANGED vars
  BY <1>2, <1>3 DEF vars, server
<1>4. ASSUME NEW e \in Employees, Timer(e) PROVE TableInv'
  BY <1>2, <1>4 DEF Timer, CountDown, Thanks, server
<1>5. CASE Tick
  <2>1. question' = [q \in DOMAIN question |-> [question[q] EXCEPT !.age = Older(@)]]
        /\ cache' = [i \in DOMAIN cache |-> [cache[i] EXCEPT !.age = Older(@)]]
    BY <1>5 DEF Tick
  <2>2. \A r \in Question : [r EXCEPT !.age = Older(@)] \in Question
    <3>1. \A r \in Question : Older(r.age) \in 0 .. Old
      BY OlderTyped DEF Question
    <3> QED BY <3>1 DEF Question
  <2>3. \A r \in Cached : [r EXCEPT !.age = Older(@)] \in Cached
    <3>1. \A r \in Cached : Older(r.age) \in 0 .. Old
      BY OlderTyped DEF Cached
    <3> QED BY <3>1 DEF Cached
  <2>4. cache' \in Seq(Cached)
    <3>1. cache \in Seq(Cached) /\ DOMAIN cache = 1 .. Len(cache) /\ Len(cache) \in Nat
          /\ \A i \in 1 .. Len(cache) : cache[i] \in Cached
      BY <1>1, LenProperties DEF TableInv
    <3>2. cache' \in [1 .. Len(cache) -> Cached]
      BY <2>1, <2>3, <3>1
    <3> QED BY <3>1, <3>2, SeqDef
  <2>5. \A q \in DOMAIN question' : question'[q] \in Question
    BY <1>1, <2>1, <2>2 DEF TableInv
  <2>6. DOMAIN question' = DOMAIN question
    BY <2>1
  <2> QED BY <1>1, <2>4, <2>5, <2>6 DEF TableInv
<1>6. CASE AddPost
  <2>1. PICK q \in Quizzes :
          q > Newest /\ question' = [p \in DOMAIN question \cup {q} |-> IF p = q THEN New ELSE question[p]]
    BY <1>6 DEF AddPost
  <2>2. /\ DOMAIN question' = DOMAIN question \cup {q} /\ q \notin DOMAIN question
        /\ \A p \in DOMAIN question : p <= q
    <3>1. q \in Nat /\ Newest \in Nat /\ \A p \in DOMAIN question : p \in Nat /\ p <= Newest
      BY <1>1, NewestQuiz, QuizConstants DEF TableInv
    <3>2. \A p \in DOMAIN question : p <= q /\ p # q
      BY <2>1, <3>1
    <3>3. DOMAIN question' = DOMAIN question \cup {q}
      BY <2>1
    <3> QED BY <3>2, <3>3
  <2>3. \A p \in DOMAIN question' : question'[p] = IF p \in DOMAIN question THEN question[p] ELSE New
    BY <2>1, <2>2
  <2>4. q <= q
    BY QuizConstants
  <2>5. cache' = cache
    BY <1>6 DEF AddPost
  <2> QED BY <1>1, <2>2, <2>3, <2>4, <2>5, NewTyped DEF TableInv
<1>7. CASE Flush
  BY <1>2, <1>7 DEF Flush
<1>8. CASE ExpireVote
  BY <1>1, <1>8 DEF ExpireVote, TableInv, server
<1> DEFINE Outdates(q) == cache' = [i \in DOMAIN cache |-> Outdated(cache[i], q)]
<1>21. ASSUME NEW q, Outdates(q) PROVE cache' \in Seq(Cached)
  <2>1. cache \in Seq(Cached) /\ DOMAIN cache = 1 .. Len(cache) /\ Len(cache) \in Nat
        /\ \A i \in 1 .. Len(cache) : cache[i] \in Cached
    BY <1>1, LenProperties DEF TableInv
  <2>2. \A r \in Cached : Outdated(r, q) \in Cached
    BY OutdatedTyped
  <2>3. cache' \in [1 .. Len(cache) -> Cached]
    BY <1>21, <2>1, <2>2
  <2> QED BY <2>1, <2>3, SeqDef
<1>9. ASSUME NEW q \in DOMAIN question, ClearUp(q) PROVE TableInv'
  <2>1. question' = [question EXCEPT ![q] = New] /\ Outdates(q)
    BY <1>9 DEF ClearUp, Outdate
  <2>2. cache' \in Seq(Cached)
    BY <1>21, <2>1
  <2> QED BY <1>1, <2>1, <2>2, NewTyped DEF TableInv
<1>10. ASSUME NEW q \in DOMAIN question, NEW s \in Seconds, StartVote(q, s) PROVE TableInv'
  <2>1. [enabled |-> TRUE, age |-> 0, secs |-> s] \in Question
    BY Longest DEF Question, Lengths
  <2>2. question' = [question EXCEPT ![q] = [enabled |-> TRUE, age |-> 0, secs |-> s]] /\ Outdates(q)
    BY <1>10 DEF StartVote, Outdate
  <2>3. cache' \in Seq(Cached)
    BY <1>21, <2>2
  <2> QED BY <1>1, <2>1, <2>2, <2>3 DEF TableInv
<1>11. ASSUME NEW e \in Employees, GotVote(e) PROVE TableInv'
  <2> DEFINE answer == IF cache # <<>> THEN cache[1] ELSE Fresh
  <2>1. answer \in Cached
    BY <1>1, AnswerTyped
  <2>2. UNCHANGED question /\ cache' = <<answer>>
    BY <1>11 DEF GotVote, server, Fresh
  <2> HIDE DEF answer
  <2>3. <<answer>> \in Seq(Cached)
    BY <2>1
  <2> QED BY <1>1, <2>2, <2>3 DEF TableInv
<1>12. ASSUME NEW e \in Employees,
              \/ Launch(e) \/ Quit(e) \/ UserKnown(e) \/ GetUserInfo(e) \/ GotoVote(e) \/ Checked(e)
              \/ Lose(e) \/ GotNoVote(e) \/ BindChange(e) \/ Voted(e) \/ Posted(e) \/ ChekcUserCode(e)
              \/ \E r \in post[e].sent : Post(e, r)
       PROVE  TableInv'
  BY <1>2, <1>12 DEF Launch, Quit, UserKnown, GetUserInfo, GotoVote, Checked, Lose, GotNoVote, BindChange,
                     Voted, Sent, Posted, Thanks, ChekcUserCode, Post, server
<1> QED BY <1>3, <1>4, <1>5, <1>6, <1>7, <1>8, <1>9, <1>10, <1>11, <1>12 DEF Next, Handlers

\* A phone whose page and view go together.
LEMMA ViewChanges ==
  ASSUME PhoneInv, NEW e \in Employees, NEW p \in {"none", "index", "vote", "thanks"},
         NEW v \in {NoView} \cup Waiting \cup Failed \cup Running, p = "vote" <=> v # NoView,
         page' = [page EXCEPT ![e] = p], view' = [view EXCEPT ![e] = v],
         check' \in [Employees -> {"none", "sent", "lost", "refused", "admitted"}],
         post' \in [Employees -> [sent : SUBSET Answers, acknowledged : BOOLEAN]]
  PROVE  PhoneInv'
BY DEF PhoneInv

\* A step that leaves the phones alone keeps what is said of them.
LEMMA PhoneKept ==
  ASSUME PhoneInv, UNCHANGED <<page, view>>,
         check' \in [Employees -> {"none", "sent", "lost", "refused", "admitted"}],
         post' \in [Employees -> [sent : SUBSET Answers, acknowledged : BOOLEAN]]
  PROVE  PhoneInv'
BY DEF PhoneInv

\* What a phone posts is an answer, and a whole one.
LEMMA SentWhole ==
  ASSUME JdlyInv, NEW e \in Employees, Voted(e),
         NEW r, r = [JdlyId |-> view[e].JdlyId, UserCode |-> e, chosen |-> view[e].chosen]
  PROVE  r \in Answers /\ Whole(r)
<1>1. page[e] = "vote" /\ view[e].chosen = Photos(e)
  BY DEF Voted
<1>2. view[e] \in Waiting \cup Failed \/ view[e] \in Running
  BY <1>1, Views DEF JdlyInv
<1>3. CASE view[e] \in Waiting \cup Failed
  <2>1. view[e].JdlyId = 0 /\ view[e].chosen = 0
    BY <1>3 DEF Waiting, Failed
  <2> QED BY <2>1, QuizConstants DEF Answers, Whole
<1>4. CASE view[e] \in Running
  <2>1. view[e].JdlyId \in Quizzes /\ view[e].JdlyId # 0
    BY <1>4, QuizConstants DEF Running
  <2>2. view[e].chosen = Options
    BY <1>1, <2>1 DEF Photos
  <2> QED BY <2>1, <2>2, QuizConstants DEF Answers, Whole
<1> QED BY <1>2, <1>3, <1>4

\* Every step keeps the phones' part of the invariant.
LEMMA PhoneNext == JdlyInv /\ [Next]_vars => PhoneInv'
<1> SUFFICES ASSUME JdlyInv, [Next]_vars PROVE PhoneInv'
  OBVIOUS
<1> DEFINE Checks == {"none", "sent", "lost", "refused", "admitted"}
           Posts == [sent : SUBSET Answers, acknowledged : BOOLEAN]
<1>1. /\ PhoneInv /\ check \in [Employees -> Checks] /\ post \in [Employees -> Posts]
      /\ page \in [Employees -> {"none", "index", "vote", "thanks"}]
      /\ view \in [Employees -> {NoView} \cup Waiting \cup Failed \cup Running]
      /\ \A e \in Employees : post[e].sent \subseteq Answers
  BY DEF JdlyInv, PhoneInv
<1>2. ASSUME UNCHANGED phone PROVE PhoneInv'
  BY <1>1, <1>2 DEF phone, PhoneInv
<1>3. CASE UNCHANGED vars
  BY <1>2, <1>3 DEF vars
<1>4. ASSUME NEW e \in Employees, Thanks(e), UNCHANGED post \/ Posted(e) PROVE PhoneInv'
  <2>1. post' \in [Employees -> Posts]
    BY <1>1, <1>4 DEF Posted
  <2> QED BY <1>1, <1>4, <2>1, ViewChanges DEF Thanks
<1>5. ASSUME NEW e \in Employees, Timer(e) PROVE PhoneInv'
  <2>1. view[e].st = "running" /\ view[e] \in Failed \cup Running
    BY <1>1, <1>5, Views DEF Timer, CountDown
  <2>2. CASE ~(view[e].left > 0)
    BY <1>4, <1>5, <2>2 DEF Timer, CountDown
  <2>3. CASE view[e].left > 0
    <3> DEFINE v == [view[e] EXCEPT !.due = FALSE, !.left = @ - 1]
    <3>0. view[e] \in Running
      BY <2>1, <2>3, NaNLow DEF Failed
    <3>1. view[e].left - 1 \in -Old .. Max(Seconds)
      BY <3>0, <2>3, Longest DEF Running
    <3>2. v \in Running
      BY <3>0, <3>1 DEF Running
    <3>3. view' = [view EXCEPT ![e] = v] /\ UNCHANGED <<page, check, post>>
      BY <1>1, <1>5, <2>3 DEF Timer, CountDown
    <3>4. page[e] = "vote" /\ page' = [page EXCEPT ![e] = "vote"]
      BY <1>1, <2>1, <3>3, Views
    <3>5. v # NoView
      BY <3>2 DEF Running, NoView
    <3> HIDE DEF v
    <3> QED BY <1>1, <3>2, <3>3, <3>4, <3>5, ViewChanges
  <2> QED BY <2>2, <2>3
<1>6. CASE Tick
  <2>1. /\ view' = [e \in Employees |-> IF view[e].st = "running" THEN [view[e] EXCEPT !.due = TRUE]
                                        ELSE view[e]]
        /\ UNCHANGED <<page, check, post>>
    BY <1>6 DEF Tick
  <2>2. ASSUME NEW e \in Employees
        PROVE  /\ view'[e] \in {NoView} \cup Waiting \cup Failed \cup Running
               /\ page[e] = "vote" <=> view'[e] # NoView
    <3>1. CASE view[e].st = "running"
      <4>1. view[e] \in Failed \cup Running /\ page[e] = "vote"
        BY <1>1, <3>1, Views
      <4>2. [view[e] EXCEPT !.due = TRUE] \in Failed \cup Running
        BY <4>1 DEF Failed, Running
      <4>3. view'[e] \in Failed \cup Running
        BY <2>1, <3>1, <4>2
      <4>4. view'[e] # NoView
        BY <4>3, Kinds
      <4> QED BY <4>1, <4>3, <4>4
    <3>2. CASE view[e].st # "running"
      BY <1>1, <2>1, <3>2 DEF PhoneInv
    <3> QED BY <3>1, <3>2
  <2>3. view' \in [Employees -> {NoView} \cup Waiting \cup Failed \cup Running]
    BY <2>1, <2>2
  <2> QED BY <1>1, <2>1, <2>2, <2>3 DEF PhoneInv
<1>7. CASE AddPost \/ Flush \/ ExpireVote
  BY <1>2, <1>7 DEF AddPost, Flush, ExpireVote, phone
<1>20. ASSUME NEW q \in DOMAIN question, ClearUp(q) \/ \E s \in Seconds : StartVote(q, s)
      PROVE  PhoneInv'
  <2>1. /\ view' = [e \in Employees |-> IF view[e].st = "running" THEN Outdated(view[e], q) ELSE view[e]]
        /\ UNCHANGED <<page, check, post>>
    BY <1>20 DEF ClearUp, StartVote, Outdate
  <2>2. ASSUME NEW e \in Employees
        PROVE  /\ view'[e] \in {NoView} \cup Waiting \cup Failed \cup Running
               /\ page[e] = "vote" <=> view'[e] # NoView
    <3>1. CASE view[e].st = "running"
      <4>1. view[e] \in Failed \cup Running /\ page[e] = "vote"
        BY <1>1, <3>1, Views
      <4>2. view'[e] \in Failed \cup Running
        BY <2>1, <3>1, <4>1, OutdatedTyped
      <4>3. view'[e] # NoView
        BY <4>2, Kinds
      <4> QED BY <4>1, <4>2, <4>3
    <3>2. CASE view[e].st # "running"
      BY <1>1, <2>1, <3>2 DEF PhoneInv
    <3> QED BY <3>1, <3>2
  <2>3. view' \in [Employees -> {NoView} \cup Waiting \cup Failed \cup Running]
    BY <2>1, <2>2
  <2> QED BY <1>1, <2>1, <2>2, <2>3 DEF PhoneInv
<1>8. ASSUME NEW e \in Employees, Launch(e) PROVE PhoneInv'
  <2>1. view[e] = NoView /\ page' = [page EXCEPT ![e] = "index"] /\ UNCHANGED <<view, check, post>>
    BY <1>1, <1>8 DEF Launch, PhoneInv
  <2>2. view' = [view EXCEPT ![e] = NoView]
    BY <1>1, <2>1
  <2> QED BY <1>1, <2>1, <2>2, ViewChanges
<1>9. ASSUME NEW e \in Employees, Quit(e) PROVE PhoneInv'
  <2>1. /\ page' = [page EXCEPT ![e] = "none"] /\ view' = [view EXCEPT ![e] = NoView]
        /\ check' \in [Employees -> Checks] /\ post' \in [Employees -> Posts]
    BY <1>1, <1>9 DEF Quit, NoPost
  <2> QED BY <1>1, <2>1, ViewChanges
<1>10. ASSUME NEW e \in Employees, UserKnown(e) \/ GetUserInfo(e) PROVE PhoneInv'
  BY <1>1, <1>10, PhoneKept DEF UserKnown, GetUserInfo
<1>11. ASSUME NEW e \in Employees, GotoVote(e) \/ ChekcUserCode(e) PROVE PhoneInv'
  <2>1. UNCHANGED <<page, view, post>> /\ check' \in [Employees -> Checks]
    BY <1>1, <1>11 DEF GotoVote, ChekcUserCode
  <2> QED BY <1>1, <2>1, PhoneKept
<1>12. ASSUME NEW e \in Employees, Checked(e) PROVE PhoneInv'
  <2>1. check' \in [Employees -> Checks] /\ UNCHANGED post
    BY <1>1, <1>12 DEF Checked
  <2>2. CASE check[e] = "refused"
    BY <1>1, <1>12, <2>1, <2>2, PhoneKept DEF Checked
  <2>3. CASE check[e] # "refused"
    <3>1. Loading \in Waiting /\ Loading # NoView
      <4>1. Loading \in Waiting
        BY DEF Loading, Waiting
      <4> QED BY <4>1, Kinds
    <3>2. page' = [page EXCEPT ![e] = "vote"] /\ view' = [view EXCEPT ![e] = Loading]
      BY <1>12, <2>3 DEF Checked
    <3> QED BY <1>1, <2>1, <3>1, <3>2, ViewChanges
  <2> QED BY <2>2, <2>3
<1>13. ASSUME NEW e \in Employees, Lose(e) PROVE PhoneInv'
  <2>1. CASE UNCHANGED view
    <3>1. check' \in [Employees -> Checks] /\ post' \in [Employees -> Posts] /\ UNCHANGED page
      BY <1>1, <1>13, <2>1 DEF Lose
    <3> QED BY <1>1, <2>1, <3>1, PhoneKept
  <2>2. CASE view[e].st = "sent" /\ view' = [view EXCEPT ![e].st = "lost"] /\ UNCHANGED <<check, post>>
    <3> DEFINE v == [view[e] EXCEPT !.st = "lost"]
    <3>1. view[e] \in Waiting /\ page[e] = "vote"
      BY <1>1, <2>2, Views
    <3>2. v \in Waiting
      BY <3>1 DEF Waiting
    <3>3. v # NoView
      BY <3>2 DEF Waiting, NoView
    <3>4. view' = [view EXCEPT ![e] = v] /\ page' = [page EXCEPT ![e] = "vote"]
      BY <1>1, <1>13, <2>2, <3>1 DEF Lose
    <3> HIDE DEF v
    <3> QED BY <1>1, <2>2, <3>2, <3>3, <3>4, ViewChanges
  <2> QED BY <1>13, <2>1, <2>2 DEF Lose
<1>14. ASSUME NEW e \in Employees, GotVote(e) PROVE PhoneInv'
  <2> DEFINE answer == IF cache # <<>> THEN cache[1] ELSE Fresh
             v == [view[e] EXCEPT !.st = "running", !.JdlyId = answer.JdlyId,
                                  !.left = answer.secs - answer.age, !.current = answer.current]
  <2>1. view[e].st = "sent" /\ view' = [view EXCEPT ![e] = v] /\ UNCHANGED <<page, check, post>>
    BY <1>14 DEF GotVote, Fresh
  <2>2. answer \in Cached
    BY AnswerTyped DEF JdlyInv
  <2> HIDE DEF answer
  <2>3. /\ answer.secs - answer.age \in -Old .. Max(Seconds) /\ answer.JdlyId \in Quizzes
        /\ answer.current \in BOOLEAN
    <3>1. answer.secs \in 0 .. Max(Seconds) /\ answer.age \in 0 .. Old
      BY <2>2, Longest DEF Cached
    <3> QED BY <2>2, <3>1, Longest DEF Cached
  <2>4. view[e] \in Waiting /\ page[e] = "vote"
    BY <1>1, <2>1, Views
  <2>5. v \in Running
    <3>1. 0 \in 0 .. Options
      BY QuizConstants
    <3>2. ASSUME NEW w \in Waiting, NEW k \in Quizzes, NEW l \in -Old .. Max(Seconds), NEW c \in BOOLEAN
          PROVE  [w EXCEPT !.st = "running", !.JdlyId = k, !.left = l, !.current = c] \in Running
      <4> DEFINE seconds == -Old .. Max(Seconds)
                 numbers == 0 .. Options
      <4>1. l \in seconds /\ 0 \in numbers
        BY <3>1
      <4> HIDE DEF seconds, numbers
      <4> QED BY <4>1 DEF Waiting, Running, seconds, numbers
    <3> QED BY <2>3, <2>4, <3>2
  <2>6. v # NoView
    BY <2>5 DEF Running, NoView
  <2>7. page' = [page EXCEPT ![e] = "vote"]
    BY <1>1, <2>1, <2>4
  <2> HIDE DEF v
  <2> QED BY <1>1, <2>1, <2>5, <2>6, <2>7, ViewChanges
<1>19. ASSUME NEW e \in Employees, GotNoVote(e) PROVE PhoneInv'
  <2> DEFINE v == [view[e] EXCEPT !.st = "running", !.left = NaN]
  <2>1. view[e].st = "sent" /\ view' = [view EXCEPT ![e] = v] /\ UNCHANGED <<page, check, post>>
    BY <1>1, <1>19 DEF GotNoVote
  <2>2. view[e] \in Waiting /\ page[e] = "vote"
    BY <1>1, <2>1, Views
  <2>3. v \in Failed
    BY <2>2 DEF Waiting, Failed
  <2>4. v # NoView
    BY <2>3 DEF Failed, NoView
  <2>5. page' = [page EXCEPT ![e] = "vote"]
    BY <1>1, <2>1, <2>2
  <2> HIDE DEF v
  <2> QED BY <1>1, <2>1, <2>3, <2>4, <2>5, ViewChanges
<1>15. ASSUME NEW e \in Employees, BindChange(e) PROVE PhoneInv'
  <2> DEFINE v == [view[e] EXCEPT !.chosen = @ + 1]
  <2>1. view[e] \in Failed \cup Running /\ page[e] = "vote" /\ view[e].chosen < Photos(e)
    BY <1>1, <1>15, Views DEF BindChange
  <2>2. view[e] \in Running /\ view[e].chosen < Options
    <3>1. view[e] \notin Failed
      <4> SUFFICES ASSUME view[e] \in Failed PROVE FALSE
        OBVIOUS
      <4>1. view[e].JdlyId = 0 /\ view[e].chosen = 0
        BY DEF Failed
      <4>2. Photos(e) = 0
        BY <4>1 DEF Photos
      <4> QED BY <2>1, <4>1, <4>2
    <3>2. view[e].JdlyId # 0
      BY <2>1, <3>1, QuizConstants DEF Running
    <3> QED BY <2>1, <3>1, <3>2 DEF Photos
  <2>3. view[e].chosen + 1 \in 0 .. Options
    BY <2>2, QuizConstants DEF Running
  <2>4. v \in Running
    BY <2>2, <2>3 DEF Running
  <2>5. v # NoView
    BY <2>4 DEF Running, NoView
  <2>6. view' = [view EXCEPT ![e] = v] /\ page' = [page EXCEPT ![e] = "vote"] /\ UNCHANGED <<check, post>>
    BY <1>1, <1>15, <2>1 DEF BindChange
  <2> HIDE DEF v
  <2> QED BY <1>1, <2>1, <2>4, <2>5, <2>6, ViewChanges
<1>16. ASSUME NEW e \in Employees, Voted(e) PROVE PhoneInv'
  <2> DEFINE r == [JdlyId |-> view[e].JdlyId, UserCode |-> e, chosen |-> view[e].chosen]
  <2>1. r \in Answers
    BY <1>16, SentWhole
  <2>2. /\ post' = [post EXCEPT ![e].sent = @ \cup {r}] /\ view' = [view EXCEPT ![e] = view[e]]
        /\ UNCHANGED <<page, check>>
    BY <1>16 DEF Voted, Sent
  <2> HIDE DEF r
  <2>3. post' \in [Employees -> Posts] /\ view' = view
    BY <1>1, <2>1, <2>2
  <2> QED BY <1>1, <2>2, <2>3, PhoneKept
<1>17. ASSUME NEW e \in Employees, Posted(e) PROVE PhoneInv'
  BY <1>4, <1>17 DEF Posted
<1>18. ASSUME NEW e \in Employees, NEW r \in post[e].sent, Post(e, r) PROVE PhoneInv'
  <2>1. UNCHANGED <<page, view, check>> /\ post' \in [Employees -> Posts]
    <3>1. UNCHANGED <<page, view, check>>
      BY <1>18 DEF Post
    <3>2. \/ post' = [post EXCEPT ![e] = [sent |-> post[e].sent \ {r}, acknowledged |-> TRUE]]
          \/ post' = [post EXCEPT ![e].sent = @ \ {r}]
      BY <1>1, <1>18 DEF Post
    <3>3. [sent |-> post[e].sent \ {r}, acknowledged |-> TRUE] \in Posts
      BY <1>1
    <3>4. CASE post' = [post EXCEPT ![e] = [sent |-> post[e].sent \ {r}, acknowledged |-> TRUE]]
      BY <1>1, <3>1, <3>3, <3>4
    <3>5. CASE post' = [post EXCEPT ![e].sent = @ \ {r}]
      BY <1>1, <3>1, <3>5
    <3> QED BY <3>2, <3>4, <3>5
  <2> QED BY <1>1, <2>1, PhoneKept
<1> QED BY <1>3, <1>5, <1>6, <1>7, <1>8, <1>9, <1>10, <1>11, <1>12, <1>13, <1>14, <1>15, <1>16,
           <1>17, <1>18, <1>19, <1>20 DEF Next, Handlers

\* Every step keeps the answers whole: those that are sent, queued and written.
LEMMA AnswersNext == JdlyInv /\ [Next]_vars => AnswersInv'
<1> SUFFICES ASSUME JdlyInv, [Next]_vars PROVE AnswersInv'
  OBVIOUS
<1> DEFINE Posts == [sent : SUBSET Answers, acknowledged : BOOLEAN]
<1>1. /\ PhoneInv /\ AnswersInv /\ post \in [Employees -> Posts]
      /\ \A r : Whole(r)' <=> Whole(r)
  BY DEF JdlyInv, PhoneInv, Whole
\* What is left to show of a step: it adds only whole answers, to the right places.
<1>2. ASSUME \A r \in queued' \cup rows' : r \in queued \cup rows \/ Whole(r),
             \A f \in Employees : \A r \in post'[f].sent : r \in post[f].sent \/ Whole(r),
             \A f \in Employees : post'[f].acknowledged => post[f].acknowledged \/ f \in taken',
             taken \subseteq taken'
      PROVE  AnswersInv'
  BY <1>1, <1>2 DEF AnswersInv, Whole
<1>3. ASSUME UNCHANGED <<taken, post>>, queued' \cup rows' \subseteq queued \cup rows PROVE AnswersInv'
  BY <1>2, <1>3
<1>4. CASE UNCHANGED vars
  BY <1>3, <1>4 DEF vars, server, phone
<1>5. ASSUME NEW e \in Employees, Timer(e) PROVE AnswersInv'
  BY <1>3, <1>5 DEF Timer, CountDown, Thanks, server
<1>6. CASE Tick \/ AddPost \/ Flush \/ ExpireVote
  BY <1>3, <1>6 DEF Tick, AddPost, Flush, ExpireVote, phone, server
<1>7. ASSUME NEW q \in DOMAIN question, ClearUp(q) \/ \E s \in Seconds : StartVote(q, s) PROVE AnswersInv'
  BY <1>3, <1>7 DEF ClearUp, StartVote
<1>8. ASSUME NEW e \in Employees,
             \/ Launch(e) \/ UserKnown(e) \/ GetUserInfo(e) \/ GotoVote(e) \/ Checked(e) \/ GotVote(e)
             \/ GotNoVote(e) \/ BindChange(e) \/ ChekcUserCode(e)
      PROVE  AnswersInv'
  BY <1>3, <1>8 DEF Launch, UserKnown, GetUserInfo, GotoVote, Checked, GotVote, GotNoVote,
                    BindChange, ChekcUserCode, server
<1>9. ASSUME NEW e \in Employees, Quit(e) PROVE AnswersInv'
  <2>1. UNCHANGED <<queued, rows, taken>> /\ post' = [post EXCEPT ![e] = NoPost]
    BY <1>9 DEF Quit, server
  <2>2. /\ post'[e].sent = {} /\ ~post'[e].acknowledged
        /\ \A f \in Employees \ {e} : post'[f] = post[f]
    BY <1>1, <2>1 DEF NoPost
  <2> QED BY <1>2, <2>1, <2>2
<1>10. ASSUME NEW e \in Employees, Lose(e) PROVE AnswersInv'
  <2>1. UNCHANGED <<queued, rows, taken>>
    BY <1>10 DEF Lose, server
  <2>2. UNCHANGED post \/ \E r \in post[e].sent : post' = [post EXCEPT ![e].sent = @ \ {r}]
    BY <1>10 DEF Lose
  <2>3. \A f \in Employees : /\ post'[f].sent \subseteq post[f].sent
                             /\ post'[f].acknowledged = post[f].acknowledged
    BY <1>1, <2>2
  <2> QED BY <1>2, <2>1, <2>3
<1>11. ASSUME NEW e \in Employees, Voted(e) PROVE AnswersInv'
  <2> DEFINE r == [JdlyId |-> view[e].JdlyId, UserCode |-> e, chosen |-> view[e].chosen]
  <2>1. UNCHANGED <<queued, rows, taken>> /\ post' = [post EXCEPT ![e].sent = @ \cup {r}]
    BY <1>11 DEF Voted, Sent, server
  <2>2. Whole(r)
    BY <1>11, SentWhole
  <2> HIDE DEF r
  <2>3. \A f \in Employees : /\ post'[f].sent \subseteq post[f].sent \cup {r}
                             /\ post'[f].acknowledged = post[f].acknowledged
    BY <1>1, <2>1
  <2> QED BY <1>2, <2>1, <2>2, <2>3
<1>12. ASSUME NEW e \in Employees, Posted(e) PROVE AnswersInv'
  <2>1. UNCHANGED <<queued, rows, taken>> /\ post' = [post EXCEPT ![e].acknowledged = FALSE]
    BY <1>12 DEF Posted, Thanks, server
  <2>2. \A f \in Employees : /\ post'[f].sent = post[f].sent
                             /\ post'[f].acknowledged => post[f].acknowledged
    BY <1>1, <2>1
  <2> QED BY <1>2, <2>1, <2>2
<1>13. ASSUME NEW e \in Employees, NEW r \in post[e].sent, Post(e, r) PROVE AnswersInv'
  <2>1. queued' = queued \cup {r} /\ taken' = taken \cup {e} /\ UNCHANGED rows
    BY <1>13 DEF Post
  <2>2. \/ post' = [post EXCEPT ![e] = [sent |-> post[e].sent \ {r}, acknowledged |-> TRUE]]
        \/ post' = [post EXCEPT ![e].sent = @ \ {r}]
    BY <1>1, <1>13 DEF Post
  <2>3. /\ \A f \in Employees : post'[f].sent \subseteq post[f].sent
        /\ \A f \in Employees \ {e} : post'[f].acknowledged = post[f].acknowledged
    BY <1>1, <2>2
  <2>4. Whole(r)
    BY <1>1 DEF AnswersInv
  <2> QED BY <1>2, <2>1, <2>3, <2>4
<1> QED BY <1>4, <1>5, <1>6, <1>7, <1>8, <1>9, <1>10, <1>11, <1>12, <1>13 DEF Next, Handlers

\* A countdown as it was, of a quiz that the table does not change.
LEMMA ViewKept ==
  ASSUME CurrentInv, UNCHANGED question,
         \A i \in DOMAIN cache' : i \in DOMAIN cache /\ cache'[i] = cache[i],
         \A e \in Employees : view'[e] \in Running =>
           /\ view[e] \in Running
           /\ view'[e].JdlyId = view[e].JdlyId /\ view'[e].left = view[e].left
           /\ view'[e].due = view[e].due /\ view'[e].current = view[e].current
  PROVE  CurrentInv'
BY DEF CurrentInv, SameAge, InTime

\* Every step keeps what is cached, and the countdowns, as old as the table's quizzes.
LEMMA CurrentNext == JdlyInv /\ [Next]_vars => CurrentInv'
<1> SUFFICES ASSUME JdlyInv, [Next]_vars PROVE CurrentInv'
  OBVIOUS
<1>1. /\ TableInv /\ PhoneInv /\ CurrentInv
      /\ view \in [Employees -> {NoView} \cup Waiting \cup Failed \cup Running]
      /\ \A i \in DOMAIN cache : cache[i] \in Cached
      /\ DOMAIN question \subseteq Nat /\ \A q \in DOMAIN question : question[q] \in Question
  <2>1. \A i \in DOMAIN cache : cache[i] \in Cached
    BY LenProperties DEF JdlyInv, TableInv
  <2> QED BY <2>1, QuizConstants DEF JdlyInv, TableInv, PhoneInv
<1>2. ASSUME UNCHANGED <<question, cache, view>> PROVE CurrentInv'
  BY <1>1, <1>2 DEF CurrentInv, SameAge, InTime
<1>3. CASE UNCHANGED vars
  BY <1>2, <1>3 DEF vars, server, phone
\* A page whose countdown is gone, or not yet there.
<1>4. ASSUME NEW e \in Employees, NEW v, v \notin Running, view' = [view EXCEPT ![e] = v],
             UNCHANGED <<question, cache>>
      PROVE  CurrentInv'
  BY <1>1, <1>4, ViewKept
<1>5. NoView \notin Running /\ Loading \notin Running /\ \A w \in Waiting \cup Failed : w \notin Running
  BY QuizConstants DEF NoView, Loading, Waiting, Failed, Running
<1>6. ASSUME NEW e \in Employees, Timer(e) PROVE CurrentInv'
  <2>1. CASE ~(view[e].left > 0)
    BY <1>4, <1>5, <1>6, <2>1 DEF Timer, CountDown, Thanks, server
  <2>2. CASE view[e].left > 0
    <3>1. view[e] \in Running /\ view[e].due
      BY <1>1, <1>6, <2>2, Views, NaNLow DEF Timer, CountDown, Failed
    <3>2. /\ view' = [view EXCEPT ![e].due = FALSE, ![e].left = @ - 1] /\ UNCHANGED <<question, cache>>
      BY <1>6, <2>2 DEF Timer, CountDown, server
    <3>3. /\ view'[e].left = view[e].left - 1 /\ view'[e].due = FALSE
          /\ view'[e].JdlyId = view[e].JdlyId /\ view'[e].current = view[e].current
          /\ \A f \in Employees \ {e} : view'[f] = view[f]
      BY <1>1, <3>1, <3>2 DEF Running
    <3>4. InTime(view[e])'
      <4>1. ASSUME view[e].current, question[view[e].JdlyId].age # Old
            PROVE  view'[e].left = question[view[e].JdlyId].secs - question[view[e].JdlyId].age
        <5>1. /\ view[e].left = question[view[e].JdlyId].secs - question[view[e].JdlyId].age + 1
              /\ view[e].JdlyId \in DOMAIN question
          BY <1>1, <3>1, <4>1 DEF CurrentInv, InTime
        <5>2. question[view[e].JdlyId].secs \in Int /\ question[view[e].JdlyId].age \in Int
          BY <1>1, <5>1, Longest DEF Question
        <5> QED BY <3>3, <5>1, <5>2
      <4>2. view[e].current => view[e].JdlyId \in DOMAIN question
        BY <1>1, <3>1 DEF CurrentInv, InTime
      <4>3. ASSUME view[e].current, question[view[e].JdlyId].age # Old
            PROVE  view'[e].left = question[view[e].JdlyId].secs - question[view[e].JdlyId].age + 0
        <5>1. question[view[e].JdlyId].secs \in Int /\ question[view[e].JdlyId].age \in Int
          BY <1>1, <4>2, <4>3, Longest DEF Question
        <5> QED BY <4>1, <4>3, <5>1
      <4>4. question' = question
        BY <3>2
      <4> QED BY <3>3, <4>2, <4>3, <4>4 DEF InTime
    <3> QED BY <1>1, <3>2, <3>3, <3>4 DEF CurrentInv, SameAge, InTime
  <2> QED BY <2>1, <2>2
<1>7. CASE NothingDue /\ Tick
  <2>1. /\ \A e \in Employees : view[e].st = "running" => ~view[e].due
        /\ question' = [q \in DOMAIN question |-> [question[q] EXCEPT !.age = Older(@)]]
        /\ cache' = [i \in DOMAIN cache |-> [cache[i] EXCEPT !.age = Older(@)]]
        /\ view' = [e \in Employees |-> IF view[e].st = "running" THEN [view[e] EXCEPT !.due = TRUE]
                                        ELSE view[e]]
    BY <1>7 DEF Tick, NothingDue
  <2>2. \A q \in DOMAIN question : /\ q \in DOMAIN question' /\ question'[q].secs = question[q].secs
                                   /\ question'[q].age = Older(question[q].age)
    BY <1>1, <2>1 DEF Question
  <2>3. ASSUME NEW i \in DOMAIN cache' PROVE SameAge(cache[i])'
    <3>1. /\ i \in DOMAIN cache /\ cache[i] \in Cached /\ SameAge(cache[i])
          /\ cache'[i] = [cache[i] EXCEPT !.age = Older(@)]
      BY <1>1, <2>1 DEF CurrentInv
    <3>2. /\ cache'[i].JdlyId = cache[i].JdlyId /\ cache'[i].age = Older(cache[i].age)
          /\ cache'[i].secs = cache[i].secs /\ cache'[i].current = cache[i].current
      BY <3>1 DEF Cached
    <3> QED BY <2>2, <3>1, <3>2 DEF SameAge
  <2>4. ASSUME NEW e \in Employees, view'[e] \in Running PROVE InTime(view[e])'
    <3>1. view[e].st = "running"
      BY <1>1, <1>5, <2>1, <2>4, Views
    <3>2. view'[e] = [view[e] EXCEPT !.due = TRUE] /\ ~view[e].due
      BY <2>1, <3>1
    <3>3. view[e] \in Failed \cup Running
      BY <1>1, <3>1, Views
    <3>4. /\ view'[e].JdlyId = view[e].JdlyId /\ view'[e].left = view[e].left
          /\ view'[e].due = TRUE /\ view'[e].current = view[e].current
      BY <3>2, <3>3 DEF Failed, Running
    <3>5. ASSUME view[e].current
          PROVE  /\ view[e].JdlyId \in DOMAIN question
                 /\ \/ question'[view[e].JdlyId].age = Old
                    \/ view[e].left = question'[view[e].JdlyId].secs - question'[view[e].JdlyId].age + 1
      <4> DEFINE secs == question[view[e].JdlyId].secs
                 age == question[view[e].JdlyId].age
      <4>1. view[e] \in Running
        BY <3>3, <3>5 DEF Failed
      <4>2. view[e].JdlyId \in DOMAIN question /\ (age = Old \/ view[e].left = secs - age + 0)
        BY <1>1, <3>2, <3>5, <4>1 DEF CurrentInv, InTime
      <4>3. secs \in Int /\ age \in 0 .. Old
        BY <1>1, <4>2, Longest DEF Question
      <4>4. Older(age) = IF age = Old THEN Old ELSE age + 1
        BY <4>3, OlderAge
      <4>5. question'[view[e].JdlyId].secs = secs /\ question'[view[e].JdlyId].age = Older(age)
        BY <2>2, <4>2
      <4> HIDE DEF secs, age
      <4>6. Older(age) = Old \/ view[e].left = secs - Older(age) + 1
        BY <4>2, <4>3, <4>4, Longest
      <4> QED BY <4>2, <4>5, <4>6
    <3>6. view[e].current => view[e].JdlyId \in DOMAIN question'
      BY <2>2, <3>5
    <3> QED BY <3>4, <3>5, <3>6 DEF InTime
  <2> QED BY <2>3, <2>4 DEF CurrentInv
<1>8. CASE AddPost
  <2>1. PICK q \in Quizzes :
          q > Newest /\ question' = [p \in DOMAIN question \cup {q} |-> IF p = q THEN New ELSE question[p]]
    BY <1>8 DEF AddPost
  <2>2. q \notin DOMAIN question
    <3>1. q \in Nat /\ Newest \in Nat /\ \A p \in DOMAIN question : p <= Newest
      BY <1>1, NewestQuiz, QuizConstants
    <3> QED BY <2>1, <3>1
  <2>3. \A p \in DOMAIN question : p \in DOMAIN question' /\ question'[p] = question[p]
    BY <2>1, <2>2
  <2>4. UNCHANGED <<cache, view>>
    BY <1>8 DEF AddPost, phone
  <2> QED BY <1>1, <2>3, <2>4 DEF CurrentInv, SameAge, InTime
<1>9. CASE Flush
  BY <1>2, <1>9 DEF Flush, phone
<1>10. CASE ExpireVote
  BY <1>1, <1>10, ViewKept DEF ExpireVote, server, phone
<1>11. ASSUME NEW q \in DOMAIN question, ClearUp(q) \/ \E s \in Seconds : StartVote(q, s)
       PROVE  CurrentInv'
  <2>1. /\ cache' = [i \in DOMAIN cache |-> Outdated(cache[i], q)]
        /\ view' = [e \in Employees |-> IF view[e].st = "running" THEN Outdated(view[e], q) ELSE view[e]]
    BY <1>11 DEF ClearUp, StartVote, Outdate
  <2>2. /\ DOMAIN question' = DOMAIN question
        /\ \A p \in DOMAIN question \ {q} : question'[p] = question[p]
    BY <1>11 DEF ClearUp, StartVote
  <2>3. ASSUME NEW i \in DOMAIN cache' PROVE SameAge(cache[i])'
    <3>1. /\ i \in DOMAIN cache /\ cache[i] \in Cached /\ SameAge(cache[i])
          /\ cache'[i] = Outdated(cache[i], q)
      BY <1>1, <2>1 DEF CurrentInv
    <3>2. CASE cache[i].JdlyId = q
      <4>1. cache'[i].current = FALSE
        BY <3>1, <3>2 DEF Outdated, Cached
      <4> QED BY <4>1 DEF SameAge
    <3>3. CASE cache[i].JdlyId # q
      BY <2>2, <3>1, <3>3 DEF Outdated, SameAge
    <3> QED BY <3>2, <3>3
  <2>4. ASSUME NEW e \in Employees, view'[e] \in Running PROVE InTime(view[e])'
    <3>1. view[e].st = "running"
      BY <1>1, <1>5, <2>1, <2>4, Views
    <3>2. view'[e] = Outdated(view[e], q) /\ view[e] \in Failed \cup Running
      BY <1>1, <2>1, <3>1, Views
    <3>3. CASE view[e].JdlyId = q
      <4>1. view'[e].current = FALSE
        BY <3>2, <3>3 DEF Outdated, Failed, Running
      <4> QED BY <4>1 DEF InTime
    <3>4. CASE view[e].JdlyId # q
      <4>1. view'[e] = view[e] /\ InTime(view[e])
        BY <1>1, <2>4, <3>2, <3>4 DEF Outdated, CurrentInv
      <4> QED BY <2>2, <3>4, <4>1 DEF InTime
    <3> QED BY <3>3, <3>4
  <2> QED BY <2>3, <2>4 DEF CurrentInv
<1>12. ASSUME NEW e \in Employees, GotVote(e) PROVE CurrentInv'
  <2> DEFINE answer == IF cache # <<>> THEN cache[1] ELSE Fresh
             v == [view[e] EXCEPT !.st = "running", !.JdlyId = answer.JdlyId,
                                  !.left = answer.secs - answer.age, !.current = answer.current]
  <2>1. /\ view[e].st = "sent" /\ view' = [view EXCEPT ![e] = v] /\ UNCHANGED question
        /\ cache' = <<answer>>
    BY <1>12 DEF GotVote, Fresh, server
  <2>2. SameAge(answer) /\ answer \in Cached
    <3>1. answer \in Cached
      BY AnswerTyped DEF JdlyInv
    <3>2. CASE cache # <<>>
      <4>1. 1 \in DOMAIN cache
        BY <1>1, <3>2, EmptySeq, LenProperties DEF TableInv
      <4> QED BY <1>1, <3>1, <3>2, <4>1 DEF CurrentInv
    <3>3. CASE cache = <<>>
      <4>1. Newest \in DOMAIN question
        BY <1>1, NewestQuiz
      <4> QED BY <3>1, <3>3, <4>1 DEF Fresh, SameAge
    <3> QED BY <3>2, <3>3
  <2> HIDE DEF answer
  <2>3. /\ v.JdlyId = answer.JdlyId /\ v.left = answer.secs - answer.age /\ v.due = FALSE
        /\ v.current = answer.current
    <3>1. view[e] \in Waiting
      BY <1>1, <2>1, Views
    <3> QED BY <3>1 DEF Waiting
  <2>4. InTime(v)
    <3>1. ASSUME v.current
          PROVE  /\ v.JdlyId \in DOMAIN question
                 /\ v.left = question[v.JdlyId].secs - question[v.JdlyId].age + 0
      <4>1. /\ v.JdlyId \in DOMAIN question
            /\ v.left = question[v.JdlyId].secs - question[v.JdlyId].age
        BY <2>2, <2>3, <3>1 DEF SameAge
      <4>2. question[v.JdlyId].secs \in Int /\ question[v.JdlyId].age \in Int
        BY <1>1, <4>1, Longest DEF Question
      <4> HIDE DEF v
      <4> QED BY <4>1, <4>2
    <3> HIDE DEF v
    <3> QED BY <2>3, <3>1 DEF InTime
  <2>5. \A f \in Employees : view'[f] = IF f = e THEN v ELSE view[f]
    BY <1>1, <2>1
  <2>6. DOMAIN cache' = {1} /\ cache'[1] = answer
    BY <2>1
  <2> HIDE DEF v
  <2>7. ASSUME NEW f \in Employees, view'[f] \in Running PROVE InTime(view[f])'
    BY <1>1, <2>1, <2>4, <2>5, <2>7 DEF CurrentInv, InTime
  <2>8. \A i \in DOMAIN cache' : SameAge(cache[i])'
    BY <2>1, <2>2, <2>6 DEF SameAge
  <2> QED BY <2>7, <2>8 DEF CurrentInv
<1>13. ASSUME NEW e \in Employees, GotNoVote(e) PROVE CurrentInv'
  <2> DEFINE v == [view[e] EXCEPT !.st = "running", !.left = NaN]
  <2>1. view[e] \in Waiting /\ view' = [view EXCEPT ![e] = v] /\ UNCHANGED <<question, cache>>
    BY <1>1, <1>13, Views DEF GotNoVote, server
  <2>2. v.JdlyId = 0
    BY <2>1 DEF Waiting
  <2>3. v \notin Running
    BY <2>2, QuizConstants DEF Running
  <2> HIDE DEF v
  <2> QED BY <1>4, <2>1, <2>3
<1>14. ASSUME NEW e \in Employees, BindChange(e) PROVE CurrentInv'
  <2>1. /\ view[e] \in Failed \cup Running /\ view' = [view EXCEPT ![e].chosen = @ + 1]
        /\ UNCHANGED <<question, cache>>
    BY <1>1, <1>14, Views DEF BindChange, server
  <2>2. view'[e] = [view[e] EXCEPT !.chosen = @ + 1] /\ \A f \in Employees \ {e} : view'[f] = view[f]
    BY <1>1, <2>1
  <2>3. /\ view'[e].JdlyId = view[e].JdlyId /\ view'[e].left = view[e].left
        /\ view'[e].due = view[e].due /\ view'[e].current = view[e].current
    BY <2>1, <2>2 DEF Failed, Running
  <2>4. view'[e] \in Running => view[e] \in Running
    BY <2>1, <2>3, QuizConstants DEF Failed, Running
  <2> QED BY <1>1, <2>1, <2>2, <2>3, <2>4, ViewKept
<1>15. ASSUME NEW e \in Employees, Voted(e) PROVE CurrentInv'
  <2>1. view' = [view EXCEPT ![e] = view[e]] /\ UNCHANGED <<question, cache>>
    BY <1>15 DEF Voted, Sent, server
  <2> QED BY <1>1, <1>2, <2>1
<1>16. ASSUME NEW e \in Employees,
              Quit(e) \/ Checked(e) \/ Posted(e)
       PROVE  CurrentInv'
  BY <1>2, <1>4, <1>5, <1>16 DEF Quit, Checked, Posted, Thanks, server
<1>17. ASSUME NEW e \in Employees, Lose(e) PROVE CurrentInv'
  <2>1. CASE UNCHANGED view
    BY <1>2, <1>17, <2>1 DEF Lose, server
  <2>2. CASE view[e].st = "sent" /\ view' = [view EXCEPT ![e].st = "lost"]
    <3>1. view[e] \in Waiting
      BY <1>1, <2>2, Views
    <3> DEFINE v == [view[e] EXCEPT !.st = "lost"]
    <3>2. v \in Waiting
      BY <3>1 DEF Waiting
    <3>3. view' = [view EXCEPT ![e] = v] /\ UNCHANGED <<question, cache>>
      BY <1>1, <1>17, <2>2 DEF Lose, server
    <3> HIDE DEF v
    <3> QED BY <1>4, <1>5, <3>2, <3>3
  <2> QED BY <1>17, <2>1, <2>2 DEF Lose
<1>18. ASSUME NEW e \in Employees,
              \/ Launch(e) \/ UserKnown(e) \/ GetUserInfo(e) \/ GotoVote(e) \/ ChekcUserCode(e)
              \/ \E r \in post[e].sent : Post(e, r)
       PROVE  CurrentInv'
  BY <1>2, <1>18 DEF Launch, UserKnown, GetUserInfo, GotoVote, ChekcUserCode, Post, server
<1> QED BY <1>3, <1>6, <1>7, <1>8, <1>9, <1>10, <1>11, <1>12, <1>13, <1>14, <1>15, <1>16, <1>17,
           <1>18 DEF Next, Handlers

\* What a step does to a page that counts down a quiz as it is in the table.
ThanksStep ==
  \A e \in Employees : page[e] = "vote" /\ page'[e] = "thanks" /\ view[e].current =>
    e \in taken \/ question[view[e].JdlyId].age >= question[view[e].JdlyId].secs

\* The steps that lead to the page that thanks are the answer of a post and the end of a
\* countdown.
LEMMA ThanksNext == JdlyInv /\ [Next]_vars => [ThanksStep]_vars
<1> SUFFICES ASSUME JdlyInv, Next, NEW e \in Employees, page[e] = "vote", page'[e] = "thanks",
                    view[e].current
             PROVE  e \in taken \/ question[view[e].JdlyId].age >= question[view[e].JdlyId].secs
  BY DEF ThanksStep
<1>1. page \in [Employees -> {"none", "index", "vote", "thanks"}] /\ PhoneInv
  BY DEF JdlyInv, PhoneInv
<1>2. ASSUME NEW f \in Employees, Timer(f)
      PROVE  question[view[e].JdlyId].age >= question[view[e].JdlyId].secs
  <2>1. CASE ~(view[f].left > 0)
    <3>1. f = e /\ view[e].due /\ view[e].st = "running"
      BY <1>1, <1>2, <2>1 DEF Timer, CountDown, Thanks
    <3>2. view[e] \in Running
      BY <1>1, <3>1, Views DEF Failed
    <3>3. /\ view[e].JdlyId \in DOMAIN question
          /\ \/ question[view[e].JdlyId].age = Old
             \/ view[e].left = question[view[e].JdlyId].secs - question[view[e].JdlyId].age + 1
      BY <3>1, <3>2 DEF JdlyInv, CurrentInv, InTime
    <3>4. question[view[e].JdlyId] \in Question
      BY <3>3 DEF JdlyInv, TableInv
    <3>5. /\ question[view[e].JdlyId].age \in Int /\ question[view[e].JdlyId].secs \in Int
          /\ question[view[e].JdlyId].secs <= Old /\ Old \in Int /\ view[e].left \in Int
          /\ view[e].left <= 0
      <4>1. question[view[e].JdlyId].age \in Int /\ question[view[e].JdlyId].secs \in 0 .. Max(Seconds)
        BY <3>4, Longest DEF Question
      <4>2. view[e].left \in Int /\ view[e].left <= 0
        BY <2>1, <3>1, <3>2, Longest DEF Running
      <4> QED BY <4>1, <4>2, Longest
    <3> QED BY <3>3, <3>5
  <2>2. CASE view[f].left > 0
    BY <1>2, <2>2 DEF Timer, CountDown
  <2> QED BY <2>1, <2>2
<1>3. ASSUME NEW f \in Employees, Posted(f) PROVE e \in taken
  <2>1. f = e /\ post[e].acknowledged
    BY <1>1, <1>3 DEF Posted, Thanks
  <2> QED BY <2>1 DEF JdlyInv, AnswersInv
<1>4. ASSUME NEW f \in Employees, Launch(f) \/ Quit(f) \/ Checked(f) PROVE FALSE
  BY <1>1, <1>4 DEF Launch, Quit, Checked
<1>5. ASSUME UNCHANGED page PROVE FALSE
  BY <1>5
<1>6. ASSUME NEW f \in Employees,
             \/ UserKnown(f) \/ GetUserInfo(f) \/ GotoVote(f) \/ Lose(f) \/ GotVote(f) \/ GotNoVote(f)
             \/ BindChange(f)
             \/ Voted(f) \/ ChekcUserCode(f) \/ \E r \in post[f].sent : Post(f, r)
      PROVE  FALSE
  BY <1>5, <1>6 DEF UserKnown, GetUserInfo, GotoVote, Lose, GotVote, GotNoVote, BindChange, Voted, Sent,
                    ChekcUserCode, Post
<1>7. CASE Tick \/ AddPost \/ Flush \/ ExpireVote \/ \E q \in DOMAIN question : ClearUp(q) \/ \E s \in Seconds : StartVote(q, s)
  BY <1>5, <1>7 DEF Tick, AddPost, Flush, ExpireVote, ClearUp, StartVote, phone
<1> QED BY <1>2, <1>3, <1>4, <1>6, <1>7 DEF Next, Handlers

-----------------------------------------------------------------------------
(* The theorems.                                                           *)

\* The invariant holds in every behaviour.
THEOREM QuizInvariant == Spec => []JdlyInv
<1>1. JdlyInv /\ [Next]_vars => JdlyInv'
  BY TableNext, PhoneNext, AnswersNext, CurrentNext DEF JdlyInv
<1> QED BY <1>1, JdlyInit, PTL DEF Spec

\* Every behaviour is well typed; among others no countdown, of whatever quiz and from
\* however old a cache, is longer than the longest quiz or below zero by more than that, but for
\* the one of an error answer, which is no number and stays none.
THEOREM QuizTyped == Spec => []TypeOK
BY JdlyTypes, QuizInvariant, PTL

\* No answer that leaves photos out gets to the server.
THEOREM AnswersComplete == Spec => []NoPartialAnswers
BY JdlyComplete, QuizInvariant, PTL

\* Nobody is thanked whose answer the server has not taken before the time of the quiz is up in
\* the table, unless it was changed since GetVote read it or GetVote failed.
THEOREM ThankedWhenDone == Spec => ThanksMeansDone
<1>1. Spec => [][ThanksStep]_vars
  BY ThanksNext, QuizInvariant, PTL DEF Spec
<1> QED BY <1>1 DEF ThanksStep, ThanksMeansDone
=============================================================================
