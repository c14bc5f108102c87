----------------------------- MODULE KaiBanner -----------------------------
(***************************************************************************)
(* The carousel of the picture wall (wwwroot/js/jquery.kaibanner.js). It   *)
(* shows the pictures of a page one after another; the page changes them   *)
(* and calls init again after each change. The interval timer ticks after  *)
(* three seconds, unless a change or a click restarts it before.           *)
(***************************************************************************)
EXTENDS Integers, Sequences

VARIABLES
  children,       \* the pictures of $bannerBody; the page's variable
  maxIndex,       \* as startUp last computed it
  currentIndex,   \* the picture that is shown, if there is one
  direction       \* "toRight" or "toLeft"

\* startUp; clearInterval and setInterval restart the timer. The page has changed the children.
StartUp == maxIndex' = Len(children') - 1

\* init: bindEvent adds the handlers once more, which do the same again, and startUp.
Init == StartUp /\ UNCHANGED <<currentIndex, direction>>

\* The constructor: initializeEles, setConfig and init.
KaiBanner ==
  /\ currentIndex' = 0
  /\ direction' = "toRight"
  /\ StartUp

Show(index, dir) ==
  /\ currentIndex' = index
  /\ direction' = dir
  /\ UNCHANGED <<children, maxIndex>>

\* Mutated forms: it turns back one picture too late; it begins anew one too early.
MutantTickLeft ==
  IF direction = "toLeft"
  THEN Show(currentIndex - 1, IF currentIndex - 1 < 0 THEN "toRight" ELSE "toLeft")
  ELSE Show(IF currentIndex + 1 > maxIndex THEN 0 ELSE currentIndex + 1, "toRight")
MutantTickRight ==
  IF direction = "toLeft"
  THEN Show(currentIndex - 1, IF currentIndex - 1 <= 0 THEN "toRight" ELSE "toLeft")
  ELSE Show(IF currentIndex + 1 >= maxIndex THEN 0 ELSE currentIndex + 1, "toRight")

\* The timer of startUp ticks; animate shows the picture. At the right end it begins anew.
Tick ==
  \/ /\ direction = "toRight"
     /\ Show(IF currentIndex + 1 > maxIndex THEN 0 ELSE currentIndex + 1, "toRight")
  \/ /\ direction = "toLeft"
     /\ Show(currentIndex - 1, IF currentIndex - 1 <= 0 THEN "toRight" ELSE "toLeft")

\* A click on the i-th small picture, or between them (then i is the index shown):
\* bottomBtnsClickHandle and delayAnimate, which starts up again. Only a click turns the
\* carousel to the left.
BottomBtnsClickHandle(i) ==
  /\ i + 1 \in DOMAIN children \/ i = currentIndex
  /\ Show(i, IF i = 0 THEN "toRight" ELSE IF i = maxIndex THEN "toLeft" ELSE direction)

=============================================================================
