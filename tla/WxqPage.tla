------------------------------ MODULE WxqPage ------------------------------
(***************************************************************************)
(* The page wxq of the voters' mini-program VoteWeapp: an older form of    *)
(* what WxqApp does, without questions. A text is sent as often as the     *)
(* button is tapped, also an empty one; and the photo may be changed while *)
(* the token is under way, so that another one is uploaded than the guest  *)
(* sent. See WxqApp for the variables.                                     *)
(***************************************************************************)
EXTENDS Naturals

CONSTANTS Photos, NoPhoto

VARIABLES userInfo, page, token, confirmed, upload

\* pickIndex and previewImgSrc.
Page == [pickIndex |-> "txt", previewImgSrc |-> NoPhoto]

SetData(data) == page' = data /\ UNCHANGED <<userInfo, token, confirmed, upload>>

\* app.js of VoteWeapp: userInfo arrives some time.
OnLaunch ==
  /\ userInfo = "unknown"
  /\ userInfo' = "known"
  /\ UNCHANGED <<page, token, confirmed, upload>>

BindPickerChange(pick) == pick # page.pickIndex /\ SetData([page EXCEPT !.pickIndex = pick])

TakePhoto(photo) ==
  page.pickIndex = "img" /\ photo # page.previewImgSrc /\ SetData([page EXCEPT !.previewImgSrc = photo])

\* postMsg, where texts are picked: sendTxt, which fails where userInfo is null.
TextSent == userInfo = "known"
SendTxt == page.pickIndex = "txt" /\ SetData(page)

\* postMsg, where photos are: sendImg. (The model has one request for a token at a time.)
SendImg ==
  /\ page.pickIndex = "img" /\ ~token /\ upload = NoPhoto
  /\ token' = TRUE
  /\ confirmed' = page.previewImgSrc
  /\ UNCHANGED <<userInfo, page, upload>>

\* The callback of sendImg: it uploads the photo previewed by now, if there is one.
UploadImg ==
  /\ token
  /\ token' = FALSE
  /\ confirmed' = NoPhoto
  /\ upload' = page.previewImgSrc
  /\ UNCHANGED <<userInfo, page>>

\* The callback of uploadImg, which sends the message, or fails where userInfo is null.
PhotoSent == userInfo = "known"
Uploaded ==
  /\ upload # NoPhoto
  /\ upload' = NoPhoto
  /\ UNCHANGED <<userInfo, page, token, confirmed>>

\* One of the two requests fails.
Lost ==
  /\ token \/ upload # NoPhoto
  /\ token' = FALSE /\ confirmed' = NoPhoto /\ upload' = NoPhoto
  /\ UNCHANGED <<userInfo, page>>

=============================================================================
