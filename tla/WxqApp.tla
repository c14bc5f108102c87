------------------------------- MODULE WxqApp -------------------------------
(***************************************************************************)
(* The guests' mini-program WxqApp: it sends texts and photos to the wall. *)
(* A photo takes three requests: a token of the server, the upload to the  *)
(* file store, and the message with its URL. Which photo is uploaded is    *)
(* read when the token arrives, not when it is asked for.                  *)
(***************************************************************************)
EXTENDS Naturals

CONSTANTS
  Photos,         \* photos on the phone
  NoPhoto

VARIABLES
  userInfo,       \* of globalData: "unknown", "refused" or "known"
  page,           \* the data of the page
  token,          \* whether GetToken has been asked and not answered
  confirmed,      \* for which photo it has been
  upload          \* the photo that is being uploaded

vars == <<userInfo, page, token, confirmed, upload>>

\* Whether msgData is not empty, previewImgSrc, and what the guest is asked to confirm.
Page == [msgData |-> FALSE, previewImgSrc |-> NoPhoto, modal |-> "none"]

SetData(data) == page' = data /\ UNCHANGED <<userInfo, token, confirmed, upload>>

\* onLaunch's getUserInfo answers, with the userInfoReadyCallback of the page.
OnLaunch ==
  /\ userInfo # "known"
  /\ userInfo' = "known"
  /\ UNCHANGED <<page, token, confirmed, upload>>

\* The button of the page, which is there while hasUserInfo is not set: it is set even when the
\* guest refuses.
GetUserInfo ==
  /\ userInfo = "unknown"
  /\ userInfo' \in {"refused", "known"}
  /\ UNCHANGED <<page, token, confirmed, upload>>

\* The form is shown once hasUserInfo is set; a modal question hides it.
Form == userInfo # "unknown" /\ page.modal = "none"

\* textInput and textConfirm.
TextInput(typed) == Form /\ typed # page.msgData /\ SetData([page EXCEPT !.msgData = typed])

\* takePhoto asks whether to send the photo. Its button is hidden while a photo is previewed.
Chosen(photo) == SetData([page EXCEPT !.previewImgSrc = photo, !.modal = "photo"])

\* Mutated form: the button is always there.
MutantTakePhoto(photo) == Form /\ Chosen(photo)

TakePhoto(photo) == Form /\ page.previewImgSrc = NoPhoto /\ Chosen(photo)

\* The guest says no, to takePhoto's question or postMsg's.
Cancel ==
  /\ page.modal # "none"
  /\ SetData([page EXCEPT !.modal = "none",
                          !.previewImgSrc = IF page.modal = "photo" THEN NoPhoto ELSE @])

\* He says yes to takePhoto's: sendImg asks for a token.
SendImg ==
  /\ page.modal = "photo"
  /\ token' = TRUE
  /\ confirmed' = page.previewImgSrc
  /\ page' = [page EXCEPT !.modal = "none"]
  /\ UNCHANGED <<userInfo, upload>>

\* postMsg asks whether to send the message, also when there is only a photo.
PostMsg ==
  /\ Form
  /\ page.msgData \/ page.previewImgSrc # NoPhoto
  /\ SetData([page EXCEPT !.modal = "txt"])

\* He says yes: a text is sent and the field emptied without waiting for an answer. sendTxt
\* fails before both where userInfo is null.
TextSent == page.msgData /\ userInfo = "known"
SendTxt ==
  /\ page.modal = "txt"
  /\ SetData([page EXCEPT !.modal = "none", !.msgData = @ /\ ~TextSent])

\* The callback of sendImg: it uploads the photo previewed by now, or fails for want of a name.
UploadImg ==
  /\ token
  /\ token' = FALSE
  /\ confirmed' = NoPhoto
  /\ upload' = IF userInfo = "known" THEN page.previewImgSrc ELSE NoPhoto
  /\ UNCHANGED <<userInfo, page>>

\* The callback of uploadImg, which sends the message.
Uploaded ==
  /\ upload # NoPhoto
  /\ upload' = NoPhoto
  /\ page' = [page EXCEPT !.previewImgSrc = NoPhoto]
  /\ UNCHANGED <<userInfo, token, confirmed>>

\* One of the two requests fails. (error is no callback of wx.request: nothing happens.)
Lost ==
  /\ token \/ upload # NoPhoto
  /\ token' = FALSE /\ confirmed' = NoPhoto /\ upload' = NoPhoto
  /\ UNCHANGED <<userInfo, page>>

=============================================================================
