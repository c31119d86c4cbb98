------------------------------ MODULE WhatsAppPage ------------------------------
(* What the publisher does on the page of WhatsApp Web:                       *)
(* publisher-connectors, WhatsAppGroupsWebPublisher over                      *)
(* PlaywrightWhatsAppWebPageAdapter, with evaluateOutgoingDelivery. An errand *)
(* (publish, preflight, dry run, inspection of a draft or of a delivery)      *)
(* opens a session under the lock of the profile, so there is one at a time.  *)
(* The page is WhatsApp's: it may show less than was sent, another chat than  *)
(* was clicked, another text than was typed, and people use the account from  *)
(* the phone and the visible window. What is sent is in the chats; the queue  *)
(* and the dispatcher that call publish are in WhatsAppDispatch.              *)
EXTENDS Naturals, Sequences

CONSTANTS Posts, Groups,
          GroupOf, TextOf, HasImage,   \* of a post; sendImage and an image URL
          Texts, NoText,
          UrlOf, TitleOf,              \* what of a text the confirmation looks for
          PagePlans,                   \* [errands: of posts and kinds, chats, faults]
          AllowTextFallback,           \* WHATSAPP_WEB_ALLOW_TEXT_FALLBACK
          TimeSlack,                   \* the 60 s of evaluateOutgoingDelivery
          NoGroup,
          MaxPageTime

Messages == [by : Nat, text : Texts \cup {NoText}, image : BOOLEAN,
             state : {"PENDING", "UNKNOWN", "SENT", "ERROR"}, at : Nat]

ASSUME PageAssumption ==
  /\ GroupOf \in [Posts -> Groups] /\ TextOf \in [Posts -> Texts]
  /\ HasImage \in [Posts -> BOOLEAN] /\ AllowTextFallback \in BOOLEAN
  /\ NoText \notin Texts /\ NoGroup \notin Groups
  /\ {TimeSlack, MaxPageTime} \subseteq Nat
  /\ \A c \in PagePlans : /\ c.chats \in [Groups -> Seq(Messages)]
                          /\ \A g \in Groups : \A k \in DOMAIN c.chats[g] : c.chats[g][k].by = 0

VARIABLES plan,           \* which errands, and bound of what disturbs them
          chats,          \* outgoing messages of each group, oldest first
          drafts,         \* text that WhatsApp keeps in the composer of a group
          page,           \* open group, typed text, attached image, unloaded messages
          errands,        \* all so far; only the last may be under way
          shows,          \* what the messages on the page carry: "ids", "times"
          pageTime, pageFaults

pageVars == <<plan, chats, drafts, page, errands, shows, pageTime, pageFaults>>

ErrandKinds == {"publish", "preflight", "dryRun", "draft", "delivery"}
NoPage == [group |-> NoGroup, text |-> NoText, image |-> FALSE, unloaded |-> 0]

NewErrand(p, kind, since) ==
  [post |-> p, kind |-> kind, pc |-> "open", image |-> FALSE, tries |-> 0,
   result |-> "none", clickedAt |-> since, baseline |-> <<>>, within |-> NoGroup, unloaded |-> 0,
   upset |-> {}]

PageInit ==
  /\ plan \in PagePlans /\ chats = plan.chats
  /\ drafts = [g \in Groups |-> NoText]
  /\ page = NoPage
  /\ errands = <<>>
  /\ shows \in SUBSET {"ids", "times"}
  /\ pageTime = 0 /\ pageFaults = 0

latest == Len(errands)
errand == errands[latest]
Under(pcs) == errands # <<>> /\ errand.pc \in pcs
Update(e) == errands' = [errands EXCEPT ![latest] = e]
Step(pc) == Update([errand EXCEPT !.pc = pc])
Finish(result) == Update([errand EXCEPT !.pc = "close", !.result = result])
Expected == TextOf[errand.post]
PageFault == pageFaults < plan.faults /\ pageFaults' = pageFaults + 1
Calm == UNCHANGED <<plan, shows, pageTime>>

(* withConnectedSession: a fresh page, under the lock of the profile. A post  *)
(* is published once, and its delivery inspected after that.                  *)
StartErrand(p, kind) ==
  LET sent == {n \in DOMAIN errands : /\ errands[n].post = p /\ errands[n].kind = "publish"
                                      /\ errands[n].result \in {"PUBLISHED", "UNCERTAIN"}}
  IN  /\ latest < Len(plan.errands) /\ plan.errands[latest + 1] = <<p, kind>>
      /\ (errands # <<>> => errand.pc = "done")
      /\ kind = "publish" => sent = {}
      /\ kind = "delivery" => sent # {}
      /\ errands' = Append(errands, NewErrand(p, kind,
           IF kind = "delivery" THEN errands[CHOOSE n \in sent : TRUE].clickedAt ELSE 0))
      /\ page' = NoPage
      /\ UNCHANGED <<chats, drafts, pageFaults>> /\ Calm

(* openExactGroup: the group with exactly this name is searched, clicked, and *)
(* its header and composer are looked at. Any of it may fail, also the login. *)
OpenExactGroup ==
  /\ Under({"open"})
  /\ \/ /\ page' = [page EXCEPT !.group = GroupOf[errand.post],
                                !.text = drafts[GroupOf[errand.post]]]
        /\ Step(IF errand.kind = "delivery" THEN "inspect" ELSE "media")
     \/ Finish("FAILED") /\ UNCHANGED page
  /\ UNCHANGED <<chats, drafts, pageFaults>> /\ Calm

(* prepareMedia: without an image the text goes alone, if that is allowed.    *)
PrepareMedia ==
  /\ Under({"media"})
  /\ \/ ~ HasImage[errand.post] /\ Step("text")
     \/ /\ HasImage[errand.post]
        /\ \/ Update([errand EXCEPT !.pc = "attach", !.image = TRUE])
           \/ AllowTextFallback /\ Step("text")
           \/ Finish("FAILED")
  /\ UNCHANGED <<chats, drafts, page, pageFaults>> /\ Calm

Fail == Update([errand EXCEPT !.pc = "clear", !.result = "FAILED"])

(* attachImage: the editor may be open although the preview was not seen.     *)
AttachImage ==
  /\ Under({"attach"})
  /\ \/ page' = [page EXCEPT !.image = TRUE] /\ Step("caption")
     \/ Fail /\ \E open \in BOOLEAN : page' = [page EXCEPT !.image = open]
  /\ UNCHANGED <<chats, drafts, pageFaults>> /\ Calm

(* The text replaces what was there; the page may keep something else.        *)
Typed ==
  \/ page' = [page EXCEPT !.text = Expected] /\ UNCHANGED pageFaults
  \/ PageFault /\ \E t \in Texts \cup {NoText} : page' = [page EXCEPT !.text = t]

Prepared == IF errand.kind = "publish" THEN "persist" ELSE "validate"

(* fillCaption: typed and read again, twice at most.                          *)
FillCaption ==
  /\ Under({"caption"})
  /\ \/ /\ Typed
        /\ IF page'.text = Expected THEN Step(Prepared)
           ELSE IF errand.tries = 1 THEN Fail
           ELSE Update([errand EXCEPT !.tries = 1])
     \/ Fail /\ UNCHANGED <<page, pageFaults>>
  /\ UNCHANGED <<chats, drafts>> /\ Calm

(* fillText: not read again here.                                             *)
FillText ==
  /\ Under({"text"})
  /\ \/ Typed /\ Step(Prepared)
     \/ Fail /\ UNCHANGED <<page, pageFaults>>
  /\ UNCHANGED <<chats, drafts>> /\ Calm

(* persistSendState before the validation.                                    *)
PersistPreSend ==
  /\ Under({"persist"})
  /\ Step("validate") \/ Fail
  /\ UNCHANGED <<chats, drafts, page, pageFaults>> /\ Calm

(* validatePreSend: the header, the text, the preview and the send button; a  *)
(* dry run does not look at the header and the button. What a person changes  *)
(* from here on is in upset.                                                  *)
GroupIsOpen == page.group = GroupOf[errand.post]

DraftIsExact == page.text = Expected /\ (errand.image => page.image)

ValidatePreSend ==
  /\ Under({"validate", "revalidate"})
  /\ \/ /\ DraftIsExact
        /\ errand.kind = "dryRun" \/ GroupIsOpen
        /\ IF errand.kind # "publish"
           THEN Update([errand EXCEPT !.pc = "clear", !.result = "READY", !.upset = {}])
           ELSE Update([errand EXCEPT !.upset = {},
                  !.pc = IF errand.pc = "validate" THEN "revalidate" ELSE "baseline"])
     \/ Fail
  /\ UNCHANGED <<chats, drafts, page, pageFaults>> /\ Calm

(* captureOutgoingBaseline: the messages that the page has loaded.            *)
CaptureBaseline ==
  /\ Under({"baseline"})
  /\ \/ Update([errand EXCEPT !.pc = "mark", !.baseline = chats[page.group],
                              !.within = page.group, !.unloaded = page.unloaded])
     \/ Fail
  /\ UNCHANGED <<chats, drafts, page, pageFaults>> /\ Calm

(* The marker counts from before its write: if that fails, nothing is clicked *)
(* and nothing is cleared, and the outcome is uncertain.                      *)
MarkClick ==
  /\ Under({"mark"})
  /\ Step("click") \/ Finish("UNCERTAIN")
  /\ UNCHANGED <<chats, drafts, page, pageFaults>> /\ Calm

Outgoing(state) ==
  [by |-> latest, text |-> page.text, image |-> page.image, state |-> state, at |-> pageTime]

(* clickSendTrigger: the button is looked at once more, the draft is not. The *)
(* click may be lost, and an error may follow a click that was not.           *)
ClickSendTrigger ==
  /\ Under({"click"})
  /\ \/ UNCHANGED <<chats, page>>
     \/ /\ page.text # NoText \/ page.image
        /\ \E state \in {"PENDING", "UNKNOWN"} :
             chats' = [chats EXCEPT ![page.group] = Append(@, Outgoing(state))]
        /\ page' = [page EXCEPT !.text = NoText, !.image = FALSE]
  /\ \/ Update([errand EXCEPT !.pc = "record", !.clickedAt = pageTime])
     \/ Finish("UNCERTAIN")
  /\ UNCHANGED <<drafts, pageFaults>> /\ Calm

(* Two writes: the click is over, the confirmation begins.                    *)
RecordClick ==
  /\ Under({"record"})
  /\ Step("confirm") \/ Finish("UNCERTAIN")
  /\ UNCHANGED <<chats, drafts, page, pageFaults>> /\ Calm

(* identityHash: the id of the message or, without, its place on the page.    *)
Identity(g, k, unloaded) == IF "ids" \in shows THEN <<g, k>> ELSE <<NoGroup, k - unloaded>>

Fingerprint(m) == <<m.text, m.image, m.state>>

IsVisible(k) == k > page.unloaded

IsNewOrMutated(k) ==
  \A j \in errand.unloaded + 1 .. Len(errand.baseline) :
    Identity(errand.within, j, errand.unloaded) = Identity(page.group, k, page.unloaded) =>
      Fingerprint(errand.baseline[j]) # Fingerprint(chats[page.group][k])

HasUrl(m, p) == m.text # NoText /\ UrlOf[m.text] = UrlOf[TextOf[p]]
HasTitle(m, p) == m.text # NoText /\ TitleOf[m.text] = TitleOf[TextOf[p]]
TimeCoherent(m, e) == "times" \in shows => m.at + TimeSlack >= e.clickedAt

(* evaluateOutgoingDelivery over captureOutgoingCandidates: a message with the*)
(* URL and the title, with an image if one is expected, that is neither       *)
(* pending nor failed. A failed one that comes before ends the evaluation.    *)
Confirmed(requireMutation, mediaExpected) ==
  LET chat == chats[page.group]
      p == errand.post
      loaded == page.unloaded + 1 .. Len(chat)
  IN  \E k \in loaded :
        /\ requireMutation => IsNewOrMutated(k)
        /\ HasUrl(chat[k], p) /\ HasTitle(chat[k], p)
        /\ mediaExpected => chat[k].image
        /\ TimeCoherent(chat[k], errand)
        /\ chat[k].state \notin {"ERROR", "PENDING"}
        /\ \A j \in loaded : j < k /\ (HasUrl(chat[j], p) \/ HasTitle(chat[j], p))
                               => chat[j].state # "ERROR"

(* confirmOutgoingMessage, until the deadline, and the write that follows.    *)
ConfirmDelivery ==
  /\ Under({"confirm"})
  /\ \/ Confirmed(TRUE, errand.image) /\ Finish("PUBLISHED")
     \/ Finish("UNCERTAIN")
  /\ UNCHANGED <<chats, drafts, page, pageFaults>> /\ Calm

(* inspectExistingDelivery: any message since the click that looks right. The *)
(* search in the group may load older ones.                                   *)
InspectDelivery ==
  /\ Under({"inspect"})
  /\ \E unloaded \in {page.unloaded, 0} : page' = [page EXCEPT !.unloaded = unloaded]
  /\ Finish(IF Confirmed(FALSE, HasImage[errand.post]) THEN "MATCH" ELSE "NO_MATCH")
  /\ UNCHANGED <<chats, drafts, pageFaults>> /\ Calm

(* clearDraft, which the page may ignore. Only the errands that do not send   *)
(* look whether it worked (isDraftClear); a human may still reject a draft.   *)
ClearDraft ==
  /\ Under({"clear"})
  /\ \E t \in {page.text, NoText}, i \in {page.image, FALSE} :
       /\ page' = [page EXCEPT !.text = t, !.image = i]
       /\ Finish(IF errand.result = "READY" /\ (t # NoText \/ i) THEN "FAILED"
                 ELSE errand.result)
  /\ UNCHANGED <<chats, drafts, pageFaults>> /\ Calm

(* The browser is closed and the lock released; WhatsApp keeps the text.      *)
CloseSession ==
  /\ Under({"close"})
  /\ drafts' = [g \in Groups |-> IF g = page.group THEN page.text ELSE drafts[g]]
  /\ page' = NoPage
  /\ Step("done")
  /\ UNCHANGED <<chats, pageFaults>> /\ Calm
-----------------------------------------------------------------------------
(* The rest of the world. Between errands nobody looks at the page, so what   *)
(* happens then may as well happen when the next one has begun.               *)
UnderWay == errands # <<>> /\ errand.pc # "done"

MessageSettles ==
  /\ UnderWay
  /\ \E g \in Groups : \E k \in DOMAIN chats[g] :
       /\ chats[g][k].state \in {"PENDING", "UNKNOWN"}
       /\ \E state \in {"SENT", "ERROR"} :
            chats' = [chats EXCEPT ![g][k].state = state]
  /\ UNCHANGED <<drafts, page, errands, pageFaults>> /\ Calm

(* The owner of the account forwards a text from the phone.                   *)
PhoneSends ==
  /\ UnderWay /\ PageFault
  /\ \E g \in Groups, t \in Texts :
       chats' = [chats EXCEPT ![g] = Append(@,
         [by |-> 0, text |-> t, image |-> TRUE, state |-> "SENT", at |-> pageTime])]
  /\ UNCHANGED <<drafts, page, errands>> /\ Calm

Upsets(what) == Update([errand EXCEPT !.upset = @ \cup {what}])

(* The list of messages is a window on the chat: the page loads and unloads.  *)
ListMoves ==
  /\ page.group # NoGroup /\ PageFault
  /\ \E unloaded \in 0 .. Len(chats[page.group]) :
       page' = [page EXCEPT !.unloaded = unloaded]
  /\ Upsets("list")
  /\ UNCHANGED <<chats, drafts>> /\ Calm

(* A person at the window opens another chat, types, or removes the image; or *)
(* the page does.                                                             *)
SomeoneTouches ==
  /\ page.group # NoGroup /\ PageFault
  /\ \/ \E g \in Groups \ {page.group} : page' = [NoPage EXCEPT !.group = g, !.text = drafts[g]]
     \/ \E t \in (Texts \cup {NoText}) \ {page.text} : page' = [page EXCEPT !.text = t]
     \/ page.image /\ page' = [page EXCEPT !.image = FALSE]
  /\ Upsets("page")
  /\ UNCHANGED <<chats, drafts>> /\ Calm

PageTimePasses ==
  /\ UnderWay /\ pageTime < MaxPageTime /\ pageTime' = pageTime + 1
  /\ UNCHANGED <<chats, drafts, page, errands, plan, shows, pageFaults>>

PageNext ==
  \/ \E p \in Posts, kind \in ErrandKinds : StartErrand(p, kind)
  \/ OpenExactGroup \/ PrepareMedia \/ AttachImage \/ FillCaption \/ FillText
  \/ PersistPreSend \/ ValidatePreSend \/ CaptureBaseline \/ MarkClick \/ ClickSendTrigger
  \/ RecordClick \/ ConfirmDelivery \/ InspectDelivery \/ ClearDraft \/ CloseSession
  \/ MessageSettles \/ PhoneSends \/ ListMoves \/ SomeoneTouches \/ PageTimePasses

PageSpec == PageInit /\ [][PageNext]_pageVars
-----------------------------------------------------------------------------
MessagesOf(n) ==
  UNION {{<<g, k>> : k \in {i \in DOMAIN chats[g] : chats[g][i].by = n}} : g \in Groups}

PageTypeOK ==
  /\ drafts \in [Groups -> Texts \cup {NoText}]
  /\ page.group \in Groups \cup {NoGroup} /\ page.text \in Texts \cup {NoText}
  /\ \A n \in DOMAIN errands : n < latest => errands[n].pc = "done"
  /\ errands # <<>> /\ errand.pc \notin {"open", "close", "done"} => page.group # NoGroup
  /\ {pageTime, pageFaults} \subseteq Nat

(* A message that an errand sends is the post's, in the post's group, with    *)
(* the image if one was attached, whatever the page showed or kept before,    *)
(* unless someone changed the page after the last validation; and an errand   *)
(* that is not a publication or reports a failure has sent nothing.           *)
SentAsAsked ==
  \A n \in DOMAIN errands : \A w \in MessagesOf(n) :
    LET e == errands[n]
        m == chats[w[1]][w[2]]
    IN  /\ e.kind = "publish" /\ e.result \in {"none", "PUBLISHED", "UNCERTAIN"}
        /\ \/ "page" \in e.upset
           \/ w[1] = GroupOf[e.post] /\ m.text = TextOf[e.post] /\ m.image = e.image

(* A message that a confirmation may take for the one the errand sent: it     *)
(* looks the same, and came from elsewhere since the baseline, was not yet    *)
(* settled or not loaded then, or has been given another place on a page that *)
(* shows no ids.                                                              *)
Rival(n, k) ==
  LET e == errands[n]
      m == chats[GroupOf[e.post]][k]
  IN  /\ m.by # n /\ HasUrl(m, e.post) /\ HasTitle(m, e.post) /\ TimeCoherent(m, e)
      /\ \/ k \notin e.unloaded + 1 .. Len(e.baseline)
         \/ e.baseline[k].state # "SENT"
         \/ "ids" \notin shows /\ "list" \in e.upset

(* A publication is confirmed by the message its own click sent, and never by *)
(* an older message of the same offer, unless there is a rival to it or       *)
(* someone changed the page after the last validation.                        *)
ConfirmedIsOurs ==
  \A n \in DOMAIN errands :
    LET e == errands[n]
    IN  e.result = "PUBLISHED" =>
          \/ "page" \in e.upset
          \/ \E w \in MessagesOf(n) : w[1] = GroupOf[e.post]
          \/ \E k \in DOMAIN chats[GroupOf[e.post]] : Rival(n, k)

(* What goes out is what was asked for, and what counts as published went out. *)
PostingIsTrue == SentAsAsked /\ ConfirmedIsOurs
=============================================================================
