------------------------------- MODULE Dialogs -------------------------------
(***************************************************************************)
(* The console's dialogs around one server action: those that mint a key   *)
(* and show it once (machines, pre-auth keys, API keys, the account's own  *)
(* keys), the row menus of keys that confirm in place, and the menus of    *)
(* machines and users whose forms are mounted only while they are open.    *)
(*                                                                         *)
(* Cancel is locked while a request is under way, but Escape, the corner's *)
(* cross and a click beside the dialog close it at any time.  A request    *)
(* goes on then, and its answer finds the dialog closed, opened again, or  *)
(* its component no longer on the page.  The tab's actions run one after   *)
(* the other; the page is rendered anew with the answer of one that        *)
(* revalidates it.                                                         *)
(***************************************************************************)
EXTENDS Naturals, Sequences

CONSTANT MaxKeys  \* BOUND: keys minted, requests under way

ASSUME DialogsAssumption == MaxKeys \in Nat

VARIABLES
  host,    \* the dialog or menu looked at
  dlg,     \* its state in the browser
  sent,    \* its requests under way, oldest first
  minted,  \* how many keys it has minted
  rows,    \* the list behind it has rows
  gone     \* keys whose dialog was closed after showing them

dialogVars == <<host, dlg, sent, minted, rows, gone>>

NoKey == 0

-----------------------------------------------------------------------------
(* The server actions: how each can answer.  Any answer can be lost.  "removed"
   takes the row away, and with it the menu that asked. *)

createDeviceKey == {"minted", "refused"}
createPreAuthKey == {"minted", "refused"}
createApiKey == {"minted", "refused"}
createPersonalApiKey == {"minted", "refused"}
registerDevice == {"done", "refused"}

renameNode == {"done", "refused"}
setNodeTags == {"done", "refused"}
moveNodeOwner == {"done", "refused"}
expireNode == {"done", "refused"}
deleteNode == {"removed", "refused"}
saveNodeMetadata == {"done", "refused"}
clearNodeMetadata == {"done", "refused"}
createUser == {"done", "refused"}
renameUser == {"done", "refused"}
deleteUser == {"removed", "refused"}
expirePreAuthKey == {"done", "refused"}
deletePreAuthKey == {"removed", "refused"}
expireApiKey == {"done", "refused"}
deleteApiKey == {"removed", "refused"}
revokePersonalApiKey == {"removed", "refused"}
revokeSession == {"removed", "refused"}
signOutOtherSessions == {"done", "refused"}
updateMemberRole == {"done", "refused"}
removeMember == {"removed", "refused"}
toggleProvider == {"done", "refused"}
deleteProvider == {"removed", "refused"}

-----------------------------------------------------------------------------
(* The dialogs that mint: their modes with what each asks, and where they  *)
(* stand.  A twin stands in the header when the list behind it has rows and *)
(* in the list's empty state when it has none.                              *)

AddDevice == [asks |-> [create |-> createDeviceKey, existing |-> {}, register |-> registerDevice],
              twin |-> FALSE, linked |-> FALSE]

\* The same dialog opened by a link: closing it unmounts it.
DeepLink == [AddDevice EXCEPT !.linked = TRUE]
PreAuthKey == [asks |-> [create |-> createPreAuthKey], twin |-> TRUE, linked |-> FALSE]
PersonalKey == [asks |-> [create |-> createPersonalApiKey], twin |-> TRUE, linked |-> FALSE]

\* Headtower's own key is always listed, so this list has rows.
ApiKey == [asks |-> [create |-> createApiKey], twin |-> FALSE, linked |-> FALSE]

Mint == [addDevice |-> AddDevice, deepLink |-> DeepLink, preAuthKey |-> PreAuthKey,
         personalKey |-> PersonalKey, apiKey |-> ApiKey]

-----------------------------------------------------------------------------
(* The menus: what they ask behind a dialog and directly, and whether the  *)
(* dialogs' state is the host's own or a form's that is mounted while open. *)

FormMenu(asks) == [asks |-> asks, direct |-> <<>>, inHost |-> FALSE]
InPlace(asks, direct) == [asks |-> asks, direct |-> direct, inHost |-> TRUE]

NodeMenu == FormMenu([rename |-> renameNode, tags |-> setNodeTags, move |-> moveNodeOwner,
                   expire |-> expireNode, delete |-> deleteNode])
NodeMetadata == FormMenu([metadata |-> saveNodeMetadata \cup clearNodeMetadata])
UserMenu == FormMenu([rename |-> renameUser, delete |-> deleteUser])
PreAuthKeyMenu == InPlace([expire |-> expirePreAuthKey, delete |-> deletePreAuthKey], <<>>)
ApiKeyMenu == InPlace([expire |-> expireApiKey, delete |-> deleteApiKey], <<>>)
PersonalKeyRow == InPlace([revoke |-> revokePersonalApiKey], <<>>)
SessionRow == InPlace([revoke |-> revokeSession], <<>>)
SignOutOthers == InPlace([signOut |-> signOutOtherSessions], <<>>)
AddUser == InPlace([create |-> createUser], <<>>)
ProviderRow == InPlace([delete |-> deleteProvider], [toggle |-> toggleProvider])

\* "a stray click shouldn't be enough": the role of owner is behind a dialog.
MemberRow == InPlace([promote |-> updateMemberRole, remove |-> removeMember],
                     [role |-> updateMemberRole])

Menu == [node |-> NodeMenu, metadata |-> NodeMetadata, user |-> UserMenu,
         preAuthKeyRow |-> PreAuthKeyMenu, apiKeyRow |-> ApiKeyMenu,
         personalKeyRow |-> PersonalKeyRow, session |-> SessionRow,
         otherSessions |-> SignOutOthers, addUser |-> AddUser,
         provider |-> ProviderRow, member |-> MemberRow]

Host == DOMAIN Mint \cup DOMAIN Menu
Mints == host \in DOMAIN Mint
Lists == host \in DOMAIN Menu

\* The component as it is mounted.
Fresh == [open |-> "no", key |-> NoKey, error |-> FALSE, typed |-> FALSE, since |-> FALSE]

\* A request whose component, or whose form, is still there to be told.
Under == \E i \in 1 .. Len(sent) : sent[i].heard
Orphaned == [i \in 1 .. Len(sent) |-> [sent[i] EXCEPT !.heard = FALSE]]

Send(op) == sent' = Append(sent, [op |-> op, heard |-> TRUE])
Answer(op) == sent # <<>> /\ Head(sent).op = op /\ sent' = Tail(sent)

\* An action that throws takes the page to its error screen, and "Try again"
\* mounts everything anew.
ScreenLost ==
  /\ sent # <<>> /\ Head(sent).heard
  /\ dlg' = Fresh /\ sent' = Tail(Orphaned)

-----------------------------------------------------------------------------
(* Dialogs that mint                                                       *)

\* MUTANT: closing leaves the dialog's state for the next opening.
CloseMint_Keeps ==
  /\ Mints /\ dlg.open # "no"
  /\ dlg' = [dlg EXCEPT !.open = "no"]
  /\ gone' = gone \cup ({dlg.key} \ {NoKey})
  /\ UNCHANGED <<host, sent, minted, rows>>

\* handleOpenChange(false): "Closing discards it from the UI."
CloseMint ==
  /\ Mints /\ dlg.open # "no"
  /\ dlg' = Fresh
  /\ gone' = gone \cup ({dlg.key} \ {NoKey})
  /\ sent' = IF Mint[host].linked THEN Orphaned ELSE sent
  /\ UNCHANGED <<host, minted, rows>>

OpenMint ==
  /\ Mints /\ dlg.open = "no"
  /\ dlg' = [dlg EXCEPT !.open = "create"]
  /\ UNCHANGED <<host, sent, minted, rows, gone>>

\* The mode tabs: "Switching modes ... resets whatever was in progress."  They
\* are locked while a request is under way.
SwitchMode ==
  /\ Mints /\ dlg.open # "no" /\ ~Under
  /\ \E m \in DOMAIN Mint[host].asks \ {dlg.open} : dlg' = [Fresh EXCEPT !.open = m]
  /\ gone' = gone \cup ({dlg.key} \ {NoKey})
  /\ UNCHANGED <<host, sent, minted, rows>>

Asks == Mint[host].asks

\* The form is replaced by the key, so a dialog that shows one sends nothing.
SubmitMint ==
  /\ Mints /\ dlg.open # "no" /\ Asks[dlg.open] # {} /\ dlg.key = NoKey
  /\ ~Under /\ minted + Len(sent) < MaxKeys
  /\ Send(dlg.open)
  /\ UNCHANGED <<host, dlg, minted, rows, gone>>

\* The answer to a request of one of these.
Answers(asks, outcome) ==
  \E op \in DOMAIN asks : outcome \in asks[op] /\ Answer(op)

\* The empty state, and the twin in it, leave the page with the first row.
TwinReplaced == Mint[host].twin /\ ~rows

KeyMinted ==
  /\ Mints /\ Answers(Asks, "minted")
  /\ minted' = minted + 1
  /\ rows' = (rows \/ Mint[host].twin)
  /\ dlg' = IF TwinReplaced THEN Fresh
            ELSE IF Head(sent).heard THEN [dlg EXCEPT !.key = minted', !.error = FALSE]
            ELSE dlg
  /\ UNCHANGED <<host, gone>>

\* "Register device": the confirmation names the machine, there is no key.
Registered ==
  /\ Mints /\ Answers(Asks, "done")
  /\ dlg' = IF Head(sent).heard THEN [dlg EXCEPT !.error = FALSE] ELSE dlg
  /\ UNCHANGED <<host, minted, rows, gone>>

MintRefusal ==
  /\ Mints /\ Answers(Asks, "refused")
  /\ dlg' = IF Head(sent).heard THEN [dlg EXCEPT !.error = TRUE] ELSE dlg
  /\ UNCHANGED <<host, minted, rows, gone>>

\* The answer is lost; the key may have been minted.
MintLost ==
  /\ Mints /\ ScreenLost
  /\ \/ UNCHANGED <<minted, rows>>
     \/ minted' = minted + 1 /\ rows' = (rows \/ Mint[host].twin)
  /\ UNCHANGED <<host, gone>>

\* The page is rendered anew after somebody else made or removed rows: the twin
\* that is no longer on it takes its state along.
Rerendered ==
  /\ Mints /\ Mint[host].twin
  /\ \E now \in BOOLEAN :
       /\ now # rows /\ rows' = now
       /\ dlg' = Fresh /\ sent' = Orphaned
  /\ gone' = gone \cup ({dlg.key} \ {NoKey})
  /\ UNCHANGED <<host, minted>>

-----------------------------------------------------------------------------
(* Menus                                                                   *)

InHost == Menu[host].inHost

\* What may be sent: not while this component, or this form, waits; and a
\* machine's or a user's deletion only with its name typed out.
CanSubmit == ~Under /\ (dlg.open = "delete" /\ ~InHost => dlg.typed)

\* MUTANT: a form keeps what was typed when the menu closes it.
OpenMenu_Mounted ==
  /\ Lists /\ dlg.open = "no"
  /\ \E k \in DOMAIN Menu[host].asks : dlg' = [dlg EXCEPT !.open = k, !.since = FALSE]
  /\ UNCHANGED <<host, sent, minted, rows, gone>>

\* "Its working form only mounts while open."  A host's state is not touched.
OpenMenu ==
  /\ Lists /\ dlg.open = "no"
  /\ \E k \in DOMAIN Menu[host].asks :
       dlg' = IF InHost THEN [dlg EXCEPT !.open = k] ELSE [Fresh EXCEPT !.open = k]
  /\ UNCHANGED <<host, sent, minted, rows, gone>>

\* A host forgets the error; a form is unmounted with what it waits for.
CloseMenu ==
  /\ Lists /\ dlg.open # "no"
  /\ dlg' = [dlg EXCEPT !.open = "no", !.error = IF InHost THEN FALSE ELSE @]
  /\ sent' = IF InHost THEN sent ELSE Orphaned
  /\ UNCHANGED <<host, minted, rows, gone>>

\* Inputs are locked while their form waits.
TypeName ==
  /\ Lists /\ dlg.open # "no" /\ ~InHost /\ ~Under
  /\ dlg' = [dlg EXCEPT !.typed = TRUE, !.since = TRUE]
  /\ UNCHANGED <<host, sent, minted, rows, gone>>

SubmitMenu ==
  /\ Lists /\ dlg.open # "no" /\ CanSubmit /\ Len(sent) < MaxKeys
  /\ Send(dlg.open)
  /\ UNCHANGED <<host, dlg, minted, rows, gone>>

\* A role that is not the owner's, a provider's switch.
Switch ==
  /\ Lists /\ dlg.open = "no" /\ ~Under /\ Len(sent) < MaxKeys
  /\ \E k \in DOMAIN Menu[host].direct : Send(k)
  /\ UNCHANGED <<host, dlg, minted, rows, gone>>

Switched ==
  /\ Lists /\ Answers(Menu[host].direct, "done")
  /\ UNCHANGED <<host, dlg, minted, rows, gone>>

\* onDone(), close(): the host closes whatever is open by then; a member's row
\* keeps its dialogs apart.
MenuDone ==
  /\ Lists /\ Answers(Menu[host].asks, "done")
  /\ dlg' = IF host = "member" /\ dlg.open # Head(sent).op THEN dlg
            ELSE [dlg EXCEPT !.open = "no", !.error = IF InHost THEN FALSE ELSE @]
  /\ UNCHANGED <<host, minted, rows, gone>>

\* The menu goes with its row; the next one looked at is another's.
MenuRemoved ==
  /\ Lists /\ sent # <<>> /\ Head(sent).op \in DOMAIN Menu[host].asks
  /\ "removed" \in Menu[host].asks[Head(sent).op]
  /\ dlg' = Fresh /\ sent' = Tail(Orphaned)
  /\ UNCHANGED <<host, minted, rows, gone>>

MenuRefused ==
  /\ Lists /\ (Answers(Menu[host].asks, "refused") \/ Answers(Menu[host].direct, "refused"))
  /\ dlg' = IF Head(sent).heard THEN [dlg EXCEPT !.error = TRUE] ELSE dlg
  /\ UNCHANGED <<host, minted, rows, gone>>

MenuLost == Lists /\ ScreenLost /\ UNCHANGED <<host, minted, rows, gone>>

-----------------------------------------------------------------------------

DialogsInit ==
  /\ host \in Host /\ dlg = Fresh /\ sent = <<>> /\ minted = 0 /\ gone = {}
  /\ rows \in BOOLEAN

MintNext == \/ CloseMint \/ OpenMint \/ SwitchMode \/ SubmitMint \/ KeyMinted \/ Registered
            \/ MintRefusal \/ MintLost \/ Rerendered
MenuNext == \/ OpenMenu \/ CloseMenu \/ TypeName \/ SubmitMenu
            \/ Switch \/ Switched \/ MenuDone \/ MenuRemoved \/ MenuRefused \/ MenuLost

DialogsNext == MintNext \/ MenuNext

DialogsSpec == DialogsInit /\ [][DialogsNext]_dialogVars

-----------------------------------------------------------------------------
(* Properties                                                              *)

\* A key that was shown and closed is not shown again, by whichever opening,
\* late answer or new render; and the key on screen is the last one minted.
ShownOnce == dlg.open # "no" /\ dlg.key # NoKey => dlg.key \notin gone /\ dlg.key = minted

\* A machine or a user is deleted only after its name was typed into the dialog
\* as it was opened this time, whatever was typed or sent before.
DeleteIsTyped ==
  [][Lists /\ ~InHost /\ Len(sent') > Len(sent) /\ dlg.open = "delete" => dlg.since]_dialogVars

\* personal-api-keys.tsx:34, "the dialog reveals the raw token exactly once": a
\* key minted while its dialog is open is on screen.
MintedIsRevealed ==
  [][KeyMinted /\ host = "personalKey" /\ dlg.open = "create" => dlg'.key = minted']_dialogVars
=============================================================================
