-------------------------------- MODULE Forms --------------------------------
(***************************************************************************)
(* The console's forms that keep a draft while the server is asked: the    *)
(* first-run wizard (app/setup) and the connection, agent, authentication, *)
(* sampling and identity provider forms (app/(app)/settings).              *)
(*                                                                         *)
(* One form is on the page of one tab.  A request is a server action; the  *)
(* tab sends its actions one after the other, so they run and answer in    *)
(* the order they were asked.  Most inputs stay open meanwhile.  An answer *)
(* may be lost after the action has run, which the form sees as a failure. *)
(* The actions' own statements and their audit are in ConfigStore and      *)
(* OidcLogin.                                                              *)
(***************************************************************************)
EXTENDS Naturals, Sequences

CONSTANTS Value,   \* what the main field can hold: a URL, a mode, a number of minutes
          Secret,  \* keys and secrets
          Blank,   \* an empty secret field, and no secret stored
          Keep     \* "undefined" or "null": leave the stored secret alone

ASSUME FormsAssumption == Blank \notin Secret /\ Keep \notin Secret /\ Blank # Keep

MaxAsked == 3  \* BOUND: server actions under way from one tab

VARIABLES
  form,     \* the form on the page
  ui,       \* its state in the browser
  asked,    \* the server actions under way, oldest first
  stored,   \* what the server has stored
  page,     \* the props: what was stored when the page was rendered
  others    \* somebody else has finished the setup

formVars == <<form, ui, asked, stored, page, others>>
server == <<stored, others>>

None == [main |-> Blank, secret |-> Blank]

\* No verdict of a probe is on the form.
Untested == [ok |-> FALSE, of |-> None]

HasSecret == page.secret # Blank

Busy(op) == \E i \in 1 .. Len(asked) : asked[i].op = op

Ask(op, with) ==
  /\ Len(asked) < MaxAsked
  /\ asked' = Append(asked, [op |-> op, with |-> with, props |-> page])

Answered(op) == asked # <<>> /\ Head(asked).op = op /\ asked' = Tail(asked)

With == Head(asked).with

\* What the form submits; a collapsed secret is left alone.
Draft == [main |-> ui.main, secret |-> IF ui.asking THEN ui.secret ELSE Keep]
Entered == [main |-> ui.main, secret |-> ui.secret]

Merged(with) ==
  [main |-> with.main, secret |-> IF with.secret = Keep THEN stored.secret ELSE with.secret]

\* The form as it is mounted over what is stored.
Mounted(f, settings, prefilled) ==
  [step |-> 0, identity |-> "operator",
   main |-> IF f = "wizard" THEN prefilled ELSE settings.main, secret |-> Blank,
   asking |-> settings.secret = Blank /\ f # "provider", open |-> FALSE,
   tested |-> Untested, saved |-> FALSE, error |-> FALSE, health |-> settings.main]

\* An answer of failure, or none: the action may have run all the same.
Failed(new) ==
  /\ ui' = [ui EXCEPT !.error = TRUE]
  /\ stored' \in {stored, new} /\ UNCHANGED page

\* A form that does not catch a lost answer leaves it to the page's error screen,
\* and "Try again" mounts it anew over the props it had.
Thrown(new) ==
  /\ ui' = Mounted(form, page, page.main)
  /\ stored' \in {stored, new} /\ UNCHANGED page

-----------------------------------------------------------------------------
(* The first-run wizard: 0 connect, 1 identity, 2 review, 3 in the console *)

Wizard == form = "wizard"

\* MUTANT: an edit keeps the probe's verdict.
WizardEdit_KeepsVerdict ==
  /\ Wizard /\ ui.step = 0
  /\ \E m \in Value, s \in Secret \cup {Blank} :
       ui' = [ui EXCEPT !.main = m, !.secret = s]
  /\ UNCHANGED <<form, asked, page, server>>

\* "Any edit to the credentials invalidates the last probe."  The inputs are
\* open while a probe is under way.
WizardEdit ==
  /\ Wizard /\ ui.step = 0
  /\ \E m \in Value, s \in Secret \cup {Blank} :
       ui' = [ui EXCEPT !.main = m, !.secret = s, !.tested = Untested]
  /\ UNCHANGED <<form, asked, page, server>>

WizardTest ==
  /\ Wizard /\ ui.step = 0 /\ ui.secret # Blank
  /\ ~Busy("probe") /\ Ask("probe", Entered)
  /\ UNCHANGED <<form, ui, page, server>>

\* The probe with a key: it may be refused by Headscale, or not be answered in time.
testHeadscaleConnection(key) ==
  IF key = Blank THEN {"error"} ELSE {"connected", "unauthorized", "error", "unreachable"}

Tested(statuses) ==
  \E status \in statuses \cup {"error"} :   \* a lost answer is a failed test
    ui' = [ui EXCEPT !.tested = [ok |-> status = "connected", of |-> With]]

\* Refused once the console is set up.
WizardTested ==
  /\ Wizard /\ Answered("probe")
  /\ Tested(IF stored = None THEN testHeadscaleConnection(With.secret) ELSE {})
  /\ UNCHANGED <<form, page, server>>

WizardIdentity ==
  /\ Wizard /\ ui.step = 1
  /\ \E i \in {"operator", "oidc", "incomplete"} : ui' = [ui EXCEPT !.identity = i]
  /\ UNCHANGED <<form, asked, page, server>>

WizardContinue ==
  /\ Wizard
  /\ \/ ui.step = 0 /\ ui.tested.ok
     \/ ui.step = 1 /\ ui.identity # "incomplete"
  /\ ui' = [ui EXCEPT !.step = @ + 1]
  /\ UNCHANGED <<form, asked, page, server>>

WizardBack ==
  /\ Wizard /\ ui.step \in {1, 2} /\ ~Busy("finish")
  /\ ui' = [ui EXCEPT !.step = @ - 1]
  /\ UNCHANGED <<form, asked, page, server>>

WizardFinish ==
  /\ Wizard /\ ui.step = 2 /\ ~Busy("finish")
  /\ Ask("finish", Entered)
  /\ ui' = [ui EXCEPT !.error = FALSE]
  /\ UNCHANGED <<form, page, server>>

\* A console that is set up is entered as it is.  Otherwise the configuration is
\* written or refused; a refusal of its identity half comes after the connection
\* was written.  The redirect may not reach the browser.
WizardFinished ==
  /\ Wizard /\ Answered("finish")
  /\ \E refused, written, lost \in BOOLEAN :
       /\ refused => stored = None /\ (written => ui.identity = "oidc")
       /\ refused \/ written
       /\ stored' = IF stored = None /\ written THEN With ELSE stored
       /\ ui' = IF refused \/ lost THEN [ui EXCEPT !.error = TRUE]
                                   ELSE [ui EXCEPT !.step = 3]
  /\ UNCHANGED <<form, page, others>>

\* Another wizard was faster.
SetupElsewhere ==
  /\ Wizard /\ stored = None /\ ui.step < 3
  /\ \E m \in Value, s \in Secret : stored' = [main |-> m, secret |-> s]
  /\ others' = TRUE
  /\ UNCHANGED <<form, ui, asked, page>>

-----------------------------------------------------------------------------
(* What the settings' forms share                                          *)

\* An edit takes the banner down.  The sampling field is locked while its
\* request is under way, the others are not.
Edited == [ui EXCEPT !.saved = FALSE, !.tested = Untested]

EditMain ==
  /\ form \in {"connection", "agent"} /\ UNCHANGED <<form, asked, page, server>>
  /\ \E m \in Value : ui' = [Edited EXCEPT !.main = m]

EditSecret ==
  /\ form \in {"connection", "agent"} /\ ui.asking /\ UNCHANGED <<form, asked, page, server>>
  /\ \E s \in Secret \cup {Blank} : ui' = [Edited EXCEPT !.secret = s]

\* "Rotate key", "Change secret".
OpenSecret ==
  /\ form \in {"connection", "agent"} /\ ~ui.asking
  /\ ui' = [Edited EXCEPT !.asking = TRUE]
  /\ UNCHANGED <<form, asked, page, server>>

\* "Keep the current key", "Keep the current secret".
KeepSecret ==
  /\ form \in {"connection", "agent"} /\ ui.asking /\ HasSecret
  /\ ui' = [Edited EXCEPT !.asking = FALSE, !.secret = Blank]
  /\ UNCHANGED <<form, asked, page, server>>

\* The page is rendered anew with the answer of the action that revalidates it.
Rendered == page' = stored'

-----------------------------------------------------------------------------
(* The connection form                                                     *)

CanProbe == /\ form = "connection" /\ ~Busy("probe") /\ ~Busy("save")
            /\ ui.secret # Blank \/ HasSecret

ConnectionTest ==
  /\ CanProbe /\ Ask("probe", Entered)
  /\ ui' = [ui EXCEPT !.saved = FALSE]
  /\ UNCHANGED <<form, page, server>>

\* A blank key probes with the stored one.
ConnectionTested ==
  /\ form = "connection" /\ Answered("probe")
  /\ Tested(testHeadscaleConnection(IF With.secret = Blank THEN stored.secret ELSE With.secret))
  /\ UNCHANGED <<form, page, server>>

ConnectionSave ==
  /\ CanProbe /\ Ask("save", Entered)
  /\ ui' = [ui EXCEPT !.saved = FALSE, !.error = FALSE]
  /\ UNCHANGED <<form, page, server>>

\* A blank key keeps the stored one.  The form collapses to it.
ConnectionSaved ==
  /\ form = "connection" /\ Answered("save")
  /\ LET new == [main |-> With.main,
                 secret |-> IF With.secret = Blank THEN stored.secret ELSE With.secret]
     IN \/ /\ stored' = new /\ Rendered
           /\ ui' = [ui EXCEPT !.saved = TRUE, !.secret = Blank, !.asking = FALSE,
                               !.tested = Untested]
        \/ Failed(new)
  /\ UNCHANGED <<form, others>>

-----------------------------------------------------------------------------
(* The agent panel                                                         *)

AgentProbe ==
  /\ form = "agent" /\ ~Busy("probe") /\ Ask("probe", None)
  /\ UNCHANGED <<form, ui, page, server>>

\* The health readout is of the settings stored when the probe ran; an answer
\* that is lost leaves the last one, and after a save also the save's error.
AgentProbed ==
  /\ form = "agent"
  /\ \/ Answered("probe") /\ \/ ui' = [ui EXCEPT !.health = stored.main]
                             \/ UNCHANGED ui
     \/ Answered("refresh") /\ \/ ui' = [ui EXCEPT !.health = stored.main]
                               \/ ui' = [ui EXCEPT !.error = TRUE]
  /\ UNCHANGED <<form, page, server>>

AgentSave ==
  /\ form = "agent" /\ ~Busy("save") /\ ~Busy("refresh")
  /\ Ask("save", Draft)
  /\ ui' = [ui EXCEPT !.saved = FALSE, !.error = FALSE]
  /\ UNCHANGED <<form, page, server>>

\* MUTANT: the readout is left as it was.
AgentSaved_NoRefresh ==
  /\ form = "agent" /\ Answered("save")
  /\ stored' = Merged(With) /\ Rendered
  /\ ui' = [ui EXCEPT !.saved = TRUE, !.secret = Blank, !.asking = FALSE]
  /\ UNCHANGED <<form, others>>

\* "A secret is now either stored or cleared; collapse."  Then the health is
\* probed again, behind whatever was asked meanwhile.
AgentSaved ==
  /\ form = "agent" /\ asked # <<>> /\ Head(asked).op = "save"
  /\ \/ /\ stored' = Merged(With) /\ Rendered
        /\ ui' = [ui EXCEPT !.saved = TRUE, !.secret = Blank, !.asking = FALSE]
        /\ asked' = Append(Tail(asked), [op |-> "refresh", with |-> None, props |-> stored'])
     \/ Failed(Merged(With)) /\ asked' = Tail(asked)
  /\ UNCHANGED <<form, others>>

-----------------------------------------------------------------------------
(* The authentication form and the sampling panel: one value               *)

SelectMode ==
  /\ form = "authentication"
  /\ \E m \in Value : ui' = [ui EXCEPT !.main = m, !.saved = FALSE, !.error = FALSE]
  /\ UNCHANGED <<form, asked, page, server>>

EditInterval ==
  /\ form = "sampling" /\ ~Busy("save")
  /\ \E m \in Value : ui' = [ui EXCEPT !.main = m, !.saved = FALSE]
  /\ UNCHANGED <<form, asked, page, server>>

SaveValue ==
  /\ form \in {"authentication", "sampling"}
  /\ ui.main # page.main /\ ~Busy("save") /\ Ask("save", Entered)
  /\ ui' = [ui EXCEPT !.saved = FALSE, !.error = FALSE]
  /\ UNCHANGED <<form, page, server>>

ValueSaved ==
  /\ form \in {"authentication", "sampling"} /\ Answered("save")
  /\ LET new == [stored EXCEPT !.main = With.main]
     IN \/ stored' = new /\ Rendered /\ ui' = [ui EXCEPT !.saved = TRUE]
        \/ Failed(IF form = "authentication" THEN new ELSE stored)
        \/ form = "sampling" /\ Thrown(new)
  /\ UNCHANGED <<form, others>>

-----------------------------------------------------------------------------
(* The provider dialog, editing a row                                      *)

Reset(was) == [ui EXCEPT !.main = was.main, !.secret = Blank, !.asking = FALSE,
                           !.error = FALSE, !.open = FALSE]

OpenProvider ==
  /\ form = "provider" /\ ~ui.open
  /\ ui' = [ui EXCEPT !.open = TRUE]
  /\ UNCHANGED <<form, asked, page, server>>

\* Cancel, Escape or a click beside it, at any time.
CloseProvider ==
  /\ form = "provider" /\ ui.open
  /\ ui' = Reset(page)
  /\ UNCHANGED <<form, asked, page, server>>

EditProvider ==
  /\ form = "provider" /\ ui.open
  /\ \/ \E m \in Value : ui' = [ui EXCEPT !.main = m]
     \/ ~ui.asking /\ ui' = [ui EXCEPT !.asking = TRUE]
     \/ ui.asking /\ ui' = [ui EXCEPT !.asking = FALSE, !.secret = Blank]
     \/ ui.asking /\ \E s \in Secret : ui' = [ui EXCEPT !.secret = s]
  /\ UNCHANGED <<form, asked, page, server>>

SubmitProvider ==
  /\ form = "provider" /\ ui.open /\ ~Busy("save")
  /\ Ask("save", Draft)
  /\ ui' = [ui EXCEPT !.error = FALSE]
  /\ UNCHANGED <<form, page, server>>

\* The handler goes on with the provider of the render it was made in.
ProviderSaved ==
  /\ form = "provider" /\ Answered("save")
  /\ LET new == [main |-> With.main,
                 secret |-> IF With.secret \in Secret THEN With.secret ELSE stored.secret]
     IN \/ stored' = new /\ Rendered /\ ui' = Reset(Head(asked).props)
        \/ Failed(stored)
        \/ Thrown(new)
  /\ UNCHANGED <<form, others>>

-----------------------------------------------------------------------------

Form == {"wizard", "connection", "agent", "authentication", "sampling", "provider"}

Settings(f) == IF f = "wizard" THEN {None} ELSE [main : Value, secret : Secret \cup {Blank}]

FormsInit ==
  /\ form \in Form /\ stored \in Settings(form)
  /\ page = stored /\ asked = <<>> /\ others = FALSE
  /\ \E prefilled \in Value : ui = Mounted(form, stored, prefilled)

\* Another settings page is opened; the wizard's is left only by finishing it.
Navigate ==
  /\ asked = <<>> /\ (Wizard => ui.step = 3)
  /\ form' \in Form \ {"wizard"} /\ stored' \in Settings(form')
  /\ page' = stored' /\ ui' = Mounted(form', stored', stored'.main)
  /\ UNCHANGED <<asked, others>>

WizardNext == \/ WizardEdit \/ WizardTest \/ WizardTested \/ WizardIdentity
              \/ WizardContinue \/ WizardBack \/ WizardFinish \/ WizardFinished
              \/ SetupElsewhere
SecretNext == EditMain \/ EditSecret \/ OpenSecret \/ KeepSecret
ConnectionNext == ConnectionTest \/ ConnectionTested \/ ConnectionSave \/ ConnectionSaved
AgentNext == AgentProbe \/ AgentProbed \/ AgentSave \/ AgentSaved
ValueNext == SelectMode \/ EditInterval \/ SaveValue \/ ValueSaved
ProviderNext == OpenProvider \/ CloseProvider \/ EditProvider \/ SubmitProvider \/ ProviderSaved

FormsNext == \/ WizardNext \/ SecretNext \/ ConnectionNext
             \/ AgentNext \/ ValueNext \/ ProviderNext \/ Navigate

FormsSpec == FormsInit /\ [][FormsNext]_formVars

-----------------------------------------------------------------------------
(* Properties                                                              *)

\* A wizard that enters the console nobody else set up finds the connection it
\* showed for review stored, also when it had to finish twice because the first
\* answer was lost: a retry cannot bring other credentials past the probe.
SetupIsReviewed == Wizard /\ ui.step = 3 /\ ~others => stored = Entered

\* When nothing is under way, the agent's health readout beside a "saved" banner
\* is of the settings saved, in whatever order tests and saves were pressed,
\* unless the panel says that something failed.
HealthIsOfSaved ==
  form = "agent" /\ ui.saved /\ ~ui.error /\ asked = <<>> => ui.health = stored.main
=============================================================================
