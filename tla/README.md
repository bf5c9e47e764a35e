# Headtower, verified

TLA+ models of [Headtower](../src/README.md), the Next.js admin console for a
Headscale control plane, with the TLC runs that check them and the TLAPS proofs
about them. Paths below are relative to `src/src/` of the repository unless they
start with `agent/`.

## The system

Headtower is a server-rendered console. Pages read, Server Actions write; what
it stores itself lives in one SQLite file (`lib/db/client.ts`, `lib/db/schema.ts`);
what it administers lives in Headscale, behind an HTTP API (`lib/headscale`). An
optional sidecar in Go (`agent/`) joins the tailnet and bridges SSH to a
websocket.

| Component | State | Operations | Hard behaviour | What makes it correct |
|---|---|---|---|---|
| Accounts, roles, sessions (`lib/auth/session.ts`, `lib/authz`, `lib/rbac`, Members, Account, logout, login callback) | `app_user`, `session`, the browser's cookie | sign-in upsert, gate, change role, remove member, revoke session, sign out (others) | read-then-write over several statements; the caller demoted while it waits for the crypto pool; removal during sign-in | never locked out of ownership; ownership only by bootstrap or an owner; no session without an account; one account per identity |
| Policy history (`lib/db/policy-revisions.ts`, Access page and its actions) | `policy_revision`, Headscale's document, the document a page was rendered with | save, keep, deploy, rename, remove, baseline capture during a render | slow, rejected, lost and late PUTs; other writers of the policy; the row removed during the PUT | a stamp proves an accepted push; an accepted push is stamped; one row per document; labels survive; a rollback target exists |
| Configuration and first-run setup (`lib/config`, `lib/db/settings.ts`, `app/setup`, Settings > Connection, Agent, Database) | `app_settings` rows, environment, a per-request memo | `setConfig` section by section, clear, setup, retry | a throw between two row writes; two wizards; environment fallback per field | URL and key belong together; setup saves all or nothing; a disabled section stays off |
| OIDC providers and login transaction (`lib/auth/oidc.ts`, `lib/auth/oidc-providers.ts`, `app/login`, Identity providers and Authentication pages) | `oidc_provider`, legacy slot, discovery cache, transaction cookies | add, edit, toggle, delete, migrate, disable all, enable all, begin and complete a login | a discovery in flight across an edit; late failures; a death halfway through the migration; rotated secrets | the cache agrees with the row; nobody waits for nothing; the slot is emptied only when its provider is a row; the kill switch kills |
| Snapshot sampling (`lib/sampler`, `lib/db/snapshots.ts`, Dashboard action) | `snapshot`, timers, `reportedFailure` | tick, dashboard visit, change interval | two writers through one throttle; overlapping ticks; failures | never two samples in one interval; sampling resumes |
| Route approval (`app/(app)/routes`, `lib/headscale/routes.ts`) | Headscale's approved and advertised sets, each page's snapshot | approve, revoke, exit node, approve all | whole-set replacement from a stale snapshot; a batch failing half way | other approvals are preserved; nothing unadvertised is approved |
| Machines and local metadata (`app/(app)/machines`, `lib/db/node-metadata.ts`) | Headscale's nodes, `node_metadata` | rename, move, tag, expire, delete, bulk forms, annotate; the list's selection and bulk bar | bulk calls that half fail, time out or lose their answer; annotating a node being deleted; ids used again | metadata follows its node; bulk actions take what is on screen; a batch ends |
| SSH terminal and bridge (`terminal/actions.ts`, `ssh-terminal.tsx`, `agent/ssh.go`) | token, websocket, terminal state, pty, two goroutines | mint, connect, resize, data, exit, close, unmount | late answers and events after unmount; shell exit racing output and client close; a target that answers nothing | no connection left behind; the pty has the terminal's size; the exit report comes last; once the browser is gone the bridge ends or waits for the target alone |
| Policy document, workbench, evaluator, linter (`lib/policy`, the Access page's client components) | the text, the builder's rows and root, the baseline, a save and fetches under way, the test's answer | edit in two views, load a revision, save, ask, lint | a builder out of step with the text; typing during a save; re-renders; groups that contain each other; masks of no bits | the builder shows the text; an edit changes one place; the baseline was live; verdicts and warnings agree with a reference |
| Setup wizard and settings forms (`app/setup`, Settings > Connection, Agent, Authentication, Database, Identity providers) | a draft, verdicts of probes, "saved" and error banners, requests under way | edit, probe, save, step, retry, mount anew | inputs stay open while the server is asked; answers lost after the action ran; two saves | what is set up is what was reviewed; the readout beside "saved" is of what was saved |
| Dialogs of keys, machines, users and members (`components/machines`, `app/(app)/settings`, `users`, `account`) | open dialog, mode, what was typed, the key shown, requests under way | mint, register, rename, tag, move, expire, delete, revoke, switch | closing, reopening and unmounting under a request; a render that takes the dialog away | a key is shown once, by the dialog that made it; a deletion is typed |
| Pages that only read (`dashboard/page.tsx`, `machines/page.tsx` and its table, cards and export, `machines/[id]/page.tsx`, the key tables) | none: derived from Headscale's answer and the clock | render | two reads that Headscale answers differently; four windows over one stamp; a list that is cut off | pages agree; what is due is listed |
| Audit trail (`lib/audit`, `audit/page.tsx`, its filters and export) | `audit_log`, the page in the browser, an export under way | append, show a page, filter, page on and back, export | rows appended between two pages, two batches, or the two statements of one read | whoever walks the trail misses nothing that was there |
| Command palette (`components/command-palette.tsx`, `lib/command-palette-data.ts`) | open, query, cursor, devices and activity as last answered, recents in the storage the tabs share | open, type, move, choose, open a terminal | answers after closing and reopening; several tabs; storage that takes nothing | the recents are the last visits, each once |
| Users' pages (`users/page.tsx`, `users/[id]/page.tsx`) | none: derived from Headscale's users and `app_user` | render | one join written twice, over fields that may be empty or shared | both pages name the same person |
| Headscale client, HuJSON text, agent reader, charts | see `PROJECT.json` | one call each, or rendering | timeouts | folded into the components that use them |

How they interact: every action starts at the gate of `lib/authz` (session row,
account row, capability), calls Headscale or the database or both, appends an
audit row best-effort and revalidates its page. The state shared between
requests is the SQLite file, Headscale, and three process-wide caches (prepared
statements, OIDC discovery, the sampler's flags).

### What can interleave

Two facts of the code fix the grain of every model.

* **One process.** `node:sqlite` is synchronous and the Drizzle bridge
  (`lib/db/client.ts`) awaits nothing, so between two queries a request only
  passes through the microtask queue. Another request gets the thread only while
  this one waits for the crypto pool (`jose`), the network, or a timer. The
  models mark the program counters at which a request keeps its thread
  (`OnThread`) and guard everyone else with `ThreadFree`.
* **Several processes on one file.** The sampler's comments
  (`lib/sampler/index.ts:29`) contemplate two server instances; WAL mode and
  `busy_timeout` make it work. Then each SQL statement is atomic and nothing
  more. `Instance` is a constant, so one module covers both: with one element
  the thread excludes, with two it does not.

## Modules

| Module | Models | Runs and proofs |
|---|---|---|
| `Accounts` | `upsertOidcUser`, `createSession`, `loadSession`, `authorize`, `updateMemberRole`, `removeMember`, `revokeSession`, `signOutOtherSessions`, `logout` | `Accounts_one`, `AccountsProofs` |
| `PolicyRevisions` | `savePolicy`, `saveRevision`, `deployRevision`, `renameRevision`, `removeRevision`, the Access page's baseline capture, the PUT and its failures | `Policy_one`, `PolicyProofs` |
| `PolicyHistory` | the promise of the history, abstractly: absent, draft, deployed | refined by `PolicyRevisions` |
| `Sampler` | `startSampler`, `sampleTailnetSize`, `captureTailnetSnapshot`, `recordSnapshotThrottled`, `saveSamplingInterval` | `Sampler_one`, `SamplerProofs` |
| `Routes` | the Routes board, `setRouteApproval`, `setExitApproval`, `approveAllPending`, and what the nodes and the CLI do meanwhile | `Routes_board`, `RoutesProofs` |
| `ConfigStore` | `getConfig`, `setConfig`, `completeSetupAction`, `saveConnection`, `saveAgent`, `setAgentEnabled`, the clearing of the OIDC slot | `Config_save`, `Config_setup`, `ConfigProofs` |
| `OidcLogin` | provider rows and their pages, the legacy slot and its migration, the kill switch, `getOidcConfiguration` with its cache, `startLogin` and the callback | `Oidc_login`, `Oidc_removed`, `OidcProofs` |
| `Fleet` | the machines list with its selection and bulk bar, `deleteNode`, `bulkDeleteNodes` and the other single and bulk actions, `node_metadata` and its clean-up | `Fleet_list`, `FleetProofs` |
| `SshTerminal` | the connect effect of `ssh-terminal.tsx`, the mint action, `bridgeSSH` with its two goroutines | `Console`, `ConsoleProofs` |
| `Forms` | the setup wizard and the connection, agent, authentication, sampling and provider forms, each against its Server Actions | `Console`, `ConsoleProofs` |
| `Dialogs` | the dialogs that mint keys or register machines, the row menus, and the menus of machines, users, members and providers | `Console`, `Console_mint`, `ConsoleProofs` |
| `Overview` | `toNodeView`, `expiringSoon`, `toAttention` and what the pages derive with them, as operators on the tailnet | `Console`, `ConsoleProofs` |
| `AuditTrail` | `recordAudit`, `listAudit` statement by statement, the audit page with its filters and links, the CSV export | `Console` |
| `Palette` | the command palette, its Server Actions and the recents of several tabs | `Console` |
| `Directory` | `matchAccounts` of the users' list and `matchAccount` of a user's page, with what each shows | `Console`, `ConsoleProofs` |
| `MCConsole` | the last seven side by side: a behaviour is one part's | `Console`, `Console_mint` |
| `PolicyModel` | `parsePolicy` and `serializePolicy` as operators | used by the next eight |
| `PolicyTokens` | what a token's form is and where it is declared, for evaluator and linter | |
| `PolicyEval` | `evaluateReachability` and the address arithmetic of `tokens.ts` as operators, and a reference definition | `PolicyProofs` |
| `SelectorWalk` | `expand`, the evaluator's recursive function, call by call | `PolicyProofs` |
| `PolicyLint` | `lintPolicy` as an operator, and the nodes a token may stand for | |
| `PolicyEditor` | `PolicyWorkbench`, the visual editor's changes, `loadRevision`, the save, the question of the Test tab | |
| `BuilderFields` | the fields with text of their own: `CapabilityEditor` and `TokenInput`, under every step of the workbench | `PolicyProofs` |
| `PolicyFindings` | the workbench with these fields composed with the linter | `PolicyProofs` |
| `PolicyTest` | that composed with the evaluator, and side by side with its walk | `Policy_test`, `PolicyProofs` |
| `MC*` | symmetry sets, views and instances for TLC; `MCTokens` is the vocabulary of `MCPolicyTest` | |

### Accounts

State: `role`, `sub` (the `app_user` rows), `userId` (the `session` rows),
`lapsed` (sessions whose expiry has passed), `cookie` (each browser's),
`req` (each browser's request in flight: where it is, what it has read).
`issued` are the keys handed out (UUIDs are not reused), `audited` the removals
the trail reports. One action per SQL statement; the crypto waits are `sign`
(the new cookie), `reload` and `end` (a second verification). Inputs that the
browser chooses (the member, the new role, the session id to revoke) range over
everything, known or not.

Bounds: two browsers, three sessions and accounts, two subjects, one process. The
races need two requests and one bystander; `KeysLeft` starts a sign-in only while
fresh keys remain for every sign-in in flight, so no request ever blocks on the
bound.

### PolicyRevisions

State: `live` (Headscale's document), `late` (PUTs the console gave up on),
`document`, `deployed`, `note`, `nextId` (the table), `page` (what each operator's
Access page was rendered with), `req`. A document stands for its SHA-256 digest
as well: the model assumes no collisions. History variables: `accepted`
(documents Headscale accepted from the console), `owed` (acknowledged pushes),
`forgotten` (documents removed by an operator). No guard reads the last two.

The refinement to `PolicyHistory` maps a document's rows to `absent`, `draft` or
`deployed`; inserting and stamping are `Store` and `Stamp`, a removal is `Forget`,
everything else stutters or is `Accept`.

Bounds: two documents, two operators, two rows ever inserted (`MaxRevisions`):
enough for remove-and-save-again, for two writers of one document, and for a
rollback; a request that may insert starts only while ids remain (`IdsLeft`).

### Sampler

State: `age` (time since the newest sample, capped at `MaxAge`), `interval` and
`connected` (the setting, and whether there is a connection), `up` and `fleet`
(Headscale), `job` (the ticks and visits in flight, each with the window it
throttles by), `reported` (the flag of each process). `last` is a history of how the
newest row came about. One action per query or network wait: the tick's cheap check
before it calls Headscale, the answer or its failure, the throttle's read, the
insert. A tick may fire at any time while sampling is on: the throttle, not the
timer, is what keeps the distance.

Bounds: `MaxAge` is at least the largest interval, above which ages look alike.
Intervals on both sides of the dashboard's `Floor`, and 0 for off. Two jobs are the
smallest number that overlaps; `SamplesAreSpaced` is proved for any.

Fairness (`FairSpec`): the clock passes and a job that has the thread runs on
(`WF`); a call to Headscale is settled and the timer comes round although the
thread and the job slots are shared (`SF`). `SamplingResumes` is stated for calm
times (`Calm`, `Steady`): from some point on, no restart, no throwing statement and one
setting, with sampling on and Headscale answering. Nothing is assumed of visits.

### ConfigStore

State: `store` (the rows of `app_settings`, a secret with the `HEADTOWER_SECRET` it was
sealed under), `env`, `master`, and `req` (the statements a save has still to
run, as `setConfig` computes them: a list that may end in a throw). `Headscale`,
`Oidc` and `Agent` are `getConfig`. Histories: `torn` (a process died within a save of
the section, and no later save completed), `given`, `choice`.

Since `setConfig` awaits nothing, only a death of the process, a failing statement
or another process comes between two rows. `Redeploy` changes the environment and
the secret between requests. Inputs cover one invalid value (`Bad`), blank and
left-out fields. A wizard refused for a missing session secret changes nothing and
has no action.

With two processes (`Instance = {i1, i2}`) `SavedIsEffective` fails: there is no
transaction around a section, so two saves interleave row by row.

Bounds: two URLs and two keys where pairs matter, one provider; environments that
give each variable one value or none, and an invalid agent URL. One wizard or page at a time on one process
is every interleaving there is. `setting` chooses, at the start, the pages in use
and the rows kept: the connection and the agent are checked apart (`Settings`), since
their sections share no row.

### Routes

State: `available` and `approved` (what Headscale holds of each node), `board` (what
each operator's Routes page was rendered from), `req` (the action in flight: the nodes
it has still to write, the one it has read, what it read, and the nodes it has
written). `since` is a history: what the nodes of a request have carried since it
began. A row click, the exit row, and the card's or header's approve-all are the ways
to begin; `Read` is `routes.forNode`, with `setRouteApproval`'s refusal of a route that is no
longer advertised; `Write` replaces the whole set, from the board for what is approved
and from the read for what is carried, as `NewSet` says for each operation. `Fail` is
a refused or lost call at any point; `GiveUp` a write the console stopped waiting for,
which may still `Land`. `OutOfBand` and `Advertise` are the CLI, another operator and
the nodes, between any two steps. Headscale is taken to store the set it is given.

`OnlyCarried` holds with everything out of date. `UndisturbedIsExact` says what is
left when nobody interferes: the whole-set write equals the per-route change that was
asked for (`Asked`), provided the default routes are approved together or not at all
(`Together`). Without that proviso it fails (see the disagreements below).

Bounds: one operator, because `OutOfBand` does to the others whatever another
operator's write could; one node with one subnet and the two default routes, because
both properties speak of one node's write, and a batch that stopped half way is one whose
other nodes were never written. The operator whose write was given up waits until it
landed or was lost. The theorems have none of these bounds but the last.

### OidcLogin

State: `row` (the provider rows, with the `HEADTOWER_SECRET` their client secret was
sealed under), `stored` and `env` (the legacy slot, from `app_settings` or the
environment), `cache` (`configurationCache`: an entry that is resolved, or under way
with the tab whose discovery it is), `flight` (the discoveries under way), `tab` (each
request of a browser tab: on its way to the provider, or back at the callback) and
`jar` (the transaction cookies, which the tabs of one browser share). `off` is a
history of the kill switch. What runs between two awaits is one action: a page's
change with its eviction, a handler up to the wait for discovery and from its answer
on. `Migrate` is the render of the Identity providers page; `MigrateDies` the death of
the process between its two statements. An eviction does not stop a flight: its
answer and its failure still reach all who joined, and the failure deletes whatever
entry is there by then. Who signs in as whom is `Accounts`; state, verifier and nonce
are openid-client's.

The kill switch clears the legacy slot only when it can be read: a slot whose secret
was sealed under another `HEADTOWER_SECRET` survives it, and so does the environment's
provider. `KillSwitch` says so in its premise.

Bounds: two rows, two tabs, two clients, two secrets. An eviction under a flight needs
two flights for one provider, and the tab that began the first one.

### Fleet

State: `there` and `life` (Headscale's nodes; an id has lives, since Headscale may use
it again), `note` (`node_metadata`, as the life it was written about), `tab` (each
browser's list: the visible rows, the selection, the open dialog and the node count
typed into it), `req` (its Server Action: the nodes to come, the one being called, the
ones done and failed). One action per wait: the call is taken by Headscale or not
(`Apply`), and answered, refused, or given up by the console (`Answered`, `GivenUp`), in
any combination; the clean-up of the metadata goes with the last answer before it.
`Others` are the metadata dialogs, which may be saved after the node is gone, and what
Headscale's other clients do. `stray` is a history: rows left over for a cause the
console cannot see to (removed elsewhere, answer lost, clean-up thrown, dialog saved
late). Renaming, tagging, moving and expiring are one operation, `change`, because
they leave nodes and metadata where they are; replacing a whole set from a stale page is
`Routes`' subject.

Bounds: one tab, two nodes with two lives each, in the run; a bulk operation stops half
way with two. The theorems hold for any number of tabs, nodes and lives: overlapping
deletes of several browsers are covered by them.

Fairness (`FairSpec`): a request that can go on does (`WF` of `Serve`). Each call to
Headscale ends, since `client.ts` gives up after 5 s, and the rest runs on the
thread. `Deliver` is the answer reaching the browser; one that is lost is `Unheard`,
after which the transition of the bulk bar ends with an error.

### SshTerminal

The module follows one run of the terminal's connect effect: `socket` (its mint
request, then its websocket), `bridge` (the agent's handler: what the browser asked for,
the dial with its handshake, the session's requests to the target, the bridging), `pump` and
`waiter` (its two goroutines), `shell` (the remote shell with its pty and the output nobody
has read yet), `up` and `down` (the frames under way, in order). `mine` says whether the run is
still the one on screen; a reconnect, another host or leaving the page takes it away
(`Cleanup`), and its answers and events still arrive. Other runs change the screen
(`OtherRuns`) and share nothing else. The connection may break at any moment; a dial,
a shell and a wait may fail or end at any moment.

Bounds: two frames to the agent, two chunks of output, two sizes and the initial one.

Fairness (`SshFairness`): the agent's goroutines and its handler go on when they can: the
dial and the handshake have a deadline of 10 s, a closed connection ends a read, and the
channel of `session.Wait` has room for its one value, so the waiter never blocks. Nothing
is assumed of the browser, the user or the target. The deadline is cleared once the
handshake is done (`agent/ssh.go:230`), so the requests for a session, a pty and a shell
(`:138`, `:161`, `:166`) and a write of input (`:254`) wait for as long as the target is
silent, and the steps in which it answers (`SessionFails`, `Started`, `Written`) have no
fairness. `BridgeEnds` therefore says that once the socket is closed, the
bridge and its goroutines end, or from some point on wait for the target alone (`OnTarget`).

### Forms

State: `form` (the one on the page), `ui` (its state in the browser: step, the main
field and the secret, whether the secret's field is open, the last probe's verdict,
the banners, the agent's health), `asked` (the Server Actions of the tab, which Next.js sends
one after the other), `stored` and `page` (what the server has, and the props rendered
from it), `others` (somebody else finished the setup). An answer may be a refusal, a
refusal after the connection was written, or lost after the action has run; a form
that does not catch a lost answer falls to the page's error screen, whose "Try again"
mounts it anew over the props it had. `ConfigStore` and `OidcLogin` have the actions'
own statements.

A probe's verdict is one of `testHeadscaleConnection`'s; a blank key has only one.
`SetupIsReviewed` is the gate of the wizard: a verdict goes with an edit, the inputs
are locked while it finishes, and the retry of a finish that was written but not
answered sends the same draft. `HealthIsOfSaved` is the agent's panel: saves end in a
test, tests pressed before or meanwhile answer in order.

Bounds: two values and two secrets; three actions under way (`MaxAsked`), which is a
probe, a save and the probe after it.

### Dialogs

State: `host` (the dialog or menu looked at), `dlg` (what is open in it, typed, shown
and pending), `sent` (its requests, in order), `minted` (how many keys), `rows` (the list
behind it has rows: its twin in the empty state is another component), `gone` (keys whose
dialog was closed after showing them). Each Server Action is the set of its answers:
`minted`, `done`, `removed` (the row leaves the page and takes its menu along) or
`refused`; any can be lost. Cancel is locked while a request is pending and Escape is
not, so every request may find its dialog closed, opened again or unmounted.

Four kinds of dialog differ in what survives: those that mint keep their state and reset
it on closing; menus whose forms are mounted only while open forget what was typed;
menus that confirm in place keep one state per row; a member's row keeps its dialogs
apart. `ShownOnce` and `DeleteIsTyped` are what they have in common.

Bounds: three keys or requests (`MaxKeys`): one shown and closed, one on screen, one
late.

### Overview

State: `machine` (what Headscale knows of each: online, expiry, whether tags were rejected,
the advertised, approved and served routes), `authKey`, `own` (the expiry of the API key the console uses), `today`. Pages
have no state: each is an operator on these (`InList`, `OnItsPage`, `MachineRow`, `HostCard`,
`cellsFor`, `MachineDetail`, `RoutesCard`, `LifecycleCard`, `toAttention`, `expiryEvents`,
`expiringSoon`, `StateChip`), and the actions are the tailnet's and the calendar's. Headscale
fills the served routes in the list and leaves them empty for one machine, which is what the
code works around (`lib/machines.ts:232`).

`PagesAgree` is stated field by field, because the pages do differ: the table's row has no
chip for an expired key (its edge says it), the machine's header has none for rejected tags
(its identity card does), only the list can count what is served, and the export's cells
take the served routes where the machine's page falls back to the approved ones.

`RenewalsAreListed` has two provisos, both the code's: the list shows the first
`MAX_ITEMS`, and nothing at all without a machine.

Bounds: windows of one, two and three days for a week, two weeks and half a year; three
days pass (`LastDay`), so that every expiry is seen before, in and after each window; one
machine, one pre-auth key and the console's own key against two rows of the list.

### Directory

State: `person` (a user of the tailnet) and `accounts` (the rows of `app_user`, in the order
of the table). As in `Overview` the pages are operators: the list's join in two maps
(`byEmail`, `byName`, `matchAccounts`), the user page's in two loops (`matchAccount`), and
what each shows. The proviso of `SameAccountShown` is a real difference (below).

Bounds: two names, one address, three accounts: a name of the user's may belong to nobody, to
one account or to two, with and without an address that belongs to another.

### Palette

State: the palette as it is (`open`, `query`, `active`), what was last answered (`devices`,
`activity`), `recentIds` as the tab has them and `storage`, which the tabs share, `calls` (the
Server Actions under way, in order), the tailnet's `fleet`. `visits` is a history of the
commands that were chosen and recorded. A query leaves one group of commands; storage may be full or blocked
at any visit; `OtherTab` is the same component elsewhere.

Bounds: two pages and a device, two recents kept, three visits.

### AuditTrail

State: `log` (newest first), `loading` (a page on its way, one statement of `listAudit` at a
time), `view` (the page in the browser), `csv` (the export, batch by batch). `walk` is a
history: the rows there were when the first page was read, and those shown since.
`recordAudit` inserts anywhere, since the stamp is taken before the insert. `TrailSkipsNothing`
holds because an append only moves rows towards the end and the rows of a call are read before they are
counted; counted first, an append in between (by another process: within one nothing
comes between the two) could make a short total end the walk early.

Bounds: pages and batches of two rows, three rows, two kinds for the filter. The page is left
alone while an export runs.

### PolicyModel, PolicyTokens, PolicyEval, SelectorWalk, PolicyLint, PolicyEditor, BuilderFields, PolicyFindings, PolicyTest

A document is a function from keys to what they hold, unknown keys among them; a named
section is a function from names, a rule section a sequence of functions from fields.
Layout, comments and key order are left out. `Parse` gives the builder its rows, each
with the object it came from, and `Serialize` puts them over the root captured at the
last parse. A text is a record of its kind (`Blank`, `Broken` or a policy) and the document
it says: the lexer of HuJSON is left out. What every text says `IsDocument`: finitely many
keys, and lists where the code has arrays.

`PolicyTokens` gives tokens their syntactic form by constants (any other text is a bare
word), and an address is its `Width` bits, so a mask keeps the first of them and two ranges
overlap when they agree as far as the shorter mask. `EvaluateReachability` reads rules in
the code's order, each entry only to the first that matches and the rules to the first that
admits, and collects the caveats of what it has read. `Allows` is the reference, without an
order: by the closure of the document's own groups and aliases and by the addresses
themselves. Read `loosely`, it also admits whatever the constructs the evaluator does not
reason about could stand for. It has its own reading of ports and of protocols, by name,
by number or any (`Open`, `SameProtocol`); what a selector leads to it shares with the
evaluator, and `SelectorWalk` is what that is held against.

What a selector stands for (`Meaning`) is the merged content of the tokens it leads to,
which `Reach` gives as a least closed set. The code computes it by recursion, with a set of
groups seen that the calls for one selector share. `SelectorWalk` is that recursion: a stack of the
tokens still to be read, one action per case of the `switch`, and the set. Its
`WalkIsMeaning` is what justifies `Meaning` in `PolicyEval`, `Returns` that there is a value
at all. Of aliases that name each other there is none (below): there the operator
says what the code would have to. The walk runs within one step of the workbench, so `PolicyTest`
puts the two side by side (`BenchSpec`): a behaviour is one or the other's.

Fairness (`WalkSpec`): a call that is under way goes on (`WF` of `ReadOn`). `expand` is
synchronous, nothing is awaited in it and nothing else runs on the thread.

`PolicyLint` is `lintPolicy` from a model and the tailnet's users to findings. Its
reference (`MayBe`) says which nodes a token may stand for, a node being its user's or
tagged. `DriveWarningsAreEarned` takes nodes with one tag and groups that share no
user; without either proviso it fails (see below). No property depends on the findings about
references and the shape of grants (`RefFindings`, `GrantFindings`), which are there because
`lintPolicy` returns all of them together. What evaluator and linter share is in
`PolicyTokens`.

State of `PolicyEditor`: the workbench's `value`, `savedValue`, `tab`, `model`, `root`,
`parseError`, the save under way, the revisions being fetched and the question of the Test
tab, against Headscale's text and its other writers. A first text that does not parse opens
the JSON tab with its error. `session` chooses at the start what an
operator may type and ask, so that one run covers many policies with few edits and few
policies with many edits (`MCPolicyTest`): `maxRows` bounds the rows of a section,
`maxLive` the texts Headscale has had.

`BuilderFields` adds the capability editor of each grant and attribute (its rows, the error
it shows, what it sent last) and the token under the cursor. React keeps both by section and
index, so `Follow` says, for every step of the workbench, which survive it and over which
entry. With the cursor in a token input only the keyboard's save, answers and other writers
come between, since a click elsewhere leaves the input and commits first. Payloads are JSON
arrays or not; `maxCapabilities` bounds the rows at which "Add capability" still adds one.
`BuilderShowsText` has a part for the sections (`SectionsShowText`) and one for the editors
(`RowsShowEntry`): a complete row is always the entry's, after whichever removal or revision.

Bounds: addresses of three bits (masks of 0, 1 and 3), two groups that contain each
other, aliases of each kind, every token of the vocabulary asked against every other;
ports, protocols, actions and grants in combination; a Taildrive grant between any two
selectors over any two attributes; one section at a time for the edits; two grants, one
with a capability, and a revision of them that arrives; two tokens, one of them already
in the field. For the walk: two groups that contain each other, themselves, one of them twice,
or a group that is not declared; aliases of an address, of another alias and of nothing; every
token of the vocabulary as the selector.

## Runs

| Run | Shows |
|---|---|
| `Accounts_one` | one process: always an owner, ownership by bootstrap or owner only, members change only by current owners |
| `Policy_one` | one process: acknowledged saves are recorded, the rollback anchor is kept, and the refinement of `PolicyHistory`, where a stamp takes an accepted push |
| `Sampler_one` | one process: samples keep their distance however ticks and visits overlap and the setting changes, and sampling resumes |
| `Config_save` | wizard, Connection and Agent pages, dashboard switch, OIDC slot: what is saved is read, URL and key stay a pair, the agent stays as it was last switched |
| `Config_setup` | a refused wizard has stored half its input (finding) |
| `Routes_board` | however old the board and whatever comes between, a write approves only what its node carried; undisturbed, it is exactly what was asked |
| `Oidc_login` | the cache never answers for a row as it used to be, the kill switch holds, and the migration survives a death halfway |
| `Oidc_removed` | a sign-in under the id `legacy` still goes through a migrated provider that was edited, disabled or deleted since (finding) |
| `Fleet_list` | metadata follows its node, bulk actions take what is on screen, and every request ends |
| `Console` | terminal: no connection is left behind, the pty has the terminal's size, the exit report comes last, the bridge ends or waits for the target alone. Forms: what is set up was reviewed, health is of what was saved. Dialogs: keys are shown once, deletions typed. Pages: they agree, and what is due is listed; both users' pages name the same person. Palette: the recents are the last visits. Audit trail: paging and exporting skip nothing |
| `Console_mint` | the first personal API key, minted from the empty state, is shown to nobody (finding) |
| `Policy_test` | the builder shows the text, an edit changes one place of it, the baseline was Headscale's, verdicts and Taildrive warnings agree with their references; however groups contain each other, `expand` returns, and returns what the selector stands for |

One process is the deployment the code is written for; what holds for several is
proved (below) rather than run.

### Disagreements without a run

Four need a second process on the database file; `Accounts_one`, `Policy_one` and `Sampler_one` show them with
`Instance = {i1, i2}`: `HasOwner` (an account read as a member, made the only owner
meanwhile, is demoted by the branch without the owner count,
`app/(app)/settings/members/actions.ts:62`),
`OwnershipIsGranted` (two first logins both become owner, `lib/auth/session.ts:85`),
`SavesRemembered` (the insert that loses the race leaves an accepted push without
its stamp, `lib/db/policy-revisions.ts:107`), and `Spaced` (two processes both find the
newest sample old enough, `lib/db/snapshots.ts:84`, against the comment at
`lib/sampler/index.ts:29`).

The others were met while modelling, each where a comment or a contract says otherwise:

* `approvedCidrsOf` takes every default route for approved when the exit row is, so a click
  on an unrelated subnet row approves a default route that was only advertised
  (`routes/route-batch.ts:19` against `:15`; `UndisturbedIsExact` without `Together`);
* the provider dialog is reset to the props it had, so after a saved edit it may open
  over the old fields, although "Edit mode preloads the provider's fields"
  (`provider-dialog.tsx:38`);
* a probe's verdict in the wizard may be of other credentials, since the inputs stay
  open while it runs; an edit afterwards clears it, one before the answer does not
  keep it from being shown (`setup-wizard.tsx:71`);
* a finish of the wizard whose answer was lost is pressed again as it stands: a changed
  identity choice finds the setup completed and is dropped;
* the agent's panel says that a secret is stored after it was cleared, until the next
  render; a lost test after a save shows "saved" and an error at once;
* saving the connection empties a key typed while the save was under way;
* a success that arrives in a closed mint dialog is shown at its next opening
  (`add-device-dialog.tsx:109`); one for a dismissed form of a machine's menu closes
  whatever form is open by then (`node-actions-menu.tsx:54`);
* the dashboard's "Online" counts machines whose key has expired, and the segment it
  links to leaves them out (`dashboard/page.tsx:569` against `lib/machines.ts:414`);
  a machine's page shows such a machine as expired and as "Reachable";
* without devices "Expiring soon" is not shown, and eight lapsed pre-auth keys push an
  upcoming expiry of the console's own key off it, which was to not slip through
  "unnoticed alongside everything else" (`dashboard/page.tsx:289`);
* a machine's "Recent activity" is the newest 200 entries about any machine, filtered,
  and bulk actions have no target id: it says that nothing was recorded although
  "Node mutations ... all record" the id (`machines/[id]/page.tsx:151` against
  `machines/actions.ts:343`);
* a user's page breaks ties between accounts otherwise than the list it "mirrors", when the
  display name and the user name are names of two accounts (`users/[id]/page.tsx:122` against
  `users/page.tsx:85`; `SameAccountShown` without its proviso);
* the bridge was to relay "until either side ends" (`agent/ssh.go:125`), but while the target
  leaves a request for the session, the pty or the shell unanswered nobody reads the
  websocket and no deadline is set: it waits for ever after the browser has closed
  (`BridgeEnds` without `OnTarget`);
* the palette asks for devices and activity at each opening, "not a stale cache"
  (`components/command-palette.tsx:427`), but shows the last answers until the new ones come;
  these insert rows above the highlighted one, which is kept by its index, so Enter may open
  another row;
* a large audit trail "never has to be buffered in memory at once" by the export
  (`audit/export/route.ts:6`), which writes every batch without waiting for the
  reader; rows appended meanwhile move the offset, so an export may hold a row twice;
* a deploy of a row removed during the PUT is recorded nowhere (`access/history-actions.ts:106`
  against `access/actions.ts:55`);
* the tick counts the agent's own node and the visit does not (`lib/sampler/index.ts:83`
  against `lib/agent-node.ts:8`);
* an approve-all that fails at its second node leaves the first approved and no audit
  entry (`routes/actions.ts:183` against `:148`);
* the count typed into the bulk dialog outlives it, although the dialog is
  "type-to-confirm" (`components/machines/bulk-action-bar.tsx:97`);
* a timed-out delete that was carried out is reported as failed, and its retry gets a
  404 and does not clean up the metadata either (`machines/actions.ts:144`);
* the callback of one tab deletes the transaction cookies of another
  (`app/login/callback/route.ts:118`);
* the effect that adopts a re-rendered document does not run when Headscale has gone
  back to the document it was last given, so the baseline may stay one save behind
  (`access/policy-workbench.tsx:116`);
* a revision fetched for the editor arrives whenever it does, over what was typed
  meanwhile (`access/history-panel.tsx`);
* an unfinished capability row stays where it is when its entry is removed or a revision
  arrives, if the entry that takes the place has the same capabilities (none, most often),
  and goes into that one with the next keystroke, although "rows re-sync when the policy
  changes *elsewhere*" (`access/visual-editor.tsx:709`);
* the duplicate-name finding cannot appear in the workbench, which lints a parsed
  object (`lib/policy/lint.ts:9`, `access/policy-workbench.tsx:132`);
* `drive-access-missing` and `drive-share-missing` appear although nothing is proved:
  another group is taken for uncovered although it may share a user, another tag
  although a node may have both (`lib/policy/lint.ts:431`, `:436` against `:370`);
* a failed read of the users flags every user as unknown, where leaving the list out
  would skip the check (`access/page.tsx:64` against `lib/policy/lint.ts:36`);
* the last group of an IPv6 literal that is all digits is peeled off as a port
  (`splitDstPorts` against its comment);
* `app: {}` and entries of a section with another type than the section's are dropped on
  any edit in the builder, against "unknown" content being kept (`lib/policy/model.ts:5`);
* `*` covers a selector that stands for nothing (`lib/policy/eval.ts:171`);
* host aliases that name each other (`web: db`, `db: web`) recurse until the call stack
  overflows, since only groups are marked as seen (`lib/policy/eval.ts:122` against the
  guard at `:105`); `Returns` fails when `Walks` has such hosts.

## Proofs

`AccountsProofs` proves, for any number of browsers, accounts, sessions,
subjects and processes:

* `TypeCorrect`: `TypeOK`, which is inductive: it says what a request carries at
  each program counter (`RequestOK`), that keys are issued before they are used
  (`KeysIssued`) and that rows are complete (`TablesOK`);
* `NoOrphanSession` and `OneAccountPerSubject`, from the cascade, the unique
  subject and the freshness of keys.

and for one process (`ASSUME NEW i, Instance = {i}`):

* `AtomicOnOneInstance`: at most one request is between its first read and its
  write (`OneRequestOnThread`), and what it has read is so (`ReadsAreCurrent`);
* `OwnerRemains`, `ChangesByOwners`, `OwnersAreGranted`, each from that
  invariant. `HasOwner` alone is not inductive: `SetRole` writes by what an
  earlier step saw, so the induction needs `ReadsAreCurrent`, and that needs
  `OneRequestOnThread`, or another request could change the row in between.
  With a second process `HasOwner` and `OwnershipIsGranted` fail, as TLC shows.

`PolicyProofs` proves, for any number of documents, operators, row ids and
processes, with `HonestHistory` as the invariant (what a push in flight stands for,
`PushOK` and `IdOK`, the unique digest, and the stamps):

* `TypeCorrect`, `OneRowPerDocument`, `StampsAreEarned` (a stamp alone is not
  inductive: a request that will stamp must already carry an accepted document);
* `AnchorIsKept` (`RollbackAnchor`), by `AnchorInv`: what a page shows is stored, being
  stored by the render that shows it, or removed by somebody;
* `HistoryImplemented`: `Spec => ImplementsHistory`, one step per action, each an abstract
  `Accept`, `Store`, `Stamp` or `Forget`, or a stutter;
* `SavesAreRemembered`, for one process, by `Recorded`: between the lookup of a
  document and its insert nobody else inserts it.

`SamplerProofs` proves `TypeCorrect` for any number of jobs and processes and, for one
process, `SamplesAreSpaced`, by `Throttled`: at most one job has the thread, both writers
throttle by one window, and when a job is about to insert the newest sample is
still as old as that window.

`RoutesProofs` proves, for any number of operators, nodes and routes:

* `TypeCorrect`, which carries `RequestOK` (a request that writes is at a node and has
  the board it came from);
* `CarriedOnly` (`OnlyCarried`), by `AllNoted`: every request has noted all that its
  remaining nodes carry, and the read it is about to write from. The property is about
  one step, but what that step writes was read steps before, so the induction has to
  carry the read;
* `UndisturbedExact`, from the types alone: `RowsAreExact` says when a row stands for exactly
  what is approved.

`OidcProofs` proves, for any number of tabs, rows, clients and secrets, with `IInv`
(types, `Flights`, `EntryIsRow`, `OffIsOff`) as the invariant:

* `TypeCorrect`, `NobodyWaitsForNothing` (`SharedFlight`) and `CacheIsCurrent`
  (`RowCacheCurrent`). Neither is inductive: that an entry under way has its flight
  (`EntryHasFlight`) takes that the tab which began a flight still waits for it
  (`OwnerWaits`), or the same tab could begin another in its place;
* `KillSwitchHolds`, by `OffIsOff`: no row is on, and without a legacy slot none is
  cached under its id; that nothing is cached for a row that is off follows from
  `EntryIsRow`;
* `MoveIsSafe` (`MovedBeforeCleared`), from the types.

`FleetProofs` proves, for any number of tabs, nodes and lives:

* `TypeCorrect`, with `RequestOK`: a request has each of its nodes in one place;
* `SelectionShown` (`SelectionIsShown`), together with the types;
* `MetadataFollowsNodes` (`NotesFollowNodes`), which is inductive over the types because it
  names the rows that running deletes owe (`Owed`).

Both take from the constants that `None` is no record (`NoneIsNoRecord`, `NoneIsNoRequest`),
which an untyped set theory does not say by itself; TLC evaluates the assumptions.

`ConfigProofs` proves, for any number of rows, values and providers and for one process
(`ASSUME NEW i, Instance = {i}`): `TypeCorrect`, `PairsAreOneSaves` (`ConnectionPaired`),
`SavesAreEffective` (`SavedIsEffective`) and `SwitchIsKept` (`AgentChoiceHolds`). None is
inductive, since a save is a list of statements and the properties speak of its end. The
invariant says what a save under way has still to write:

* `Delivers`: each statement left writes what its row wants;
* `Covered`: each row of the section has a statement left or already reads as wanted, or the
  save is going to be refused;
* `Ordered` and `PairWritten`: the URL is written first and the key right after it, and until
  then the key is still to come;
* `RefusedFirst`: an input whose URL is invalid is refused before anything is written;
* `OneWriter`: at most one request has statements left, which is what one process means here;
* `HeadscaleHolds` and `SwitchHolds`: the stored pair is one save's, and the switch as it was
  set, unless a save is between its statements or died there.

`ConsoleProofs` proves properties of the console's parts:

* `NoSocketIsLeft`, `PtyFollows` and `ExitIsLast` (`ExitComesLast`), for any bound on frames
  and output, by `SshInvariant`: where each of the bridge's goroutines can be (`Stage`), what
  the frames under way are (`Counted`), that the last size under way, or the pty's if there is
  none, is the terminal's (`Synced`). `ScreenIsItsRuns` (`OwnEventsOnly`: late events change
  nothing on screen) has no run of its own;
* `KeysAreShownOnce` (`ShownOnce`) and `DeletionsAreTyped` (`DeleteIsTyped`), for any number
  of requests: the key on screen is the last one minted and was not closed over
  (`KeyIsLast`), and what is in the field was typed since it was opened (`TypedHere`);
* `PagesDoAgree` and `RenewalsDoShow` (`RenewalsAreListed`), for any machines, keys, windows
  and length of the list. What is served is approved (`ServedIsApproved`); the rest is about the
  operators of the pages, and about a list cut to its first rows;
* `SameAccountIsShown` (`SameAccountShown`), for any accounts, names and addresses: the first
  account of either name is the first of the one that has any (`FoundByName`);
* `SetupWasReviewed` (`SetupIsReviewed`) and `HealthIsCurrent` (`HealthIsOfSaved`): what a
  draft under way says is what the form shows (`FinishIsShown`), what was written is still
  shown or was edited at the first step (`WrittenIsShown`), and a saved panel is probed or being
  probed (`SavedIsProbed`), for actions answered in order;
* `ConsoleIsItsParts`: a behaviour of the console is one of each part, so these are theorems
  about what `Console` runs.

`AccountsProofs` also proves `SessionsAreOwn` (`SessionsEndByTheirAccount`; like
`NoOrphanSession` it has no run), for any number of processes, by `OwnRows`: the session that a request has loaded, and later ends, is its
caller's or gone. Keys are never reused, so a row cannot become another account's in between.

`PolicyProofs` goes on with the workbench and the linter, for any texts, names, values and
sessions, by `BuilderInvariance`: every text is a document (`TextHolds`), sections and editors
show it (`SectionsShowText`, `FieldsHold`) and the baseline was Headscale's (`BaselineHolds`).

* `BaselinesWereLive` and `BuilderIsTheText` (`BuilderShowsText`) are parts of it;
* `UntouchedDoSurvive` (`UntouchedSurvive`) takes `NormalDocuments`, documents the builder
  writes back as they are. Of another one (a rule whose `src` is missing, say) the first edit
  rewrites more than the place it touches, so the property speaks of normal ones; that a
  normal text stays normal under every edit is part of the induction (`NormalHolds`). TLC
  evaluates the hypothesis for every session of the run (`SessionsAreNormal`);
* `WarningsAreEarned` (`DriveWarningsAreEarned`): a finding that a Taildrive grant is without
  effect implies that no node could be at its other end, whatever the policy. It rests on
  lemmas about the linter alone: which rows of a parsed model stand for which entries, that a
  finding of that kind comes from that rule, and that declared targets cover no node the
  reference gives the grant;
* `VerdictsAreTheReference` (`VerdictIsReference`) and `DenialsWithoutCaveatAreFinal`
  (`CaveatsAreComplete`), for any documents, questions and width of an address. A question is
  put to texts that were typed, loaded, sent or live some time before, so the induction carries
  that all of these are documents (`AskedInvariance`). The rest is about the operators:
  `ReachHolds` and `ReachLeast` (what is met is closed, and the least such set),
  `LinksAreWritten` (the rows of a parsed model lead where the document says), `OverlapIs`
  (masked bases agree exactly when some address is in both ranges), `SameIs` and `CoversIs`
  (merged selectors overlap exactly when two tokens among them do), `ClearIs` (where there
  is no caveat the loose reading is the strict one), and `TryAcl`, `TryGrant`,
  `EvaluateIs`: reading to the first match loses no match, and no caveat of a denial.

`BenchIsItsParts` carries these over to the run's specification, `BenchSpec`.

Of `SelectorWalk` it proves `ExpandIsMeaning` (`WalkIsMeaning`), for any policy and any
selectors, by `WalkHolds`: what is read and what is on the stack are within what the selector
leads to, whatever a token that has been read leads on to is among them, and what has been
merged is what the tokens read say. So a group that is skipped because it was seen has its
members read or on the stack, and when the stack is empty the tokens read are a
closed set. `Reach` is the least of these.

Their assumptions on the constants are evaluated by TLC: sessions type and store documents
(`SessionAssumption`), a token input edits a list of tokens (`TokensAssumption`), the few
tokens that linter and evaluator name have the form their text has (`LintAssumption`,
`EvalAssumption`), a mask is no longer than an address (`EvalAssumption`), and a group's members are a
list (`WalkAssumption`).

Only model-checked:

* liveness: `SamplingResumes`, `RequestsEnd`, `BridgeEnds` and `Returns`, which the prover
  does not reach;
* `RecentsAreLastVisits` and `TrailSkipsNothing`;
* the properties on several processes that fail there, which TLC shows.

## Plan

Done, in this order: `Accounts`, `PolicyRevisions` refining `PolicyHistory`, `Sampler` and
`Routes` with their proofs; `ConfigStore`; `OidcLogin` and `Fleet` with their proofs;
`SshTerminal`; the policy document with its workbench, evaluator and linter; `Forms`,
`Dialogs` and `Overview`; `SelectorWalk`; the proofs about all of these; `Directory`, `Palette`
and `AuditTrail`. The type invariants are proved (`TypeCorrect`) and not run; every safety
property of a passing run is a theorem, but for the two named above.

Next: proofs of these two, and the agent's reader.

## Not modelled

Layout, charts and theming: rendering without state, and a large part of the lines of the
repository; the card of SSH sessions on the audit page; formatting and wording;
cryptography (a signed cookie or token is the record it names); the lexer of HuJSON; the Go
agent's status endpoints; field validation. The
diagnostics page only calls read-only probes. Single-operator mode has no accounts and is
the case where every gate passes.
