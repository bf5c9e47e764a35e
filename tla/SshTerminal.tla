----------------------------- MODULE SshTerminal -----------------------------
(***************************************************************************)
(* The browser terminal and the agent's SSH bridge                         *)
(* (components/terminal, machines/[id]/terminal/actions, agent/ssh.go).    *)
(* The module follows one run of the terminal's connect effect: its mint   *)
(* request, its socket and the bridge the agent makes for it.  Reconnect,  *)
(* another host or leaving the page cleans the run up; its answers and the *)
(* agent's end go on while other runs have the screen.  Runs share nothing *)
(* else, so one stands for each.                                           *)
(*                                                                         *)
(* Grain: one event handler of the browser, one step of one goroutine.     *)
(* Frames of one direction stay in order; the connection may break, which  *)
(* both ends learn.                                                        *)
(***************************************************************************)
EXTENDS Naturals, Sequences, FiniteSets

CONSTANTS MaxWire,  \* BOUND: frames to the agent before the next one waits
          MaxOut,   \* BOUND: output chunks of a shell
          Size,     \* terminal sizes
          Initial   \* ptyInitialRows x ptyInitialCols

ASSUME SshAssumption == MaxWire \in Nat /\ MaxOut \in Nat /\ Initial \notin Size

VARIABLES
  mine,      \* the run is the one on screen: not cancelled
  shown,     \* the screen's ConnectionState, which the toolbar repeats
  term,      \* the size the terminal was fitted to
  socket,    \* the run's end: its mint, its socket
  seen,      \* the output chunks it has written out
  bridge,    \* the agent's bridgeSSH
  pump,      \* its goroutine that reads the socket
  waiter,    \* its goroutine in session.Wait
  shell,     \* the remote shell: its pty, what it printed and what is unread
  up, down   \* frames under way: to the agent, to the browser

sshVars == <<mine, shown, term, socket, seen, bridge, pump, waiter, shell, up, down>>
screen == <<mine, shown, term>>
browser == <<socket, seen>>
agent == <<bridge, pump, waiter, shell>>

ConnectionState == {"connecting", "connected", "closed", "error"}

Resize(s) == <<"resize", s>>
Key == <<"key">>
Closing == <<"close">>

-----------------------------------------------------------------------------
(* The browser                                                             *)

Live == socket \in {"connecting", "open"}

\* The effect's cleanup, as another run takes the screen or the page is left:
\* "cancelled", and the socket closed.
Cleanup ==
  /\ mine /\ mine' = FALSE
  /\ shown' \in ConnectionState
  /\ IF Live THEN /\ socket' = "closed"
                  /\ up' = Append(up, Closing)
             ELSE UNCHANGED <<socket, up>>
  /\ UNCHANGED <<term, seen, agent, down>>

\* The screen as the other runs have it.
OtherRuns ==
  /\ ~mine
  /\ shown' \in ConnectionState /\ term' \in Size
  /\ UNCHANGED <<mine, browser, agent, up, down>>

\* No capability, no host or user, no secret: the action answers with an error.
TokenRefused ==
  /\ socket = "minting" /\ socket' = "closed"
  /\ shown' = IF mine THEN "error" ELSE shown
  /\ UNCHANGED <<mine, term, seen, agent, up, down>>

\* MUTANT: the answer does not ask whether its run is still on screen.
TokenMinted_Unchecked ==
  /\ socket = "minting"
  /\ socket' = "connecting" /\ bridge' = "asked"
  /\ UNCHANGED <<screen, seen, pump, waiter, shell, up, down>>

\* The token is signed, audited and recorded.  The socket asks for its upgrade,
\* unless the run was cleaned up meanwhile.
TokenMinted ==
  /\ socket = "minting"
  /\ \/ mine /\ socket' = "connecting" /\ bridge' = "asked"
     \/ ~mine /\ socket' = "closed" /\ UNCHANGED bridge
  /\ UNCHANGED <<screen, seen, pump, waiter, shell, up, down>>

Receive(frame) == down # <<>> /\ Head(down) = frame /\ down' = Tail(down)

\* MUTANT: the agent is told the size only when it changes.
OnOpen_NoSync ==
  /\ mine /\ Receive("open")
  /\ socket' = "open" /\ shown' = "connected"
  /\ UNCHANGED <<mine, term, seen, agent, up>>

OnOpen ==
  /\ mine /\ Receive("open")
  /\ socket' = "open" /\ shown' = "connected"
  /\ up' = Append(up, Resize(term))
  /\ UNCHANGED <<mine, term, seen, agent>>

OnOutput ==
  /\ mine /\ Receive("out")
  /\ seen' = seen + 1
  /\ UNCHANGED <<screen, socket, agent, up>>

OnReport ==
  /\ mine
  /\ \/ Receive("error") /\ shown' = "error"
     \/ Receive("exit") /\ shown' = "closed"
  /\ UNCHANGED <<mine, term, browser, agent, up>>

\* "don't downgrade 'error' back to a plain 'closed'"
OnClose ==
  /\ mine /\ Receive("close")
  /\ socket' = "closed"
  /\ shown' = IF shown = "error" THEN shown ELSE "closed"
  /\ UNCHANGED <<mine, term, seen, agent, up>>

\* A refused upgrade or an abnormal end: onerror, then onclose.
OnError ==
  /\ mine /\ Receive("fail")
  /\ socket' = "closed" /\ shown' = "error"
  /\ UNCHANGED <<mine, term, seen, agent, up>>

\* Every handler of a cancelled run returns at once.
Ignored ==
  /\ ~mine /\ \E frame \in {"open", "out", "error", "exit", "close", "fail"} : Receive(frame)
  /\ UNCHANGED <<screen, browser, agent, up>>

\* The container changes: the terminal is fitted, and an open socket told.
SyncSize(s) ==
  /\ mine /\ s # term /\ term' = s
  /\ \/ socket = "open" /\ Len(up) < MaxWire /\ up' = Append(up, Resize(s))
     \/ socket # "open" /\ UNCHANGED up
  /\ UNCHANGED <<mine, shown, browser, agent, down>>

Type ==
  /\ mine /\ socket = "open" /\ Len(up) < MaxWire
  /\ up' = Append(up, Key)
  /\ UNCHANGED <<screen, browser, agent, down>>

\* The connection breaks: what is under way is lost, and each end is told.
Break ==
  /\ bridge \in {"dial", "session", "bridge"} /\ Live
  /\ up' = <<Closing>>
  /\ down' \in {<<"close">>, <<"fail">>}
  /\ UNCHANGED <<screen, browser, agent>>

-----------------------------------------------------------------------------
(* The agent: handleSSH, and bridgeSSH up to the shell                     *)

\* A write to a connection that has ended arrives nowhere.
Write(frames) ==
  down' = IF socket = "closed" \/ \E i \in 1 .. Len(down) : down[i] \in {"close", "fail"}
            THEN down ELSE down \o frames

\* Deferred: whatever way it ends, session, client and connection are closed.
Done(frames) ==
  /\ bridge' = "done"
  /\ shell' = [shell EXCEPT !.on = IF @ = "running" THEN "killed" ELSE @, !.unread = 0]
  /\ Write(frames)

\* No secret here, another one there, or a token past its minute.
Refuse ==
  /\ bridge = "asked" /\ Done(<<"fail">>)
  /\ UNCHANGED <<screen, browser, pump, waiter, up>>

Accept ==
  /\ bridge = "asked" /\ bridge' = "dial"
  /\ Write(<<"open">>)
  /\ UNCHANGED <<screen, browser, pump, waiter, shell, up>>

\* The dial and the handshake, each within its ten seconds.
DialFails ==
  /\ bridge = "dial" /\ Done(<<"error", "close">>)
  /\ UNCHANGED <<screen, browser, pump, waiter, up>>

\* The deadline is cleared here.
Dialled ==
  /\ bridge = "dial" /\ bridge' = "session"
  /\ UNCHANGED <<screen, browser, pump, waiter, shell, up, down>>

\* The target refuses the session, the pty or the shell.
SessionFails ==
  /\ bridge = "session" /\ Done(<<"error", "close">>)
  /\ UNCHANGED <<screen, browser, pump, waiter, up>>

\* It grants all three.  Each is asked in turn and waited for without a
\* deadline, and nobody reads the socket meanwhile.
Started ==
  /\ bridge = "session" /\ bridge' = "bridge"
  /\ shell' = [shell EXCEPT !.on = "running"]
  /\ pump' = "reading" /\ waiter' = "waiting"
  /\ UNCHANGED <<screen, browser, up, down>>

-----------------------------------------------------------------------------
(* The goroutines.  Both channels hold one error, so a goroutine's send is *)
(* its end, whether the select takes it or not.                            *)

PumpReads(frame) ==
  /\ pump = "reading" /\ bridge # "done"
  /\ up # <<>> /\ Head(up) = frame /\ up' = Tail(up)

PumpKey ==
  /\ PumpReads(Key) /\ pump' = "writing"
  /\ UNCHANGED <<screen, browser, bridge, waiter, shell, down>>

PumpResize ==
  /\ \E s \in Size : PumpReads(Resize(s)) /\ shell' = [shell EXCEPT !.pty = s]
  /\ UNCHANGED <<screen, browser, bridge, pump, waiter, down>>

\* The client's close, or the bridge's own.
PumpEnds ==
  /\ \/ PumpReads(Closing)
     \/ pump = "reading" /\ bridge = "done" /\ UNCHANGED up
  /\ pump' = "ended"
  /\ UNCHANGED <<screen, browser, bridge, waiter, shell, down>>

\* stdin.Write returns as the shell makes room for the input, if it does.
Written ==
  /\ pump = "writing" /\ shell.on = "running"
  /\ pump' = "reading"
  /\ UNCHANGED <<screen, browser, bridge, waiter, shell, up, down>>

\* Or with an error, as the shell has ended.
WriteFails ==
  /\ pump = "writing" /\ shell.on # "running"
  /\ pump' = "ended"
  /\ UNCHANGED <<screen, browser, bridge, waiter, shell, up, down>>

Copy ==
  /\ shell.unread > 0 /\ bridge = "bridge"
  /\ shell' = [shell EXCEPT !.unread = @ - 1]
  /\ Write(<<"out">>)
  /\ UNCHANGED <<screen, browser, bridge, pump, waiter, up>>

\* MUTANT: the exit status alone is waited for.
WaitReturns_Early ==
  /\ waiter = "waiting" /\ shell.on # "running"
  /\ waiter' = "ended"
  /\ UNCHANGED <<screen, browser, bridge, pump, shell, up, down>>

\* MUTANT: the channel has no room, and nobody receives once the client left.
WaitReturns_Unbuffered ==
  /\ waiter = "waiting" /\ shell.on # "running" /\ shell.unread = 0
  /\ bridge = "bridge"
  /\ waiter' = "ended"
  /\ UNCHANGED <<screen, browser, bridge, pump, shell, up, down>>

\* session.Wait also waits for the output to be copied.
WaitReturns ==
  /\ waiter = "waiting" /\ shell.on # "running" /\ shell.unread = 0
  /\ waiter' = "ended"
  /\ UNCHANGED <<screen, browser, bridge, pump, shell, up, down>>

\* The select: the shell ended, with a status or without, or the client is gone.
SelectWait ==
  /\ bridge = "bridge" /\ waiter = "ended"
  /\ \E report \in {"exit", "error"} : Done(<<report, "close">>)
  /\ UNCHANGED <<screen, browser, pump, waiter, up>>

SelectRead ==
  /\ bridge = "bridge" /\ pump = "ended"
  /\ Done(<<"close">>)
  /\ UNCHANGED <<screen, browser, pump, waiter, up>>

Prints ==
  /\ shell.on = "running" /\ shell.printed < MaxOut
  /\ shell' = [shell EXCEPT !.printed = @ + 1, !.unread = @ + 1]
  /\ UNCHANGED <<screen, browser, bridge, pump, waiter, up, down>>

Exits ==
  /\ shell.on = "running"
  /\ shell' = [shell EXCEPT !.on = "exited"]
  /\ UNCHANGED <<screen, browser, bridge, pump, waiter, up, down>>

-----------------------------------------------------------------------------

SshInit ==
  /\ mine = TRUE /\ shown = "connecting" /\ term \in Size
  /\ socket = "minting" /\ seen = 0
  /\ bridge = "none" /\ pump = "off" /\ waiter = "off"
  /\ shell = [on |-> "none", pty |-> Initial, printed |-> 0, unread |-> 0]
  /\ up = <<>> /\ down = <<>>

Person == Cleanup \/ OtherRuns \/ Type \/ \E s \in Size : SyncSize(s)
Events == \/ TokenRefused \/ TokenMinted
          \/ OnOpen \/ OnOutput \/ OnReport \/ OnClose \/ OnError \/ Ignored
Setup == Refuse \/ Accept \/ DialFails \/ Dialled
Pump == PumpKey \/ PumpResize \/ PumpEnds \/ WriteFails
Wait == Copy \/ WaitReturns
Select == SelectWait \/ SelectRead
Target == SessionFails \/ Started \/ Written \/ Prints \/ Exits

SshNext == Person \/ Events \/ Break \/ Setup \/ Pump \/ Wait \/ Select \/ Target

SshSpec == SshInit /\ [][SshNext]_sshVars

\* The agent's goroutines run, and its dial and handshake have deadlines of 10 s.
\* Nothing is assumed of the target: it may never answer a request, make room
\* for input, print or exit.
SshFairness ==
  /\ WF_sshVars(Setup) /\ WF_sshVars(Pump) /\ WF_sshVars(Wait) /\ WF_sshVars(Select)

FairSshSpec == SshSpec /\ SshFairness

-----------------------------------------------------------------------------
(* Properties                                                              *)

\* A run that was cleaned up has no socket and gets none, however late its
\* token comes: no connection is left behind a terminal that is gone.
NoSocketLeft == ~mine => ~Live

\* With nothing under way the remote pty has the terminal's size, whenever the
\* socket opened, the terminal was resized or the shell came up in between.
PtyFollowsTerminal ==
  /\ mine /\ socket = "open" /\ up = <<>>
  /\ bridge = "bridge" /\ pump # "ended"
  => shell.pty = term

\* The exit report comes after all that the shell printed, and is the last
\* before the close: "session ended" never stands over missing output.
ExitComesLast ==
  mine => \A i \in 1 .. Len(down) : down[i] = "exit" =>
    /\ seen + Cardinality({j \in 1 .. i : down[j] = "out"}) = shell.printed
    /\ SubSeq(down, i + 1, Len(down)) = <<"close">>

\* What the screen says changes with the run on it or by that run's events, and
\* an error stays as long as the run: late answers and events of a cancelled
\* run, and the close after an error, change nothing.
OwnEventsOnly ==
  [][shown' # shown => \/ ~mine'
                         /\ UNCHANGED <<seen, agent, down>> /\ (mine \/ UNCHANGED socket)
                       \/ mine /\ shown # "error"]_sshVars

AllEnded ==
  /\ bridge \in {"none", "done"} /\ shell.on # "running"
  /\ pump \in {"off", "ended"} /\ waiter \in {"off", "ended"}

\* The agent waits on the target: for an answer, or for room for a key.
OnTarget ==
  \/ bridge = "session"
  \/ pump = "writing" /\ shell.on = "running"

\* Once the browser's end of a run is closed, the bridge, both goroutines and
\* the remote shell come to their end, in whatever order things happen: nothing
\* but a target that owes the agent an answer can hold them, as long as it does.
BridgeEnds == socket = "closed" ~> [](AllEnded \/ OnTarget)
=============================================================================
