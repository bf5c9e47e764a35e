------------------------------ MODULE MCConsole ------------------------------
(***************************************************************************)
(* What the console shows, for TLC.  Its parts share nothing but the       *)
(* run: a behaviour is one part's, and the others stay as they start.      *)
(***************************************************************************)
EXTENDS SshTerminal, Forms, Dialogs, Overview, Directory, Palette, AuditTrail

VARIABLE part

consoleVars == <<part, sshVars, formVars, dialogVars, overviewVars,
                 directoryVars, paletteVars, trailVars>>

ConsoleInit ==
  /\ part \in {"terminal", "form", "dialog", "overview", "directory", "palette", "trail"}
  /\ SshInit /\ FormsInit /\ DialogsInit /\ OverviewInit
  /\ DirectoryInit /\ PaletteInit /\ TrailInit
  /\ part # "terminal" => term = CHOOSE s \in Size : TRUE
  /\ part # "form" => Wizard /\ ui.main = CHOOSE v \in Value : TRUE
  /\ part # "dialog" => host = "apiKey" /\ rows
  /\ part # "overview" => own = Never
  /\ part # "directory" => person = CHOOSE p \in TailnetUser : TRUE

ConsoleNext ==
  /\ UNCHANGED part
  /\ \/ /\ part = "terminal" /\ SshNext
        /\ UNCHANGED <<formVars, dialogVars, overviewVars, directoryVars, paletteVars, trailVars>>
     \/ /\ part = "form" /\ FormsNext
        /\ UNCHANGED <<sshVars, dialogVars, overviewVars, directoryVars, paletteVars, trailVars>>
     \/ /\ part = "dialog" /\ DialogsNext
        /\ UNCHANGED <<sshVars, formVars, overviewVars, directoryVars, paletteVars, trailVars>>
     \/ /\ part = "overview" /\ OverviewNext
        /\ UNCHANGED <<sshVars, formVars, dialogVars, directoryVars, paletteVars, trailVars>>
     \/ /\ part = "directory" /\ DirectoryNext
        /\ UNCHANGED <<sshVars, formVars, dialogVars, overviewVars, paletteVars, trailVars>>
     \/ /\ part = "palette" /\ PaletteNext
        /\ UNCHANGED <<sshVars, formVars, dialogVars, overviewVars, directoryVars, trailVars>>
     \/ /\ part = "trail" /\ TrailNext
        /\ UNCHANGED <<sshVars, formVars, dialogVars, overviewVars, directoryVars, paletteVars>>

ConsoleSpec == /\ ConsoleInit /\ [][ConsoleNext]_consoleVars
               /\ SshFairness
=============================================================================
