-------------------------- MODULE Lifecycle_proofs --------------------------
(***************************************************************************)
(* Theorems about Lifecycle, for any number of launches and any machines.  *)
(***************************************************************************)
EXTENDS Lifecycle, FiniteSetTheorems, WellFoundedInduction, TLAPS

(***************************************************************************)
(* The inductive invariants, one for each idea.                            *)
(***************************************************************************)
\* A process past the instance mutex has a handle to it and is alone.
OneOwner ==
    /\ \A l \in Launches : Owner(l) => l \in handles
    /\ \A k, l \in Launches : Owner(k) /\ Owner(l) => k = l

\* The tray thread belongs to a process that has started it, sets FORCE_QUIT
\* before anything else of quit_now, and fails only where it may; the window
\* comes up with the handler registered.
Together ==
    /\ (\A l \in Launches : ~Owner(l)) => tray = "none"
    /\ \A l \in Launches : pc[l] \in {"setup", "sync"} => tray = "none"
    /\ \A l \in Launches : pc[l] \in {"open", "window"} => handler
    /\ tray \in {"delete", "release", "write", "exit"} => force
    /\ tray = "dead" => "tray" \in Faulty

\* Fans in manual mode have a process that has not ended, or one that ended while
\* it was giving them back.  `released` belongs to a session that is leaving: who
\* has set it is writing, and who is past it has written, or found it set.
FansHeld ==
    /\ fans = "manual" => /\ Supported
                          /\ cutShort \/ \E l \in Launches : Owner(l) /\ pc[l] # "setup"
    /\ fans = "manual" /\ released =>
           tray = "write" \/ \E l \in Launches : pc[l] \in {"write", "giving"}
    /\ tray \in {"write", "exit"} => released
    /\ \A l \in Launches : pc[l] \in {"write", "giving", "exit", "box"} => released
    /\ released => /\ \E l \in Launches : Owner(l) /\ pc[l] # "setup"
                   /\ force \/ \E l \in Launches : Going(l)

\* Nobody leaves or arrives while a command is under way or has left a fan to
\* the window; and there is a window for it.  What has been written is signalled.
CommandsAccompanied ==
    /\ ~Quiet => /\ closing # "quit" /\ ~force /\ "exit" \notin msgs
                 /\ \A l \in Launches : ~Going(l) /\ ~Starting(l)
                 /\ handles \cap Launches # {} => WindowUp
    /\ cli.at # "close" => Cli \notin handles
    /\ cli.at \in {"close", "signal"} => WindowUp
    /\ cli.at \in {"open", "work"} /\ cli.command = "curve" => WindowUp
    /\ cli.at = "probe" => cli.command = "curve"
    /\ loose = "signalled" => WindowUp
    /\ loose = "written" => cli.at = "signal"

\* The program is about to go.
Quitting ==
    \/ closing = "quit" \/ force \/ "exit" \in msgs
    \/ \E l \in Launches : Going(l)

\* The icon is deleted by whoever leaves, and not added again; until then it is
\* there with the taskbar, or about to be.
IconKept ==
    /\ Quitting => tray \notin {"none", "create", "add"} /\ "taskbar" \notin msgs
    /\ icon => /\ tray \notin {"none", "release", "write", "exit"}
               /\ \A l \in Launches :
                      pc[l] \notin {"release", "write", "giveBack", "giving", "exit", "box"}
    /\ taskbar /\ ~icon =>
           Quitting \/ "taskbar" \in msgs \/ tray \in {"none", "create", "add", "dead"}

\* No request to show the window is under way while it hides; a request takes
\* the contents back with the window; the two differ only until the frame that
\* is to come.
ShowAndHide ==
    /\ closing = "hide" \/ cmd = "hide" =>
           /\ ~showEvent /\ "show" \notin msgs
           /\ tray \notin {"event", "command", "native"}
           /\ \A l \in Launches : pc[l] \notin {"refused", "post"}
    /\ closing = "hide" => cmd = "none"
    /\ cmd = "hide" => frame /\ hidden
    /\ cmd = "show" \/ tray \in {"command", "native"} => showEvent \/ ~hidden
    /\ visible /\ hidden => showEvent \/ cmd = "hide"
    /\ WindowUp /\ ~visible /\ ~hidden => cmd = "show"
    /\ hidden => /\ \E l \in Launches : Owner(l)
                 /\ \A l \in Launches : pc[l] \notin {"setup", "sync", "wait", "open"}

\* What can have made a command end with a code.
Reason(command, code) ==
    /\ code = 0 => Barred = <<>> /\ (Supported \/ command = "read")
    /\ code = 1 => machine \cap {"config", "empty", "board"} # {}
    /\ code = 2 => command = "curve"
    /\ code = 3 => "user" \in machine
    /\ code = 4 => "user" \notin machine /\ machine \cap {"driver", "module"} # {}
    /\ code = 5 => ~Supported /\ command # "read"
    /\ code = 6 => "firmware" \in machine

\* What is known of a command that is under way, and of its end.
CommandKnown ==
    /\ cli.at \in {"probe", "close", "signal"} => cli.command = "curve"
    /\ cli.at \in {"open", "work"} => cli.command \in {"diagnose", "read", "set", "curve"}
    /\ cli.at \in {"work", "signal"} => Barred = <<>>
    /\ cli.at = "signal" => Supported
    /\ cli.at = "no" /\ cli.command \notin {"none", "usage", "dry", "diagnose"} =>
           Reason(cli.command, cli.code)

-----------------------------------------------------------------------------
(***************************************************************************)
(* Type correctness.                                                       *)
(***************************************************************************)
\* A command's exit code is one of those README lists.
LEMMA ExitCodes == \A error : ExitCode(error) \in 1 .. 6
BY DEF ExitCode

\* The Boolean variables, and the others: each half has a prover of its own.
Flags ==
    /\ icon \in BOOLEAN /\ taskbar \in BOOLEAN
    /\ visible \in BOOLEAN /\ hidden \in BOOLEAN /\ frame \in BOOLEAN
    /\ showEvent \in BOOLEAN /\ force \in BOOLEAN /\ asked \in BOOLEAN
    /\ handler \in BOOLEAN /\ touched \in BOOLEAN
    /\ released \in BOOLEAN /\ cutShort \in BOOLEAN

Ranges ==
    /\ pc \in [Launches -> {"none", "refused", "post", "setup", "sorry", "sync", "wait",
                            "open", "window", "leave", "release", "write", "exit", "failed",
                            "giveBack", "giving", "box"}]
    /\ handles \subseteq Launches \cup {Cli}
    /\ fans \in {"auto", "manual"}
    /\ tray \in {"none", "create", "dead", "add", "set", "loop", "event", "command",
                 "native", "delete", "release", "write", "exit"}
    /\ msgs \subseteq {"show", "exit", "taskbar"}
    /\ cmd \in {"none", "show", "hide"}
    /\ closing \in {"no", "hide", "quit"}
    /\ machine \in Machines
    /\ cli \in [at : {"no", "probe", "close", "open", "work", "signal"},
               command : Commands \cup {"none"}, code : 0 .. 6]
    /\ loose \in {"no", "written", "signalled"}

\* The steps of the main thread keep the types.
LEMMA MainType ==
    ASSUME TypeOK, NEW l \in Launches, Launch(l) \/ Main(l) \/ Confirm(l)
    PROVE  TypeOK'
<1> USE DEF giving, osVars, trayVars, shellVars, windowVars, outside
<1>0. Flags /\ Ranges
  BY Zenon DEF TypeOK, Flags, Ranges
<1>1. CASE Launch(l)
  <2>1. Flags'
    BY <1>0, <1>1, ZenonT(30) DEF Launch, Flags, Drawn
  <2>2. Ranges'
    BY <1>0, <1>1 DEF Launch, Goes, Ranges, Drawn
  <2> QED
    BY <2>1, <2>2, ZenonT(30) DEF TypeOK, Flags, Ranges
<1>2. CASE Refuse(l) \/ RequestShow(l)
  <2>1. Flags'
    <3>1. CASE Refuse(l)
      BY <1>0, <3>1, ZenonT(30) DEF Refuse, Flags
    <3>2. CASE RequestShow(l)
      BY <1>0, <3>2, ZenonT(30) DEF RequestShow, Flags
    <3> QED
      BY <1>2, <3>1, <3>2
  <2>2. Ranges'
    <3>1. CASE Refuse(l)
      BY <1>0, <3>1 DEF Refuse, Goes, Ranges
    <3>2. CASE RequestShow(l)
      BY <1>0, <3>2 DEF RequestShow, Goes, Ranges
    <3> QED
      BY <1>2, <3>1, <3>2
  <2> QED
    BY <2>1, <2>2, ZenonT(30) DEF TypeOK, Flags, Ranges
<1>3. CASE Setup(l)
  <2>1. Flags'
    BY <1>0, <1>3, ZenonT(30) DEF Setup, SetFanMode, Flags
  <2>2. Ranges'
    <3>1. CASE Stopped(machine, FALSE) = <<>>
      BY <1>0, <1>3, <3>1 DEF Setup, SetFanMode, Goes, Ranges
    <3>2. CASE Stopped(machine, FALSE) # <<>>
      BY <1>0, <1>3, <3>2 DEF Setup, Goes, Ranges
    <3> QED
      BY <3>1, <3>2
  <2> QED
    BY <2>1, <2>2, ZenonT(30) DEF TypeOK, Flags, Ranges
<1>4. CASE StartTray(l) \/ Waited(l)
  <2>1. Flags'
    <3>1. CASE StartTray(l)
      BY <1>0, <3>1, ZenonT(30) DEF StartTray, Flags
    <3>2. CASE Waited(l)
      BY <1>0, <3>2, ZenonT(30) DEF Waited, Flags
    <3> QED
      BY <1>4, <3>1, <3>2
  <2>2. Ranges'
    <3>1. CASE StartTray(l)
      BY <1>0, <3>1 DEF StartTray, Goes, Ranges
    <3>2. CASE Waited(l)
      BY <1>0, <3>2 DEF Waited, Goes, Ranges
    <3> QED
      BY <1>4, <3>1, <3>2
  <2> QED
    BY <2>1, <2>2, ZenonT(30) DEF TypeOK, Flags, Ranges
<1>5. CASE OpenWindow(l)
  <2>1. Flags'
    BY <1>0, <1>5, ZenonT(30) DEF OpenWindow, Flags
  <2>2. Ranges'
    BY <1>0, <1>5 DEF OpenWindow, Goes, Ranges
  <2> QED
    BY <2>1, <2>2, ZenonT(30) DEF TypeOK, Flags, Ranges
<1>6. CASE Logic(l)
  <2>1. Flags'
    BY <1>0, <1>6, ZenonT(30) DEF Logic, Flags
  <2>2. Ranges'
    BY <1>0, <1>6 DEF Logic, Goes, Ranges
  <2> QED
    BY <2>1, <2>2, ZenonT(30) DEF TypeOK, Flags, Ranges
<1>7. CASE EndFrame(l)
  <2>1. Flags'
    BY <1>0, <1>7, ZenonT(30) DEF EndFrame, Flags
  <2>2. Ranges'
    BY <1>0, <1>7 DEF EndFrame, Goes, Ranges
  <2> QED
    BY <2>1, <2>2, ZenonT(30) DEF TypeOK, Flags, Ranges
<1>8. CASE Leave(l) \/ Release(l) \/ Write(l)
  <2>1. Flags'
    <3>1. CASE Leave(l)
      BY <1>0, <3>1, ZenonT(30) DEF Leave, Flags
    <3>2. CASE Release(l)
      BY <1>0, <3>2, ZenonT(30) DEF Release, Flags
    <3>3. CASE Write(l)
      BY <1>0, <3>3, ZenonT(30) DEF Write, GiveBack, Flags
    <3> QED
      BY <1>8, <3>1, <3>2, <3>3
  <2>2. Ranges'
    <3>1. CASE pc[l] \in {"leave", "failed"} /\ Leave(l)
      BY <1>0, <3>1 DEF Leave, Goes, Ranges
    <3>2. CASE Release(l)
      BY <1>0, <3>2 DEF Release, After, Goes, Ranges
    <3>3. CASE Write(l)
      BY <1>0, <3>3 DEF Write, GiveBack, After, Goes, Ranges
    <3> QED
      BY <1>8, <3>1, <3>2, <3>3 DEF Leave
  <2> QED
    BY <2>1, <2>2, ZenonT(30) DEF TypeOK, Flags, Ranges
<1>9. CASE Exit(l) \/ Confirm(l)
  <2>1. Flags'
    <3>1. CASE Exit(l)
      BY <1>0, <3>1, ZenonT(30) DEF Exit, Gone, Giving, NoProgram, Flags
    <3>2. CASE Confirm(l)
      <4>1. CASE Gone(l) /\ UNCHANGED <<fans, shellVars, asked>>
        BY <1>0, <4>1, ZenonT(30) DEF Gone, Giving, NoProgram, Flags
      <4>2. CASE UNCHANGED <<osVars, trayVars, shellVars, windowVars, asked, outside>>
        BY <1>0, <4>2, ZenonT(30) DEF Flags
      <4> QED
        BY <3>2, <4>1, <4>2, Zenon DEF Confirm
    <3> QED
      BY <1>9, <3>1, <3>2
  <2>2. Ranges'
    <3>1. CASE Exit(l)
      BY <1>0, <3>1 DEF Exit, Gone, NoProgram, Goes, Ranges
    <3>2. CASE Confirm(l)
      <4>1. CASE Gone(l) /\ UNCHANGED <<fans, shellVars, asked>>
        BY <1>0, <4>1 DEF Gone, NoProgram, Goes, Ranges
      <4>2. CASE /\ Goes(l, "none")
                 /\ UNCHANGED <<osVars, trayVars, shellVars, windowVars, asked, outside>>
        BY <1>0, <4>2 DEF Goes, Ranges
      <4> QED
        BY <3>2, <4>1, <4>2, Zenon DEF Confirm
    <3> QED
      BY <1>9, <3>1, <3>2
  <2> QED
    BY <2>1, <2>2, ZenonT(30) DEF TypeOK, Flags, Ranges
<1> QED
  BY <1>1, <1>2, <1>3, <1>4, <1>5, <1>6, <1>7, <1>8, <1>9 DEF Main

\* The steps of the tray thread keep the types.
LEMMA TrayType ==
    ASSUME TypeOK, TrayThread
    PROVE  TypeOK'
<1> USE DEF giving, osVars, trayVars, shellVars, windowVars, outside
<1>0. Flags /\ Ranges
  BY Zenon DEF TypeOK, Flags, Ranges
<1>1. CASE CreateTray \/ AddFirstIcon \/ SetTray \/ TakeTaskbar
  <2>1. Flags'
    <3>1. CASE CreateTray
      BY <1>0, <3>1, ZenonT(30) DEF CreateTray, Flags
    <3>2. CASE AddFirstIcon
      BY <1>0, <3>2, ZenonT(30) DEF AddFirstIcon, Flags
    <3>3. CASE SetTray
      BY <1>0, <3>3, ZenonT(30) DEF SetTray, Flags
    <3>4. CASE TakeTaskbar
      BY <1>0, <3>4, ZenonT(30) DEF TakeTaskbar, Flags
    <3> QED
      BY <1>1, <3>1, <3>2, <3>3, <3>4
  <2>2. Ranges'
    BY <1>0, <1>1 DEF CreateTray, AddFirstIcon, SetTray, TakeTaskbar, Goes, Ranges
  <2> QED
    BY <2>1, <2>2, ZenonT(30) DEF TypeOK, Flags, Ranges
<1>2. CASE TakeShow \/ SendShow \/ CommandShow
  <2>1. Flags'
    <3>1. CASE TakeShow
      BY <1>0, <3>1, ZenonT(30) DEF TakeShow, Flags
    <3>2. CASE SendShow
      BY <1>0, <3>2, ZenonT(30) DEF SendShow, Flags
    <3>3. CASE CommandShow
      BY <1>0, <3>3, ZenonT(30) DEF CommandShow, Flags
    <3> QED
      BY <1>2, <3>1, <3>2, <3>3
  <2>2. Ranges'
    BY <1>0, <1>2 DEF TakeShow, SendShow, CommandShow, Goes, Ranges
  <2> QED
    BY <2>1, <2>2, ZenonT(30) DEF TypeOK, Flags, Ranges
<1>3. CASE ShowNative
  <2>1. Flags'
    BY <1>0, <1>3, ZenonT(30) DEF ShowNative, Flags
  <2>2. Ranges'
    BY <1>0, <1>3 DEF ShowNative, Goes, Ranges
  <2> QED
    BY <2>1, <2>2, ZenonT(30) DEF TypeOK, Flags, Ranges
<1>4. CASE TakeExit \/ DeleteIcon \/ TrayRelease \/ TrayWrite
  <2>1. Flags'
    <3>1. CASE TakeExit
      BY <1>0, <3>1, ZenonT(30) DEF TakeExit, Flags
    <3>2. CASE DeleteIcon
      BY <1>0, <3>2, ZenonT(30) DEF DeleteIcon, Flags
    <3>3. CASE TrayRelease
      BY <1>0, <3>3, ZenonT(30) DEF TrayRelease, Flags
    <3>4. CASE TrayWrite
      BY <1>0, <3>4, ZenonT(30) DEF TrayWrite, GiveBack, Flags
    <3> QED
      BY <1>4, <3>1, <3>2, <3>3, <3>4
  <2>2. Ranges'
    BY <1>0, <1>4 DEF TakeExit, DeleteIcon, TrayRelease, TrayWrite, GiveBack, Goes, Ranges
  <2> QED
    BY <2>1, <2>2, ZenonT(30) DEF TypeOK, Flags, Ranges
<1>5. CASE TrayExit
  <2>1. Flags'
    BY <1>0, <1>5, ZenonT(30) DEF TrayExit, Gone, Giving, NoProgram, Flags
  <2>2. Ranges'
    BY <1>0, <1>5 DEF TrayExit, Gone, NoProgram, Goes, Ranges
  <2> QED
    BY <2>1, <2>2, ZenonT(30) DEF TypeOK, Flags, Ranges
<1> QED
  BY <1>1, <1>2, <1>3, <1>4, <1>5 DEF TrayThread

\* The steps of the command line tool, and the adoption of what it has
\* written, keep the types.
LEMMA CommandType ==
    ASSUME TypeOK, \/ \E command \in Commands : Command(command)
                   \/ CommandLine
                   \/ \E l \in Launches : Adopt(l)
                   \/ \E to \in {"auto", "manual"} : Edit(to)
    PROVE  TypeOK'
<1> USE DEF giving, osVars, trayVars, shellVars, windowVars, outside
<1> DEFINE Known == [at : {"no", "probe", "close", "open", "work", "signal"},
                     command : Commands \cup {"none"}, code : 0 .. 6]
<1>a. ASSUME NEW code \in 0 .. 6, Ends(code)
      PROVE  cli' \in Known
  BY <1>a DEF Ends, TypeOK
<1>b. ASSUME NEW at \in {"probe", "close", "open", "work", "signal"}, Proceeds(at)
      PROVE  cli' \in Known
  BY <1>b DEF Proceeds, TypeOK
<1>0. Flags /\ Ranges
  BY Zenon DEF TypeOK, Flags, Ranges
<1>1. ASSUME NEW command \in Commands, Command(command)
      PROVE  TypeOK'
  <2>0. cli' \in Known
    BY <1>1 DEF Command
  <2>1. Flags'
    BY <1>0, <1>1, <2>0, ZenonT(30) DEF Command, Flags
  <2>2. Ranges'
    BY <1>0, <1>1, <2>0 DEF Command, Goes, Ranges
  <2> QED
    BY <2>1, <2>2, ZenonT(30) DEF TypeOK, Flags, Ranges
<1>2. CASE Probe \/ ProbeEnds
  <2>0. cli' \in Known
    BY <1>a, <1>b, <1>2 DEF Probe, ProbeEnds
  <2>1. Flags'
    <3>1. CASE Probe
      BY <1>0, <2>0, <3>1, ZenonT(30) DEF Probe, Flags
    <3>2. CASE ProbeEnds
      BY <1>0, <2>0, <3>2, ZenonT(30) DEF ProbeEnds, Flags
    <3> QED
      BY <1>2, <3>1, <3>2
  <2>2. Ranges'
    <3>1. CASE Probe
      BY <1>0, <2>0, <3>1 DEF Probe, Goes, Ranges
    <3>2. CASE ProbeEnds
      BY <1>0, <2>0, <3>2 DEF ProbeEnds, Goes, Ranges
    <3> QED
      BY <1>2, <3>1, <3>2
  <2> QED
    BY <2>1, <2>2, ZenonT(30) DEF TypeOK, Flags, Ranges
<1>3. CASE OpenSession
  <2>0. cli' \in Known
    <3>1. \/ Proceeds("work") \/ Ends(0)
          \/ \E error : Ends(ExitCode(error))
      BY <1>3, Zenon DEF OpenSession
    <3>2. \A error : ExitCode(error) \in 0 .. 6
      BY ExitCodes
    <3> QED
      BY <1>a, <1>b, <3>1, <3>2
  <2>1. Flags'
    BY <1>0, <1>3, <2>0, ZenonT(30) DEF OpenSession, Flags
  <2>2. Ranges'
    BY <1>0, <1>3, <2>0 DEF OpenSession, Goes, Ranges
  <2> QED
    BY <2>1, <2>2, ZenonT(30) DEF TypeOK, Flags, Ranges
<1>4. CASE Work
  <2>0. cli' \in Known
    BY <1>a, <1>b, <1>4, ExitCodes DEF Work, ShowStatus, SetAtOnce, SetCurve, RefuseToWrite
  <2>1. Flags'
    <3>1. UNCHANGED <<icon, taskbar, visible, hidden, frame, showEvent, force, asked, handler,
                      released, cutShort>>
      BY <1>4, Zenon DEF Work
    <3>2. touched' = touched \/ touched' = TRUE
      <4>1. ShowStatus => touched' = touched
        BY Zenon DEF ShowStatus
      <4>2. RefuseToWrite => touched' = touched
        BY Zenon DEF RefuseToWrite
      <4>3. SetAtOnce \/ SetCurve => touched' = TRUE
        BY Zenon DEF SetAtOnce, SetCurve
      <4> QED
        BY <1>4, <4>1, <4>2, <4>3, Zenon DEF Work
    <3>3. touched' \in BOOLEAN
      BY <1>0, <3>2, ZenonT(30) DEF Flags
    <3> QED
      BY <1>0, <3>1, <3>3, ZenonT(30) DEF Flags
  <2>2. Ranges'
    BY <1>0, <1>4, <2>0 DEF Work, Goes, Ranges, ShowStatus, SetAtOnce, SetCurve, RefuseToWrite
  <2> QED
    BY <2>1, <2>2, ZenonT(30) DEF TypeOK, Flags, Ranges
<1>5. CASE Signal
  <2>0. cli' \in Known
    BY <1>a, <1>5 DEF Signal
  <2>1. Flags'
    BY <1>0, <1>5, <2>0, ZenonT(30) DEF Signal, Flags
  <2>2. Ranges'
    BY <1>0, <1>5, <2>0 DEF Signal, Goes, Ranges
  <2> QED
    BY <2>1, <2>2, ZenonT(30) DEF TypeOK, Flags, Ranges
<1>6. ASSUME NEW l \in Launches, Adopt(l)
      PROVE  TypeOK'
  <2>1. Flags'
    BY <1>0, <1>6, ZenonT(30) DEF Adopt, SetFanMode, Flags
  <2>2. Ranges'
    BY <1>0, <1>6 DEF Adopt, SetFanMode, Ranges
  <2> QED
    BY <2>1, <2>2, ZenonT(30) DEF TypeOK, Flags, Ranges
<1>7. ASSUME NEW to \in {"auto", "manual"}, Edit(to)
      PROVE  TypeOK'
  <2>1. Flags'
    <3>1. UNCHANGED <<icon, taskbar, visible, hidden, frame, showEvent, force, asked, handler,
                      released, cutShort>>
      BY <1>7, Zenon DEF Edit
    <3>2. touched' = touched \/ touched' = TRUE
      BY <1>7, Zenon DEF Edit, SetFanMode
    <3>3. touched' \in BOOLEAN
      BY <1>0, <3>2, ZenonT(30) DEF Flags
    <3> QED
      BY <1>0, <3>1, <3>3, ZenonT(30) DEF Flags
  <2>2. Ranges'
    BY <1>0, <1>7 DEF Edit, SetFanMode, Ranges
  <2> QED
    BY <2>1, <2>2, ZenonT(30) DEF TypeOK, Flags, Ranges
<1> QED
  BY <1>1, <1>2, <1>3, <1>4, <1>5, <1>6, <1>7 DEF CommandLine

\* What the user and Windows do keeps the types.
LEMMA OutsideType ==
    ASSUME TypeOK, \/ \E how \in {"hide", "quit"} : Close(how)
                   \/ \E pointer \in {"select", "contextMenu", "move"} : Click(pointer)
                   \/ SignOut \/ ExplorerGone \/ ExplorerBack
    PROVE  TypeOK'
<1> USE DEF giving, osVars, trayVars, shellVars, windowVars, outside
<1>0. Flags /\ Ranges
  BY Zenon DEF TypeOK, Flags, Ranges
<1>1. ASSUME NEW how \in {"hide", "quit"}, Close(how)
      PROVE  TypeOK'
  <2>1. Flags'
    BY <1>0, <1>1, ZenonT(30) DEF Close, Flags
  <2>2. Ranges'
    BY <1>0, <1>1 DEF Close, Goes, Ranges
  <2> QED
    BY <2>1, <2>2, ZenonT(30) DEF TypeOK, Flags, Ranges
<1>2. ASSUME NEW pointer \in {"select", "contextMenu", "move"}, Click(pointer)
      PROVE  TypeOK'
  <2>1. Flags'
    BY <1>0, <1>2, ZenonT(30) DEF Click, Flags, Drawn, PointerAction
  <2>2. Ranges'
    BY <1>0, <1>2 DEF Click, Goes, Ranges, Drawn, PointerAction
  <2> QED
    BY <2>1, <2>2, ZenonT(30) DEF TypeOK, Flags, Ranges
<1>3. CASE SignOut
  <2>1. Flags'
    BY <1>0, <1>3, ZenonT(30) DEF SignOut, GiveBack, Giving, NoProgram, Flags
  <2>2. Ranges'
    BY <1>0, <1>3 DEF SignOut, GiveBack, NoProgram, Ranges
  <2> QED
    BY <2>1, <2>2, ZenonT(30) DEF TypeOK, Flags, Ranges
<1>4. CASE ExplorerGone \/ ExplorerBack
  <2>1. Flags'
    BY <1>0, <1>4, ZenonT(30) DEF ExplorerGone, ExplorerBack, Flags
  <2>2. Ranges'
    <3>1. CASE ExplorerGone
      BY <1>0, <3>1 DEF ExplorerGone, Goes, Ranges
    <3>2. CASE ExplorerBack
      BY <1>0, <3>2 DEF ExplorerBack, Goes, Ranges
    <3> QED
      BY <1>4, <3>1, <3>2
  <2> QED
    BY <2>1, <2>2, ZenonT(30) DEF TypeOK, Flags, Ranges
<1> QED
  BY <1>1, <1>2, <1>3, <1>4

LEMMA TypeInit == Init => TypeOK
<1> SUFFICES ASSUME Init PROVE TypeOK
  OBVIOUS
<1>1. Flags
  BY Zenon DEF Init, Flags
<1>2. Ranges
  BY LifecycleAssumption DEF Init, Ranges
<1> QED
  BY <1>1, <1>2, ZenonT(30) DEF TypeOK, Flags, Ranges

LEMMA TypeStep == TypeOK /\ [Next]_vars => TypeOK'
<1> SUFFICES ASSUME TypeOK, [Next]_vars PROVE TypeOK'
  OBVIOUS
<1>1. CASE Next
  BY <1>1, MainType, TrayType, CommandType, OutsideType DEF Next
<1>2. CASE UNCHANGED vars
  <2>1. UNCHANGED <<pc, handles, fans, handler, released, cutShort, tray, msgs, icon, taskbar,
                    visible, hidden, frame, cmd, showEvent, closing, force, asked, machine,
                    touched, cli, loose>>
    BY <1>2 DEF vars, giving, osVars, trayVars, shellVars, windowVars, outside
  <2>2. Flags' /\ Ranges'
    <3>1. Flags'
      BY <2>1, ZenonT(30) DEF TypeOK, Flags
    <3>2. Ranges'
      BY <2>1 DEF TypeOK, Ranges
    <3> QED
      BY <3>1, <3>2
  <2> QED
    BY <2>2, Zenon DEF TypeOK, Flags, Ranges
<1> QED
  BY <1>1, <1>2

\* Every variable of Lifecycle stays in its range.
THEOREM LifecycleTypeCorrect == Spec => []TypeOK
BY TypeInit, TypeStep, PTL DEF Spec
-----------------------------------------------------------------------------
(***************************************************************************)
(* One session at a time.                                                  *)
(***************************************************************************)
\* How a step can change who has passed the mutex and who has a handle.
Arrives(l) ==
    /\ handles = {} /\ handles' = {l}
    /\ pc' = [pc EXCEPT ![l] = "setup"]
IsRefused(l) ==
    /\ ~Owner(l) /\ handles' \in {handles, handles \cup {l}, handles \ {l}}
    /\ pc'[l] \in {"none", "refused", "post", "sorry"} /\ pc' = [pc EXCEPT ![l] = pc'[l]]
Stays(l) ==
    /\ Owner(l) /\ handles' = handles
    /\ Owner(l)' /\ pc' = [pc EXCEPT ![l] = pc'[l]]
Departs(l) ==
    /\ Owner(l) /\ handles' = handles \ {l}
    /\ pc'[l] \in {"none", "sorry"} /\ pc' = [pc EXCEPT ![l] = pc'[l]]
KeepsOwners == pc' = pc /\ handles' \cap Launches = handles \cap Launches
SendsAllOff == pc' = [l \in Launches |-> "none"] /\ handles' = {}

LEMMA MutexSteps ==
    ASSUME TypeOK, [Next]_vars
    PROVE  \/ KeepsOwners \/ SendsAllOff
           \/ \E l \in Launches : Arrives(l) \/ IsRefused(l) \/ Stays(l) \/ Departs(l)
<1> USE DEF giving, osVars, trayVars, shellVars, windowVars, outside
<1>c. Cli \notin Launches /\ DOMAIN pc = Launches
  BY LifecycleAssumption DEF TypeOK
<1>1. ASSUME NEW l \in Launches, Launch(l)
      PROVE  Arrives(l) \/ IsRefused(l)
  BY <1>1, <1>c DEF Launch, Goes, Arrives, IsRefused, Owner, TypeOK
<1>2. ASSUME NEW l \in Launches, Refuse(l) \/ RequestShow(l)
      PROVE  IsRefused(l)
  BY <1>2, <1>c DEF Refuse, RequestShow, Goes, IsRefused, Owner, TypeOK
<1>3. ASSUME NEW l \in Launches, Setup(l)
      PROVE  Stays(l) \/ Departs(l)
  BY <1>3, <1>c DEF Setup, Goes, Stays, Departs, Owner, TypeOK
<1>4. ASSUME NEW l \in Launches,
             \/ StartTray(l) \/ Waited(l) \/ OpenWindow(l) \/ Logic(l) \/ EndFrame(l)
             \/ Leave(l) \/ Release(l) \/ Write(l)
      PROVE  KeepsOwners \/ Stays(l)
  <2>1. CASE StartTray(l) \/ Waited(l) \/ OpenWindow(l)
    BY <1>c, <2>1 DEF StartTray, Waited, OpenWindow, Goes, Stays, Owner, TypeOK
  <2>2. CASE Logic(l) \/ EndFrame(l)
    BY <1>c, <2>2 DEF Logic, EndFrame, Goes, Stays, KeepsOwners, Owner, TypeOK
  <2>3. CASE Leave(l) \/ Release(l) \/ Write(l)
    BY <1>c, <2>3 DEF Leave, Release, Write, After, Goes, Stays, Owner, TypeOK
  <2> QED
    BY <1>4, <2>1, <2>2, <2>3
<1>5. ASSUME NEW l \in Launches, Exit(l) \/ Confirm(l)
      PROVE  Departs(l) \/ IsRefused(l)
  BY <1>5, <1>c DEF Exit, Confirm, Gone, Goes, Departs, IsRefused, Owner, TypeOK
<1>6. ASSUME TrayThread
      PROVE  KeepsOwners \/ \E l \in Launches : Departs(l)
  <2>1. CASE CreateTray \/ AddFirstIcon \/ SetTray \/ TakeTaskbar \/ TakeShow \/ SendShow
    BY <2>1 DEF CreateTray, AddFirstIcon, SetTray, TakeTaskbar, TakeShow, SendShow,
                KeepsOwners
  <2>2. CASE CommandShow \/ ShowNative \/ TakeExit \/ DeleteIcon \/ TrayRelease \/ TrayWrite
    BY <2>2 DEF CommandShow, ShowNative, TakeExit, DeleteIcon, TrayRelease, TrayWrite,
                KeepsOwners
  <2>3. CASE TrayExit
    <3>1. PICK l \in Launches : Owner(l) /\ Gone(l)
      BY <2>3 DEF TrayExit
    <3>2. Departs(l)
      BY <1>c, <3>1 DEF Gone, Goes, Departs, TypeOK
    <3> QED
      BY <3>2
  <2> QED
    BY <1>6, <2>1, <2>2, <2>3 DEF TrayThread
<1>7. ASSUME \/ \E command \in Commands : Command(command)
             \/ CommandLine \/ \E l \in Launches : Adopt(l)
             \/ \E to \in {"auto", "manual"} : Edit(to)
      PROVE  KeepsOwners
  BY <1>7, <1>c DEF Command, CommandLine, Probe, ProbeEnds, OpenSession, Work, Signal, Adopt,
                    Edit, KeepsOwners
<1>8. ASSUME \/ \E how \in {"hide", "quit"} : Close(how)
             \/ \E pointer \in {"select", "contextMenu", "move"} : Click(pointer)
             \/ ExplorerGone \/ ExplorerBack
      PROVE  KeepsOwners
  BY <1>8 DEF Close, Click, ExplorerGone, ExplorerBack, KeepsOwners
<1>9. CASE UNCHANGED vars
  BY <1>9 DEF vars, KeepsOwners
<1> QED
  BY <1>1, <1>2, <1>3, <1>4, <1>5, <1>6, <1>7, <1>8, <1>9
     DEF Next, Main, SignOut, SendsAllOff

LEMMA OneOwnerStep ==
    ASSUME TypeOK, OneOwner, [Next]_vars
    PROVE  OneOwner'
<1>c. DOMAIN pc = Launches
  BY DEF TypeOK
<1>1. CASE KeepsOwners
  BY <1>1 DEF KeepsOwners, OneOwner, Owner
<1>2. CASE SendsAllOff
  BY <1>2 DEF SendsAllOff, OneOwner, Owner
<1>3. ASSUME NEW l \in Launches, Arrives(l)
      PROVE  OneOwner'
  BY <1>3, <1>c DEF Arrives, OneOwner, Owner, TypeOK
<1>4. ASSUME NEW l \in Launches, IsRefused(l)
      PROVE  OneOwner'
  BY <1>4, <1>c DEF IsRefused, OneOwner, Owner, TypeOK
<1>5. ASSUME NEW l \in Launches, Stays(l)
      PROVE  OneOwner'
  BY <1>5, <1>c DEF Stays, OneOwner, Owner, TypeOK
<1>6. ASSUME NEW l \in Launches, Departs(l)
      PROVE  OneOwner'
  BY <1>6, <1>c DEF Departs, OneOwner, Owner, TypeOK
<1> QED
  BY <1>1, <1>2, <1>3, <1>4, <1>5, <1>6, MutexSteps

LEMMA OneOwnerInit == Init => OneOwner
BY DEF Init, OneOwner, Owner

\* OneOwner is what OneSession counts.
LEMMA OneOwnerCounted == OneOwner => OneSession
<1> SUFFICES ASSUME OneOwner PROVE OneSession
  OBVIOUS
<1> DEFINE owners == {l \in Launches : Owner(l)}
<1>1. CASE owners = {}
  BY <1>1, FS_EmptySet DEF OneOwner, OneSession
<1>2. CASE owners # {}
  <2>1. PICK l \in Launches : owners = {l}
    BY <1>2 DEF OneOwner
  <2>2. Cardinality(owners) = 1
    BY <2>1, FS_Singleton
  <2> QED
    BY <2>2 DEF OneOwner, OneSession
<1> QED
  BY <1>1, <1>2

\* However many launches there are and wherever they overlap, with a process
\* that is leaving, with a command that has the mutex open, with Windows
\* ending the session: at most one process is past InstanceGuard::acquire, and
\* it has its handle for as long as it may touch the fans.
THEOREM NeverTwoSessions == Spec => []OneSession
<1>1. Init => TypeOK /\ OneOwner
  BY TypeInit, OneOwnerInit
<1>2. TypeOK /\ OneOwner /\ [Next]_vars => (TypeOK /\ OneOwner)'
  BY TypeStep, OneOwnerStep
<1> QED
  BY <1>1, <1>2, OneOwnerCounted, PTL DEF Spec
-----------------------------------------------------------------------------
(***************************************************************************)
(* Another board.                                                          *)
(***************************************************************************)
LEMMA ForeignBoardStep ==
    ASSUME ForeignBoardUntouched, [Next]_vars
    PROVE  ForeignBoardUntouched'
<1> USE DEF ForeignBoardUntouched, Supported, giving, osVars, trayVars, shellVars, windowVars,
            outside
<1>1. ASSUME NEW l \in Launches, Launch(l) \/ Main(l) \/ Confirm(l) \/ Adopt(l)
      PROVE  ForeignBoardUntouched'
  <2>1. CASE Setup(l)
    BY <2>1 DEF Setup, SetFanMode
  <2>2. CASE Launch(l) \/ Confirm(l) \/ Adopt(l) \/ Exit(l)
    BY <2>2 DEF Launch, Confirm, Adopt, SetFanMode, Exit, Gone
  <2>3. CASE \/ Refuse(l) \/ RequestShow(l) \/ StartTray(l) \/ Waited(l) \/ OpenWindow(l)
             \/ Logic(l) \/ EndFrame(l) \/ Leave(l) \/ Release(l)
    BY <2>3 DEF Refuse, RequestShow, StartTray, Waited, OpenWindow, Logic, EndFrame, Leave,
                Release
  <2>4. CASE Write(l)
    BY <2>4 DEF Write, GiveBack
  <2> QED
    BY <1>1, <2>1, <2>2, <2>3, <2>4 DEF Main
<1>2. CASE TrayThread
  BY <1>2 DEF TrayThread, CreateTray, AddFirstIcon, SetTray, TakeTaskbar, TakeShow, SendShow,
              CommandShow, ShowNative, TakeExit, DeleteIcon, TrayRelease, TrayWrite, GiveBack,
              TrayExit, Gone
<1>3. CASE \/ \E command \in Commands : Command(command)
           \/ \E to \in {"auto", "manual"} : Edit(to)
  BY <1>3 DEF Command, Edit, SetFanMode
<1>4. CASE CommandLine
  BY <1>4 DEF CommandLine, Probe, ProbeEnds, OpenSession, Work, ShowStatus, SetAtOnce,
              SetCurve, RefuseToWrite, Signal
<1>5. CASE \/ \E how \in {"hide", "quit"} : Close(how)
           \/ \E pointer \in {"select", "contextMenu", "move"} : Click(pointer)
           \/ ExplorerGone \/ ExplorerBack
  BY <1>5 DEF Close, Click, ExplorerGone, ExplorerBack
<1>6. CASE SignOut
  BY <1>6 DEF SignOut, GiveBack
<1>7. CASE UNCHANGED vars
  BY <1>7 DEF vars
<1> QED
  BY <1>1, <1>2, <1>3, <1>4, <1>5, <1>6, <1>7 DEF Next

\* On another board no route to a register of the EC is taken - not the restore
\* at start, nor an edit, an adoption or a command, nor the release by either
\* caller of shutdown or at sign-out, in whatever order they come and whatever
\* fails - and no fan is in curve mode in memory for the monitor to move
\* (restore_saved_state, ensure_writes_allowed, release_curve_fans_to_auto).
THEOREM ForeignBoardNeverWritten == Spec => []ForeignBoardUntouched
<1>1. Init => ForeignBoardUntouched
  BY DEF Init, ForeignBoardUntouched
<1> QED
  BY <1>1, ForeignBoardStep, PTL DEF Spec

-----------------------------------------------------------------------------
(***************************************************************************)
(* What a command ends with.                                               *)
(***************************************************************************)
\* A set of numbers that is not empty has a least one.
LEMMA LeastElement ==
    ASSUME NEW S \in SUBSET Nat, S # {}
    PROVE  \E m \in S : \A k \in S : m <= k
<1>1. PICK m \in S : \A k \in S : ~ (<<k, m>> \in OpToRel(<, Nat))
  BY NatLessThanWellFounded, WFMin, Zenon
<1>2. ASSUME NEW k \in S PROVE m <= k
  <2>1. <<k, m>> \in Nat \X Nat => ~ (k < m)
    BY <1>1 DEF OpToRel
  <2> QED
    BY <2>1
<1> QED
  BY <1>2

\* The gate that stops a start is the first of those in the way: nothing it is
\* found behind is in the way itself, and the log never stops a command.
LEMMA FirstGate ==
    \/ Barred = <<>>
    \/ \E gate \in machine :
         /\ Barred = <<gate>>
         /\ gate \in {"user", "config", "driver", "module", "empty", "firmware"}
         /\ gate # "user" => "user" \notin machine
<1> DEFINE closed == {i \in DOMAIN GateOrder : Stops(GateOrder[i], machine, TRUE)}
           first  == CHOOSE i \in closed : \A j \in closed : i <= j
<1>1. DOMAIN GateOrder = 1 .. 7
  BY DEF GateOrder
<1>2. SUFFICES ASSUME closed # {} PROVE \E gate \in machine :
         /\ <<GateOrder[first]>> = <<gate>>
         /\ gate \in {"user", "config", "driver", "module", "empty", "firmware"}
         /\ gate # "user" => "user" \notin machine
  BY DEF Barred, Stopped
<1>3. PICK f \in closed : f = first /\ \A j \in closed : f <= j
  <2>1. closed \in SUBSET Nat
    <3>1. closed \subseteq DOMAIN GateOrder
      OBVIOUS
    <3> HIDE DEF closed
    <3> QED
      BY <1>1, <3>1
  <2> HIDE DEF closed
  <2>2. \E i \in closed : \A j \in closed : i <= j
    BY <1>2, <2>1, LeastElement
  <2> QED
    BY <2>2, Zenon
<1>4. GateOrder[f] \in machine /\ GateOrder[f] # "log" /\ f \in 1 .. 7
  BY <1>1 DEF Stops
<1>5. GateOrder[f] \in {"user", "config", "driver", "module", "empty", "firmware"}
  BY <1>4 DEF GateOrder
<1>6. ASSUME GateOrder[f] # "user", "user" \in machine PROVE FALSE
  <2>1. GateOrder[1] = "user"
    BY DEF GateOrder
  <2>2. 1 \in closed
    BY <1>1, <1>6, <2>1 DEF Stops
  <2>3. f <= 1
    BY <1>3, <2>2
  <2>4. f = 1
    BY <1>4, <2>3
  <2> QED
    BY <1>6, <2>1, <2>4
<1> QED
  BY <1>3, <1>4, <1>5, <1>6

\* The exit code found by the words of the sentence a gate stops with.
LEMMA CodeOfGate ==
    /\ ExitCode("user") = 3
    /\ ExitCode("driver") = 4 /\ ExitCode("module") = 4
    /\ ExitCode("firmware") = 6
    /\ ExitCode("config") = 1 /\ ExitCode("empty") = 1
    /\ ExitCode("board") = 5
<1>1. /\ Words("user") = {"administrator", "pawnio"}
      /\ Words("driver") = {"pawnio"} /\ Words("module") = {"pawnio"}
      /\ Words("firmware") = {"unsupportedFirmware"}
      /\ Words("config") = {} /\ Words("empty") = {}
      /\ Words("board") = {"unsupportedHardware"}
  BY DEF Words
<1>2. ExitCode("user") = 3
  BY <1>1 DEF ExitCode
<1>3. ExitCode("driver") = 4 /\ ExitCode("module") = 4
  BY <1>1 DEF ExitCode
<1>4. ExitCode("firmware") = 6
  BY <1>1 DEF ExitCode
<1>5. ExitCode("config") = 1 /\ ExitCode("empty") = 1
  BY <1>1 DEF ExitCode
<1>6. ExitCode("board") = 5
  BY <1>1 DEF ExitCode
<1> QED
  BY <1>2, <1>3, <1>4, <1>5, <1>6

\* What is wrong with the machine does not change, and only the command line
\* tool and Windows ending the session move a command on.
LEMMA CliSteps ==
    ASSUME [Next]_vars
    PROVE  /\ machine' = machine
           /\ \/ cli' = cli
              \/ cli' = [cli EXCEPT !.at = "no", !.command = "none"]
              \/ \E command \in Commands : Command(command)
              \/ CommandLine
<1> USE DEF giving, osVars, trayVars, shellVars, windowVars, outside
<1>1. ASSUME NEW l \in Launches, Launch(l) \/ Main(l) \/ Confirm(l) \/ Adopt(l)
      PROVE  UNCHANGED <<machine, cli>>
  <2>1. CASE Launch(l) \/ Setup(l) \/ Confirm(l) \/ Adopt(l) \/ Exit(l)
    BY <2>1 DEF Launch, Setup, Confirm, Adopt, Exit, Gone
  <2>2. CASE \/ Refuse(l) \/ RequestShow(l) \/ StartTray(l) \/ Waited(l) \/ OpenWindow(l)
             \/ Logic(l) \/ EndFrame(l) \/ Leave(l) \/ Release(l) \/ Write(l)
    BY <2>2 DEF Refuse, RequestShow, StartTray, Waited, OpenWindow, Logic, EndFrame, Leave,
                Release, Write
  <2> QED
    BY <1>1, <2>1, <2>2 DEF Main
<1>2. CASE TrayThread
  BY <1>2 DEF TrayThread, CreateTray, AddFirstIcon, SetTray, TakeTaskbar, TakeShow, SendShow,
              CommandShow, ShowNative, TakeExit, DeleteIcon, TrayRelease, TrayWrite, TrayExit,
              Gone
<1>3. CASE \/ \E command \in Commands : Command(command)
           \/ \E to \in {"auto", "manual"} : Edit(to)
  BY <1>3 DEF Command, Edit
<1>4. CASE CommandLine
  BY <1>4 DEF CommandLine, Probe, ProbeEnds, OpenSession, Work, Signal
<1>5. CASE \/ \E how \in {"hide", "quit"} : Close(how)
           \/ \E pointer \in {"select", "contextMenu", "move"} : Click(pointer)
           \/ SignOut \/ ExplorerGone \/ ExplorerBack
  BY <1>5 DEF Close, Click, SignOut, ExplorerGone, ExplorerBack
<1>6. CASE UNCHANGED vars
  BY <1>6 DEF vars
<1> QED
  BY <1>1, <1>2, <1>3, <1>4, <1>5, <1>6 DEF Next

LEMMA CommandKnownStep ==
    ASSUME TypeOK, CommandKnown, [Next]_vars, "port" \notin Faulty
    PROVE  CommandKnown'
<1> USE DEF giving, osVars, trayVars, shellVars, windowVars, outside
<1>0. /\ machine' = machine /\ Supported' = Supported
      /\ Barred' = Barred
      /\ \A command, code : Reason(command, code)' = Reason(command, code)
  <2>1. machine' = machine
    BY CliSteps
  <2> QED
    BY <2>1 DEF Supported, Barred, Reason
<1>t. cli \in [at : {"no", "probe", "close", "open", "work", "signal"},
               command : Commands \cup {"none"}, code : 0 .. 6]
  BY DEF TypeOK
<1>e. ASSUME NEW code \in 0 .. 6, Ends(code), Reason(cli.command, code)
      PROVE  CommandKnown'
  BY <1>0, <1>e, <1>t DEF Ends, CommandKnown
<1>1. CASE cli' = cli
  BY <1>0, <1>1 DEF CommandKnown
<1>2. CASE cli' = [cli EXCEPT !.at = "no", !.command = "none"]
  BY <1>2, <1>t DEF CommandKnown
<1>3. ASSUME NEW command \in Commands, Command(command)
      PROVE  CommandKnown'
  BY <1>3, <1>t DEF Command, Commands, CommandKnown
<1>4. CASE Probe
  <2>1. Reason(cli.command, 2)
    BY <1>4 DEF Probe, CommandKnown, Reason
  <2>2. CASE Ends(2)
    BY <1>e, <2>1, <2>2
  <2>3. CASE Proceeds("close")
    BY <1>0, <1>4, <1>t, <2>3 DEF Probe, Proceeds, CommandKnown
  <2> QED
    BY <1>4, <2>2, <2>3 DEF Probe
<1>5. CASE ProbeEnds
  BY <1>0, <1>5, <1>t DEF ProbeEnds, Proceeds, CommandKnown
<1>6. CASE OpenSession
  <2>1. CASE Barred = <<>>
    BY <1>0, <1>6, <1>t, <2>1 DEF OpenSession, Proceeds, CommandKnown
  <2>2. CASE Barred # <<>> /\ cli.command = "diagnose"
    BY <1>0, <1>6, <1>t, <2>2 DEF OpenSession, Ends, CommandKnown
  <2>3. CASE Barred # <<>> /\ cli.command # "diagnose"
    <3>1. PICK gate \in machine :
             /\ Barred = <<gate>>
             /\ gate \in {"user", "config", "driver", "module", "empty", "firmware"}
             /\ gate # "user" => "user" \notin machine
      BY <2>3, FirstGate
    <3>2. Ends(ExitCode(gate))
      <4>1. Barred[1] = gate
        BY <3>1
      <4> QED
        BY <1>6, <2>3, <4>1, Zenon DEF OpenSession
    <3>3. Reason(cli.command, ExitCode(gate)) /\ ExitCode(gate) \in 0 .. 6
      <4>1. CASE gate = "user"
        BY <4>1, CodeOfGate DEF Reason
      <4>2. CASE gate \in {"driver", "module"}
        <5>1. "user" \notin machine /\ gate \in machine \cap {"driver", "module"}
          BY <3>1, <4>2
        <5> QED
          BY <4>2, <5>1, CodeOfGate DEF Reason
      <4>3. CASE gate = "firmware"
        BY <4>3, CodeOfGate DEF Reason
      <4>4. CASE gate \in {"config", "empty"}
        <5>1. gate \in machine \cap {"config", "empty", "board"}
          BY <4>4
        <5> QED
          BY <4>4, <5>1, CodeOfGate DEF Reason
      <4> QED
        BY <3>1, <4>1, <4>2, <4>3, <4>4
    <3> QED
      BY <1>e, <3>2, <3>3
  <2> QED
    BY <2>1, <2>2, <2>3
<1>7. CASE Work
  <2>0. Barred = <<>>
    BY <1>7 DEF Work, CommandKnown
  <2>1. CASE ShowStatus /\ cli.command = "diagnose"
    BY <1>0, <1>t, <2>1 DEF ShowStatus, Ends, CommandKnown
  <2>2. CASE ShowStatus /\ cli.command = "read"
    <3>1. Reason(cli.command, 0)
      BY <2>0, <2>2 DEF Reason, Supported
    <3>2. ~Supported => Reason(cli.command, 1)
      BY DEF Supported, Reason
    <3> QED
      BY <1>e, <2>2, <3>1, <3>2 DEF ShowStatus
  <2>3. CASE Supported /\ SetAtOnce
    <3>1. Reason(cli.command, 0)
      BY <2>0, <2>3 DEF Reason, Supported
    <3> QED
      BY <1>e, <2>3, <3>1 DEF SetAtOnce
  <2>4. CASE Supported /\ SetCurve
    BY <1>0, <1>t, <2>0, <2>4 DEF SetCurve, Proceeds, CommandKnown
  <2>5. CASE ~Supported /\ RefuseToWrite
    <3>1. Reason(cli.command, 5)
      BY <2>5 DEF RefuseToWrite, Reason
    <3> QED
      BY <1>e, <2>5, <3>1, CodeOfGate DEF RefuseToWrite
  <2> QED
    BY <1>7, <2>1, <2>2, <2>3, <2>4, <2>5 DEF Work, ShowStatus
<1>8. CASE Signal
  <2>1. Reason(cli.command, 0)
    BY <1>8 DEF Signal, CommandKnown, Reason, Supported
  <2> QED
    BY <1>8, <1>e, <2>1 DEF Signal
<1> QED
  BY <1>1, <1>2, <1>3, <1>4, <1>5, <1>6, <1>7, <1>8, CliSteps DEF CommandLine

LEMMA CommandKnownTells == TypeOK /\ CommandKnown => ExitCodeTells
<1> SUFFICES ASSUME TypeOK, CommandKnown, cli.at = "no",
                    cli.command \notin {"none", "usage", "dry", "diagnose"}
             PROVE  ExitCodeTells
  BY DEF ExitCodeTells
<1>1. Reason(cli.command, cli.code) /\ cli.code \in 0 .. 6
  BY DEF CommandKnown, TypeOK
<1>2. CASE cli.code = 0
  BY <1>1, <1>2 DEF Reason, ExitCodeTells
<1>3. CASE cli.code \in {1, 2, 3}
  BY <1>1, <1>3 DEF Reason, ExitCodeTells
<1>4. CASE cli.code \in {4, 5, 6}
  BY <1>1, <1>4 DEF Reason, ExitCodeTells
<1> QED
  BY <1>1, <1>2, <1>3, <1>4

\* If no port access fails, what a command ends with is the code README gives
\* to what has stopped it, on every machine: the missing rights before the
\* missing driver, the board only when it is to be written.
THEOREM ExitCodesTellWhy == "port" \notin Faulty => (Spec => []ExitCodeTells)
<1> SUFFICES ASSUME "port" \notin Faulty PROVE Spec => []ExitCodeTells
  OBVIOUS
<1>1. Init => TypeOK /\ CommandKnown
  <2>1. Init => CommandKnown
    BY DEF Init, CommandKnown
  <2> QED
    BY <2>1, TypeInit
<1>2. TypeOK /\ CommandKnown /\ [Next]_vars => (TypeOK /\ CommandKnown)'
  BY TypeStep, CommandKnownStep
<1> QED
  BY <1>1, <1>2, CommandKnownTells, PTL DEF Spec
-----------------------------------------------------------------------------
(***************************************************************************)
(* The tray thread and its process.                                        *)
(***************************************************************************)
LEMMA TogetherMain ==
    ASSUME TypeOK, OneOwner, Together, NEW l \in Launches,
           Launch(l) \/ Main(l) \/ Confirm(l)
    PROVE  Together'
<1> USE DEF giving, osVars, trayVars, shellVars, windowVars, outside
<1>0. DOMAIN pc = Launches
  BY DEF TypeOK
<1>1. CASE Launch(l)
  BY <1>0, <1>1 DEF Launch, Goes, Together, OneOwner, Owner
<1>2. CASE Refuse(l) \/ RequestShow(l)
  BY <1>0, <1>2 DEF Refuse, RequestShow, Goes, Together, Owner
<1>3. CASE Setup(l)
  BY <1>0, <1>3 DEF Setup, Goes, Together, OneOwner, Owner
<1>4. CASE StartTray(l)
  BY <1>0, <1>4 DEF StartTray, Goes, Together, OneOwner, Owner
<1>5. CASE Waited(l)
  BY <1>0, <1>5 DEF Waited, Goes, Together, OneOwner, Owner
<1>6. CASE OpenWindow(l)
  BY <1>0, <1>6 DEF OpenWindow, Goes, Together, OneOwner, Owner
<1>7. CASE Logic(l)
  BY <1>0, <1>7 DEF Logic, Goes, Together, OneOwner, Owner
<1>8. CASE EndFrame(l)
  BY <1>0, <1>8 DEF EndFrame, Together, Owner
<1>9. CASE Leave(l) \/ Release(l) \/ Write(l)
  BY <1>0, <1>9 DEF Leave, Release, Write, After, Goes, Together, OneOwner, Owner
<1>10. CASE Exit(l) \/ Confirm(l)
  BY <1>0, <1>10 DEF Exit, Confirm, Gone, NoProgram, Goes, Together, OneOwner, Owner
<1> QED
  BY <1>1, <1>2, <1>3, <1>4, <1>5, <1>6, <1>7, <1>8, <1>9, <1>10 DEF Main

LEMMA TogetherTray ==
    ASSUME TypeOK, OneOwner, Together, TrayThread
    PROVE  Together'
<1> USE DEF giving, osVars, trayVars, shellVars, windowVars, outside
<1>0. DOMAIN pc = Launches
  BY DEF TypeOK
<1>1. CASE CreateTray
  BY <1>1 DEF CreateTray, Together, Owner
<1>2. CASE AddFirstIcon \/ SetTray \/ TakeTaskbar
  BY <1>2 DEF AddFirstIcon, SetTray, TakeTaskbar, Together, Owner
<1>3. CASE TakeShow \/ SendShow \/ CommandShow \/ ShowNative
  BY <1>3 DEF TakeShow, SendShow, CommandShow, ShowNative, Together, Owner
<1>4. CASE TakeExit \/ DeleteIcon \/ TrayRelease \/ TrayWrite
  BY <1>4 DEF TakeExit, DeleteIcon, TrayRelease, TrayWrite, Together, Owner
<1>5. CASE TrayExit
  <2>1. PICK l \in Launches : Owner(l) /\ Gone(l)
    BY <1>5 DEF TrayExit
  <2> QED
    BY <1>0, <2>1 DEF Gone, NoProgram, Goes, Together, OneOwner, Owner
<1> QED
  BY <1>1, <1>2, <1>3, <1>4, <1>5 DEF TrayThread

LEMMA TogetherStep ==
    ASSUME TypeOK, OneOwner, Together, [Next]_vars
    PROVE  Together'
<1> USE DEF giving, osVars, trayVars, shellVars, windowVars, outside
<1>1. ASSUME UNCHANGED <<pc, handler, tray, force>>
      PROVE  Together'
  BY <1>1 DEF Together, Owner
<1>2. CASE \/ \E l \in Launches : Adopt(l)
           \/ \E command \in Commands : Command(command)
           \/ CommandLine
           \/ \E to \in {"auto", "manual"} : Edit(to)
  BY <1>1, <1>2 DEF Adopt, Edit, Command, CommandLine, Probe, ProbeEnds, OpenSession, Work, Signal
<1>3. CASE \/ \E how \in {"hide", "quit"} : Close(how)
           \/ \E pointer \in {"select", "contextMenu", "move"} : Click(pointer)
           \/ ExplorerGone \/ ExplorerBack
  BY <1>1, <1>3 DEF Close, Click, ExplorerGone, ExplorerBack
<1>4. CASE SignOut
  BY <1>4 DEF SignOut, NoProgram, Together, Owner
<1>5. CASE UNCHANGED vars
  BY <1>1, <1>5 DEF vars
<1> QED
  BY <1>2, <1>3, <1>4, <1>5, TogetherMain, TogetherTray DEF Next

-----------------------------------------------------------------------------
(***************************************************************************)
(* The fans are given back.                                                *)
(***************************************************************************)
LEMMA FansHeldMain ==
    ASSUME TypeOK, OneOwner, Together, FansHeld, NEW l \in Launches,
           Launch(l) \/ Main(l) \/ Confirm(l), "release" \notin Faulty
    PROVE  FansHeld'
<1> USE DEF giving, osVars, trayVars, shellVars, windowVars, outside, Supported, Going, Leaving
<1>0. DOMAIN pc = Launches
  BY DEF TypeOK
<1>1. CASE Launch(l)
  BY <1>0, <1>1 DEF Launch, Goes, FansHeld, Owner
<1>2. CASE Refuse(l) \/ RequestShow(l)
  BY <1>0, <1>2 DEF Refuse, RequestShow, Goes, FansHeld, Owner
<1>3. CASE Setup(l)
  <2>1. ~released /\ tray = "none"
    BY <1>3 DEF Setup, FansHeld, Together, OneOwner, Owner
  <2>2. \A k \in Launches : pc[k] \notin {"write", "giving", "exit", "box"}
    BY <2>1 DEF FansHeld
  <2>3. CASE Stopped(machine, FALSE) = <<>>
    <3>1. /\ UNCHANGED <<tray, released, force, machine>> /\ pc' = [pc EXCEPT ![l] = "sync"]
          /\ fans' = "manual" => Supported \/ UNCHANGED <<fans, cutShort>>
      BY <1>3, <2>3 DEF Setup, Goes
    <3> QED
      BY <1>0, <2>1, <2>2, <3>1 DEF FansHeld, Owner
  <2>4. CASE Stopped(machine, FALSE) # <<>>
    BY <1>0, <1>3, <2>1, <2>4 DEF Setup, Goes, FansHeld, Owner
  <2> QED
    BY <2>3, <2>4
<1>4. CASE StartTray(l)
  BY <1>0, <1>4 DEF StartTray, Goes, FansHeld, Together, OneOwner, Owner
<1>5. CASE Waited(l) \/ OpenWindow(l)
  BY <1>0, <1>5 DEF Waited, OpenWindow, Goes, FansHeld, Owner
<1>6. CASE Logic(l)
  BY <1>0, <1>6 DEF Logic, Goes, FansHeld, Owner
<1>7. CASE EndFrame(l)
  BY <1>0, <1>7 DEF EndFrame, FansHeld, Owner
<1>8. CASE Leave(l)
  BY <1>0, <1>8 DEF Leave, Goes, FansHeld, Owner
<1>9. CASE Release(l)
  <2>1. /\ UNCHANGED <<fans, cutShort, tray, force, machine>> /\ released'
        /\ pc' = [pc EXCEPT ![l] = pc'[l]]
        /\ pc'[l] \in IF released THEN {"exit", "box"} ELSE {"write", "giving"}
    BY <1>0, <1>9 DEF Release, After, Goes
  <2>2. \A k \in Launches : Owner(k) => k = l
    BY <1>9 DEF Release, OneOwner, Owner
  <2>3. CASE released
    BY <1>0, <1>9, <2>1, <2>2, <2>3 DEF Release, FansHeld, Owner
  <2>4. CASE ~released
    BY <1>0, <2>1, <2>2, <2>4 DEF FansHeld, Owner
  <2> QED
    BY <2>3, <2>4
<1>10. CASE Write(l)
  <2>1. fans' = "auto"
    BY <1>10 DEF Write, GiveBack, FansHeld, TypeOK
  <2>2. /\ UNCHANGED <<cutShort, released, tray, force, machine>>
        /\ pc' = [pc EXCEPT ![l] = pc'[l]] /\ pc'[l] \in {"exit", "box"} /\ released
    BY <1>0, <1>10 DEF Write, After, Goes, FansHeld
  <2> QED
    BY <1>0, <2>1, <2>2 DEF FansHeld, Owner
<1>11. CASE Exit(l) \/ (pc[l] = "box" /\ Confirm(l))
  <2>1. Gone(l) /\ UNCHANGED fans /\ released /\ pc[l] \in {"exit", "box"}
    BY <1>11 DEF Exit, Confirm, FansHeld
  <2>2. fans = "manual" => tray = "write"
    BY <2>1 DEF FansHeld, OneOwner, Owner
  <2>3. /\ UNCHANGED <<fans, machine>> /\ ~released' /\ tray' = "none"
        /\ fans = "manual" => cutShort'
        /\ pc' = [pc EXCEPT ![l] = "none"]
    BY <2>1, <2>2 DEF Gone, Giving, NoProgram, Goes
  <2>4. \A k \in Launches : ~Owner(k)'
    BY <1>0, <2>1, <2>3 DEF OneOwner, Owner
  <2> QED
    BY <2>1, <2>3, <2>4 DEF FansHeld, Owner
<1>12. CASE pc[l] = "sorry" /\ Confirm(l)
  BY <1>0, <1>12 DEF Confirm, Goes, FansHeld, Owner
<1> QED
  BY <1>1, <1>2, <1>3, <1>4, <1>5, <1>6, <1>7, <1>8, <1>9, <1>10, <1>11, <1>12
     DEF Main, Confirm

LEMMA FansHeldTray ==
    ASSUME TypeOK, OneOwner, Together, FansHeld, TrayThread, "release" \notin Faulty
    PROVE  FansHeld'
<1> USE DEF giving, osVars, trayVars, shellVars, windowVars, outside, Supported, Going, Leaving
<1>0. DOMAIN pc = Launches
  BY DEF TypeOK
<1>1. CASE CreateTray \/ AddFirstIcon \/ SetTray \/ TakeTaskbar
  BY <1>1 DEF CreateTray, AddFirstIcon, SetTray, TakeTaskbar, FansHeld, Owner
<1>2. CASE TakeShow \/ SendShow \/ CommandShow \/ ShowNative
  BY <1>2 DEF TakeShow, SendShow, CommandShow, ShowNative, FansHeld, Owner
<1>3. CASE TakeExit \/ DeleteIcon
  BY <1>3 DEF TakeExit, DeleteIcon, FansHeld, Owner
<1>4. CASE TrayRelease
  <2>1. /\ UNCHANGED <<pc, fans, cutShort, force, machine>> /\ released' /\ force
        /\ tray = "release" /\ tray' = IF released THEN "exit" ELSE "write"
    BY <1>4 DEF TrayRelease, Together
  <2>2. \E l \in Launches : Owner(l) /\ pc[l] # "setup"
    BY <2>1 DEF Together
  <2> QED
    BY <2>1, <2>2 DEF FansHeld, Owner
<1>5. CASE TrayWrite
  <2>1. fans' = "auto"
    BY <1>5 DEF TrayWrite, GiveBack, FansHeld, TypeOK
  <2>2. /\ UNCHANGED <<pc, cutShort, released, force, machine>> /\ released
        /\ tray' = "exit"
    BY <1>5 DEF TrayWrite, FansHeld
  <2> QED
    BY <2>1, <2>2 DEF FansHeld, Owner
<1>6. CASE TrayExit
  <2>1. PICK l \in Launches : Owner(l) /\ Gone(l)
    BY <1>6 DEF TrayExit
  <2>2. fans = "manual" => Giving(l)
    BY <1>6, <2>1 DEF TrayExit, Giving, FansHeld, OneOwner, Owner
  <2>3. /\ UNCHANGED <<fans, machine>> /\ ~released' /\ tray' = "none"
        /\ fans = "manual" => cutShort'
        /\ pc' = [pc EXCEPT ![l] = "none"]
    BY <1>6, <2>1, <2>2 DEF TrayExit, Gone, NoProgram, Goes
  <2>4. \A k \in Launches : ~Owner(k)'
    BY <1>0, <2>1, <2>3 DEF OneOwner, Owner
  <2> QED
    BY <2>3, <2>4 DEF FansHeld, Owner
<1> QED
  BY <1>1, <1>2, <1>3, <1>4, <1>5, <1>6 DEF TrayThread

\* Nobody has set `released` while the program neither leaves nor has been told to.
LEMMA NotReleased ==
    ASSUME FansHeld, ~Dying
    PROVE  ~released
BY DEF FansHeld, Dying, Going, Leaving

\* What is assumed: Windows ends the session only when the handler finds everything
\* in place, and waits for it; writes that give a fan back do not fail; edits and
\* commands do not overlap an exit.
LEMMA FansHeldStep ==
    ASSUME TypeOK, OneOwner, Together, FansHeld, CommandsAccompanied, [Next]_vars,
           {"signout", "edit"} \cap Races = {},
           {"tray", "release", "handler"} \cap Faulty = {}
    PROVE  FansHeld'
<1> USE DEF giving, osVars, trayVars, shellVars, windowVars, outside, Supported
<1>1. ASSUME UNCHANGED <<pc, fans, released, cutShort, tray, force, machine>>
      PROVE  FansHeld'
  BY <1>1 DEF FansHeld, Owner, Going, Leaving
<1>2. ASSUME NEW to \in {"auto", "manual"}, ~released, \E l \in Launches : Owner(l),
             \A l \in Launches : Owner(l) => pc[l] # "setup",
             SetFanMode(to), UNCHANGED <<pc, released, cutShort, tray, force, machine>>
      PROVE  FansHeld'
  BY <1>2 DEF SetFanMode, FansHeld, Owner, Going, Leaving
<1>3. ASSUME NEW l \in Launches, Adopt(l)
      PROVE  FansHeld'
  <2>1. ~Quiet /\ Owner(l) /\ pc[l] # "setup"
    BY <1>3 DEF Adopt, Polling, Listening, Quiet
  <2>2. ~released
    BY <2>1 DEF CommandsAccompanied, FansHeld
  <2> QED
    BY <1>2, <1>3, <2>1, <2>2 DEF Adopt, OneOwner
<1>4. ASSUME NEW to \in {"auto", "manual"}, Edit(to)
      PROVE  FansHeld'
  <2>1. ~released
    BY <1>4, NotReleased DEF Edit
  <2>2. CASE WindowUp
    <3>1. PICK l \in Launches : pc[l] = "window"
      BY <2>2 DEF WindowUp
    <3>2. Owner(l) /\ \A k \in Launches : Owner(k) => pc[k] # "setup"
      BY <3>1 DEF OneOwner, Owner
    <3> QED
      BY <1>2, <1>4, <2>1, <3>2 DEF Edit
  <2>3. CASE tray = "loop" /\ to = fans
    BY <1>1, <1>4, <2>3 DEF Edit, SetFanMode
  <2> QED
    BY <1>4, <2>2, <2>3 DEF Edit
<1>5. CASE \/ \E command \in Commands : Command(command)
           \/ CommandLine
  BY <1>1, <1>5 DEF Command, CommandLine, Probe, ProbeEnds, OpenSession, Work, Signal
<1>6. CASE \/ \E how \in {"hide", "quit"} : Close(how)
           \/ \E pointer \in {"select", "contextMenu", "move"} : Click(pointer)
           \/ ExplorerGone \/ ExplorerBack
  BY <1>1, <1>6 DEF Close, Click, ExplorerGone, ExplorerBack
<1>7. CASE SignOut
  <2>1. handler /\ TraySet /\ ~force /\ \A l \in Launches : ~Going(l)
    BY <1>7 DEF SignOut, Settled, WindowUp, TraySet, Together, Going, Leaving
  <2>2. ~released
    BY <2>1 DEF FansHeld
  <2>3. fans' = "auto"
    BY <1>7, <2>1, <2>2 DEF SignOut, GiveBack, FansHeld, TypeOK
  <2>4. /\ ~released' /\ tray' = "none" /\ pc' = [l \in Launches |-> "none"]
    BY <1>7 DEF SignOut, NoProgram
  <2> QED
    BY <2>3, <2>4 DEF FansHeld
<1>8. CASE UNCHANGED vars
  BY <1>1, <1>8 DEF vars
<1> QED
  BY <1>3, <1>4, <1>5, <1>6, <1>7, <1>8, FansHeldMain, FansHeldTray DEF Next
-----------------------------------------------------------------------------
(***************************************************************************)
(* What a command leaves to the window.                                    *)
(***************************************************************************)
\* While a command or what it has left is there, the main thread of a process
\* that has passed the mutex is in its loop.
LEMMA OwnersInTheirLoop ==
    ASSUME TypeOK, CommandsAccompanied, ~Quiet, NEW l \in Launches, Owner(l)
    PROVE  pc[l] = "window"
<1>1. ~Going(l) /\ ~Starting(l)
  BY DEF CommandsAccompanied
<1> QED
  BY <1>1 DEF Going, Leaving, Starting, Owner, TypeOK

LEMMA AccompaniedMain ==
    ASSUME TypeOK, OneOwner, CommandsAccompanied, NEW l \in Launches,
           Launch(l) \/ Main(l) \/ Confirm(l),
           "command" \notin Races
    PROVE  CommandsAccompanied'
<1> USE DEF giving, osVars, trayVars, shellVars, windowVars, outside, Going, Leaving, Starting,
            Quiet, WindowUp
<1>0. DOMAIN pc = Launches /\ Cli \notin Launches
  BY LifecycleAssumption DEF TypeOK
<1>1. CASE Launch(l)
  <2>1. ~Quiet => \E k \in Launches : Owner(k)
    BY <1>1 DEF Launch, CommandsAccompanied, Owner
  <2>2. ~Quiet => handles # {} /\ WindowUp
    BY <2>1, <1>0, OwnersInTheirLoop DEF OneOwner
  <2> QED
    BY <1>0, <1>1, <2>2 DEF Launch, Goes, CommandsAccompanied
<1>2. CASE Refuse(l)
  BY <1>0, <1>2 DEF Refuse, Goes, CommandsAccompanied
<1>3. CASE RequestShow(l)
  BY <1>0, <1>3 DEF RequestShow, Goes, CommandsAccompanied
<1>4. CASE Setup(l)
  BY <1>0, <1>4 DEF Setup, Goes, CommandsAccompanied
<1>5. CASE StartTray(l) \/ Waited(l)
  BY <1>0, <1>5 DEF StartTray, Waited, Goes, CommandsAccompanied
<1>6. CASE OpenWindow(l)
  BY <1>0, <1>6 DEF OpenWindow, Goes, CommandsAccompanied
<1>7. CASE Logic(l)
  BY <1>0, <1>7 DEF Logic, Goes, CommandsAccompanied
<1>8. CASE EndFrame(l)
  BY <1>8 DEF EndFrame, CommandsAccompanied
<1>9. CASE Leave(l) \/ Release(l) \/ Write(l)
  BY <1>0, <1>9 DEF Leave, Release, Write, After, Goes, CommandsAccompanied
<1>10. CASE Exit(l) \/ Confirm(l)
  BY <1>0, <1>10 DEF Exit, Confirm, Gone, NoProgram, Goes, CommandsAccompanied
<1> QED
  BY <1>1, <1>2, <1>3, <1>4, <1>5, <1>6, <1>7, <1>8, <1>9, <1>10 DEF Main

LEMMA AccompaniedTray ==
    ASSUME TypeOK, OneOwner, Together, CommandsAccompanied, TrayThread
    PROVE  CommandsAccompanied'
<1> USE DEF giving, osVars, trayVars, shellVars, windowVars, outside, Going, Leaving, Starting,
            Quiet, WindowUp
<1>1. CASE CreateTray \/ AddFirstIcon \/ SetTray \/ TakeTaskbar
  BY <1>1 DEF CreateTray, AddFirstIcon, SetTray, TakeTaskbar, CommandsAccompanied
<1>2. CASE TakeShow \/ SendShow \/ CommandShow \/ ShowNative
  BY <1>2 DEF TakeShow, SendShow, CommandShow, ShowNative, CommandsAccompanied
<1>3. CASE TakeExit
  BY <1>3 DEF TakeExit, CommandsAccompanied
<1>4. CASE DeleteIcon \/ TrayRelease \/ TrayWrite
  BY <1>4 DEF DeleteIcon, TrayRelease, TrayWrite, CommandsAccompanied
<1>5. CASE TrayExit
  <2>1. Quiet
    BY <1>5, Zenon DEF TrayExit, Together, CommandsAccompanied
  <2> QED
    BY <1>5, <2>1 DEF TrayExit, Gone, NoProgram, Goes, CommandsAccompanied
<1> QED
  BY <1>1, <1>2, <1>3, <1>4, <1>5 DEF TrayThread

LEMMA AccompaniedCli ==
    ASSUME TypeOK, OneOwner, CommandsAccompanied, "command" \notin Races,
           "port" \notin Faulty,
           \/ \E command \in Commands : Command(command)
           \/ CommandLine \/ \E l \in Launches : Adopt(l)
    PROVE  CommandsAccompanied'
<1> USE DEF giving, osVars, trayVars, shellVars, windowVars, outside, Going, Leaving, Starting,
            Quiet, WindowUp
<1>0. /\ Cli \notin Launches
      /\ cli \in [at : {"no", "probe", "close", "open", "work", "signal"},
                  command : Commands \cup {"none"}, code : 0 .. 6]
  BY LifecycleAssumption DEF TypeOK
<1>1. ASSUME NEW command \in Commands, Command(command)
      PROVE  CommandsAccompanied'
  <2>1. ~Dying /\ \A l \in Launches : ~Starting(l)
    BY <1>1 DEF Command
  <2>2. \A l \in Launches : ~Going(l)
    BY <2>1 DEF Dying
  <2>3. ASSUME NEW l \in Launches, Owner(l) PROVE pc[l] = "window"
    <3>1. ~Going(l) /\ ~Starting(l)
      BY <2>1, <2>2, Zenon
    <3> QED
      BY <2>3, <3>1 DEF Owner, TypeOK
  <2>4. handles \cap Launches # {} => WindowUp
    BY <2>1, <2>3 DEF Dying
  <2>5. closing # "quit" /\ ~force /\ "exit" \notin msgs
    BY <2>1 DEF Dying
  <2>6. /\ cli'.at \in {"no", "probe", "open"}
        /\ cli'.at = "probe" => cli'.command = "curve"
        /\ cli'.at = "open" => cli'.command # "curve"
    BY <1>1 DEF Command, Commands
  <2>7. UNCHANGED <<pc, handles, closing, force, msgs, loose>> /\ cli.at = "no"
    BY <1>1 DEF Command
  <2> QED
    BY <2>1, <2>2, <2>4, <2>5, <2>6, <2>7 DEF CommandsAccompanied
<1>2. CASE Probe
  <2>1. handles # {} => WindowUp
    BY <1>2 DEF Probe, CommandsAccompanied, TypeOK
  <2> QED
    BY <1>0, <1>2, <2>1 DEF Probe, Ends, Proceeds, CommandsAccompanied
<1>3. CASE ProbeEnds
  BY <1>0, <1>3 DEF ProbeEnds, Proceeds, CommandsAccompanied
<1>4. CASE OpenSession
  BY <1>0, <1>4 DEF OpenSession, Ends, Proceeds, CommandsAccompanied
<1>5. CASE Work
  BY <1>0, <1>5 DEF Work, ShowStatus, SetAtOnce, SetCurve, RefuseToWrite, Ends, Proceeds,
                    CommandsAccompanied
<1>6. CASE Signal
  <2>1. WindowUp
    BY <1>6 DEF Signal, CommandsAccompanied
  <2>2. \E l \in Launches : Listening(l)
    BY <2>1 DEF Listening, Owner
  <2>3. loose' # "written"
    BY <1>6, <2>2 DEF Signal
  <2> QED
    BY <1>0, <1>6, <2>1, <2>3 DEF Signal, Ends, CommandsAccompanied
<1>7. ASSUME NEW l \in Launches, Adopt(l)
      PROVE  CommandsAccompanied'
  BY <1>7 DEF Adopt, CommandsAccompanied
<1> QED
  BY <1>1, <1>2, <1>3, <1>4, <1>5, <1>6, <1>7 DEF CommandLine

LEMMA AccompaniedStep ==
    ASSUME TypeOK, OneOwner, Together, CommandsAccompanied, [Next]_vars,
           "command" \notin Races, "port" \notin Faulty
    PROVE  CommandsAccompanied'
<1> USE DEF giving, osVars, trayVars, shellVars, windowVars, outside, Going, Leaving, Starting,
            Quiet, WindowUp
<1>1. ASSUME NEW how \in {"hide", "quit"}, Close(how)
      PROVE  CommandsAccompanied'
  BY <1>1 DEF Close, CommandsAccompanied
<1>2. ASSUME NEW pointer \in {"select", "contextMenu", "move"}, Click(pointer)
      PROVE  CommandsAccompanied'
  BY <1>2 DEF Click, PointerAction, CommandsAccompanied
<1>3. CASE SignOut
  BY <1>3 DEF SignOut, NoProgram, CommandsAccompanied, TypeOK
<1>4. CASE ExplorerGone \/ ExplorerBack
  BY <1>4 DEF ExplorerGone, ExplorerBack, CommandsAccompanied
<1>5. ASSUME NEW to \in {"auto", "manual"}, Edit(to)
      PROVE  CommandsAccompanied'
  BY <1>5 DEF Edit, CommandsAccompanied
<1>6. CASE UNCHANGED vars
  BY <1>6 DEF vars, CommandsAccompanied
<1> QED
  BY <1>1, <1>2, <1>3, <1>4, <1>5, <1>6, AccompaniedMain, AccompaniedTray, AccompaniedCli DEF Next

LifecycleInv == TypeOK /\ OneOwner /\ Together /\ FansHeld /\ CommandsAccompanied

LEMMA LifecycleInvInit == Init => LifecycleInv
<1> SUFFICES ASSUME Init PROVE OneOwner /\ Together /\ FansHeld /\ CommandsAccompanied
  BY TypeInit DEF LifecycleInv
<1> QED
  BY OneOwnerInit
     DEF Init, Together, FansHeld, CommandsAccompanied, Owner, Going, Leaving, Starting, Quiet,
         WindowUp

\* What the theorem assumes of the machine, of Windows and of the user.
Undisturbed ==
    /\ {"signout", "command", "edit"} \cap Races = {}
    /\ {"tray", "port", "release", "handler"} \cap Faulty = {}

LEMMA LifecycleInvStep ==
    ASSUME Undisturbed
    PROVE  LifecycleInv /\ [Next]_vars => LifecycleInv'
<1> SUFFICES ASSUME LifecycleInv, [Next]_vars PROVE LifecycleInv'
  OBVIOUS
<1>1. TypeOK' /\ OneOwner' /\ Together'
  BY TypeStep, OneOwnerStep, TogetherStep DEF LifecycleInv
<1>2. FansHeld'
  BY FansHeldStep DEF LifecycleInv, Undisturbed
<1>3. CommandsAccompanied'
  BY AccompaniedStep DEF LifecycleInv, Undisturbed
<1> QED
  BY <1>1, <1>2, <1>3 DEF LifecycleInv

\* However the program is ended - by its window, by the menu of the icon, after a
\* window that could not be opened, by signing out - with whichever thread calls
\* shutdown first, and whatever launches, edits and commands there were before:
\* afterwards the fans are the firmware's and none is left in manual mode by a
\* command, or else one caller of shutdown has ended the process while the other
\* was writing, which the code does not exclude.  Assumed are: no write that
\* gives a fan back fails; Windows calls console_ctrl_handler, waits for it, and
\* not before the program is up; the tray thread has its window; no access of a
\* command fails half-way; no command overlaps a start or an exit, no edit an
\* exit (session.rs: shutdown; tray.rs: quit_now; cli.rs: apply_fan_command).
THEOREM FansGivenBack == Undisturbed => (Spec => []NoFanLeftBehind)
<1> SUFFICES ASSUME Undisturbed
             PROVE  Spec => []NoFanLeftBehind
  OBVIOUS
<1>1. LifecycleInv /\ [Next]_vars => LifecycleInv'
  BY LifecycleInvStep
<1>2. LifecycleInv => NoFanLeftBehind
  BY DEF LifecycleInv, FansHeld, CommandsAccompanied, NoFanLeftBehind, Owner, WindowUp, TypeOK
<1> QED
  BY <1>1, <1>2, LifecycleInvInit, PTL DEF Spec
-----------------------------------------------------------------------------
(***************************************************************************)
(* The icon.                                                               *)
(***************************************************************************)
LEMMA IconKeptMain ==
    ASSUME TypeOK, OneOwner, Together, IconKept, NEW l \in Launches,
           Launch(l) \/ Main(l) \/ Confirm(l), "icon" \notin Races
    PROVE  IconKept'
<1> USE DEF giving, osVars, trayVars, shellVars, windowVars, outside, Quitting, Going, Leaving
<1>0. DOMAIN pc = Launches
  BY DEF TypeOK
<1>1. CASE Launch(l)
  BY <1>0, <1>1 DEF Launch, Goes, IconKept, Together, Owner
<1>2. CASE Refuse(l)
  BY <1>0, <1>2 DEF Refuse, Goes, IconKept
<1>3. CASE RequestShow(l)
  BY <1>0, <1>3 DEF RequestShow, Goes, IconKept
<1>4. CASE Setup(l)
  BY <1>0, <1>4 DEF Setup, Goes, IconKept
<1>5. CASE StartTray(l)
  BY <1>0, <1>5 DEF StartTray, Goes, IconKept, Together
<1>6. CASE Waited(l)
  BY <1>0, <1>6 DEF Waited, Goes, IconKept
<1>7. CASE OpenWindow(l)
  BY <1>0, <1>7 DEF OpenWindow, Goes, IconKept
<1>8. CASE Logic(l)
  <2>1. CASE force \/ closing = "quit"
    BY <1>0, <1>8, <2>1 DEF Logic, Goes, IconKept
  <2>2. CASE ~(force \/ closing = "quit")
    BY <1>0, <1>8, <2>2 DEF Logic, IconKept
  <2> QED
    BY <2>1, <2>2
<1>9. CASE EndFrame(l)
  BY <1>9 DEF EndFrame, IconKept
<1>10. CASE Leave(l)
  BY <1>0, <1>10 DEF Leave, Goes, IconKept
<1>11. CASE Release(l) \/ Write(l)
  BY <1>0, <1>11 DEF Release, Write, After, Goes, IconKept
<1>12. CASE Exit(l) \/ (pc[l] = "box" /\ Confirm(l))
  <2>1. ~icon /\ Gone(l) /\ UNCHANGED icon
    BY <1>12 DEF Exit, Confirm, IconKept
  <2>2. \A k \in Launches : ~Going(k)'
    BY <1>0, <1>12, <2>1 DEF Gone, Goes, OneOwner, Owner, Exit
  <2> QED
    BY <2>1, <2>2 DEF Gone, NoProgram, IconKept
<1>13. CASE pc[l] = "sorry" /\ Confirm(l)
  BY <1>0, <1>13 DEF Confirm, Goes, IconKept
<1> QED
  BY <1>1, <1>2, <1>3, <1>4, <1>5, <1>6, <1>7, <1>8, <1>9, <1>10, <1>11, <1>12, <1>13
     DEF Main, Confirm

LEMMA IconKeptTray ==
    ASSUME TypeOK, OneOwner, Together, IconKept, TrayThread
    PROVE  IconKept'
<1> USE DEF giving, osVars, trayVars, shellVars, windowVars, outside, Quitting, Going, Leaving
<1>0. DOMAIN pc = Launches
  BY DEF TypeOK
<1>1. CASE CreateTray
  BY <1>1 DEF CreateTray, IconKept
<1>2. CASE AddFirstIcon
  BY <1>2 DEF AddFirstIcon, IconKept
<1>3. CASE SetTray \/ TakeTaskbar
  BY <1>3 DEF SetTray, TakeTaskbar, IconKept
<1>4. CASE TakeShow \/ SendShow \/ CommandShow \/ ShowNative
  BY <1>4 DEF TakeShow, SendShow, CommandShow, ShowNative, IconKept
<1>5. CASE TakeExit
  BY <1>5 DEF TakeExit, IconKept
<1>6. CASE DeleteIcon \/ TrayRelease \/ TrayWrite
  BY <1>6 DEF DeleteIcon, TrayRelease, TrayWrite, IconKept, Together
<1>7. CASE TrayExit
  <2>1. PICK l \in Launches : Owner(l) /\ Gone(l)
    BY <1>7 DEF TrayExit
  <2>2. ~icon /\ UNCHANGED icon
    BY <1>7 DEF TrayExit, IconKept
  <2>3. \A k \in Launches : ~Going(k)'
    BY <1>0, <2>1 DEF Gone, Goes, OneOwner, Owner
  <2> QED
    BY <2>1, <2>2, <2>3 DEF Gone, NoProgram, IconKept
<1> QED
  BY <1>1, <1>2, <1>3, <1>4, <1>5, <1>6, <1>7 DEF TrayThread

LEMMA IconKeptStep ==
    ASSUME TypeOK, OneOwner, Together, IconKept, [Next]_vars, "icon" \notin Races
    PROVE  IconKept'
<1> USE DEF giving, osVars, trayVars, shellVars, windowVars, outside
<1>1. ASSUME UNCHANGED <<pc, tray, msgs, icon, taskbar, closing, force>>
      PROVE  IconKept'
  BY <1>1 DEF IconKept, Quitting, Going, Leaving
<1>2. CASE \/ \E l \in Launches : Adopt(l)
           \/ \E command \in Commands : Command(command)
           \/ CommandLine
           \/ \E to \in {"auto", "manual"} : Edit(to)
  BY <1>1, <1>2 DEF Adopt, Edit, Command, CommandLine, Probe, ProbeEnds, OpenSession, Work, Signal
<1>3. ASSUME NEW how \in {"hide", "quit"}, Close(how)
      PROVE  IconKept'
  BY <1>3 DEF Close, Settled, IconKept, Quitting, Going, Leaving
<1>4. ASSUME NEW pointer \in {"select", "contextMenu", "move"}, Click(pointer)
      PROVE  IconKept'
  BY <1>4 DEF Click, PointerAction, Settled, IconKept, Quitting, Going, Leaving
<1>5. CASE SignOut
  BY <1>5 DEF SignOut, NoProgram, IconKept, Quitting, Going, Leaving
<1>6. CASE ExplorerGone
  BY <1>6 DEF ExplorerGone, IconKept, Quitting, Going, Leaving
<1>7. CASE ExplorerBack
  BY <1>7 DEF ExplorerBack, MayChangeIcon, Dying, TrayWindow, IconKept, Quitting, Going,
              Leaving
<1>8. CASE UNCHANGED vars
  BY <1>1, <1>8 DEF vars
<1> QED
  BY <1>2, <1>3, <1>4, <1>5, <1>6, <1>7, <1>8, IconKeptMain, IconKeptTray DEF Next

\* Unless it is being added while the program leaves, the icon is there as long
\* as the program and the taskbar are, whichever was up first and however often
\* Explorer restarts, and no exit leaves it behind.
THEOREM IconComesAndGoes ==
    "icon" \notin Races /\ "tray" \notin Faulty => (Spec => []IconWithProgram)
<1> SUFFICES ASSUME "icon" \notin Races, "tray" \notin Faulty
             PROVE  Spec => []IconWithProgram
  OBVIOUS
<1> DEFINE Inv == TypeOK /\ OneOwner /\ Together /\ IconKept
<1>1. Init => Inv
  <2>1. Init => Together /\ IconKept
    BY DEF Init, Together, IconKept, Owner, Quitting, Going, Leaving
  <2> QED
    BY <2>1, TypeInit, OneOwnerInit
<1>2. Inv /\ [Next]_vars => Inv'
  BY TypeStep, OneOwnerStep, TogetherStep, IconKeptStep
<1>3. Inv => IconWithProgram
  <2> SUFFICES ASSUME Inv PROVE IconWithProgram
    OBVIOUS
  <2>1. ASSUME Settled, WindowUp, taskbar PROVE icon
    <3>1. ~Quitting
      BY <2>1 DEF Settled, Quitting, Going, Leaving
    <3> QED
      BY <2>1, <3>1 DEF Settled, IconKept, Together
  <2>2. ASSUME \A l \in Launches : ~Owner(l) PROVE ~icon
    BY <2>2 DEF Together, IconKept
  <2> QED
    BY <2>1, <2>2 DEF IconWithProgram
<1> QED
  BY <1>1, <1>2, <1>3, PTL DEF Spec

-----------------------------------------------------------------------------
(***************************************************************************)
(* The window and its contents.                                            *)
(***************************************************************************)
LEMMA ShowAndHideMain ==
    ASSUME TypeOK, OneOwner, ShowAndHide, NEW l \in Launches,
           Launch(l) \/ Main(l) \/ Confirm(l), "show" \notin Races
    PROVE  ShowAndHide'
<1> USE DEF giving, osVars, trayVars, shellVars, windowVars, outside, WindowUp, Owner
<1>0. DOMAIN pc = Launches
  BY DEF TypeOK
<1>1. CASE Launch(l)
  BY <1>0, <1>1 DEF Launch, Goes, ShowAndHide, OneOwner
<1>2. CASE Refuse(l)
  BY <1>0, <1>2 DEF Refuse, Goes, ShowAndHide
<1>3. CASE RequestShow(l)
  BY <1>0, <1>3 DEF RequestShow, Goes, ShowAndHide
<1>4. CASE Setup(l)
  BY <1>0, <1>4 DEF Setup, Goes, ShowAndHide, OneOwner
<1>5. CASE StartTray(l)
  BY <1>0, <1>5 DEF StartTray, Goes, ShowAndHide
<1>6. CASE Waited(l)
  BY <1>0, <1>6 DEF Waited, Goes, ShowAndHide
<1>7. CASE OpenWindow(l)
  BY <1>0, <1>7 DEF OpenWindow, Goes, ShowAndHide
<1>8. CASE Logic(l)
  <2>1. CASE force \/ closing = "quit"
    BY <1>0, <1>8, <2>1 DEF Logic, Goes, ShowAndHide
  <2>2. CASE ~(force \/ closing = "quit") /\ closing = "hide"
    BY <1>0, <1>8, <2>2 DEF Logic, ShowAndHide, OneOwner
  <2>3. CASE ~(force \/ closing = "quit") /\ closing # "hide"
    <3>1. /\ UNCHANGED <<pc, tray, msgs, visible>>
          /\ ~frame /\ frame' /\ ~showEvent' /\ closing' = "no"
          /\ cmd' = IF showEvent THEN "show" ELSE cmd
      BY <1>8, <2>3 DEF Logic
    <3>2. hidden' <=> hidden /\ ~showEvent
      BY <1>8, <2>3, Zenon DEF Logic
    <3>3. CASE showEvent
      BY <3>1, <3>2, <3>3 DEF ShowAndHide
    <3>4. CASE ~showEvent
      BY <3>1, <3>2, <3>4 DEF ShowAndHide
    <3> QED
      BY <3>3, <3>4
  <2> QED
    BY <2>1, <2>2, <2>3
<1>9. CASE EndFrame(l)
  <2>1. UNCHANGED <<pc, tray, msgs, hidden, showEvent, closing>> /\ cmd' = "none"
    BY <1>9 DEF EndFrame
  <2>2. visible' <=> IF cmd = "none" THEN visible ELSE cmd = "show"
    BY <1>9, Zenon DEF EndFrame
  <2> QED
    BY <2>1, <2>2 DEF ShowAndHide, TypeOK
<1>10. CASE Leave(l)
  BY <1>0, <1>10 DEF Leave, Goes, ShowAndHide
<1>11. CASE Release(l) \/ Write(l)
  BY <1>0, <1>11 DEF Release, Write, After, Goes, ShowAndHide
<1>12. CASE Exit(l) \/ (pc[l] = "box" /\ Confirm(l))
  <2>1. \A k \in Launches : ~Owner(k)'
    BY <1>0, <1>12 DEF Gone, Goes, OneOwner, Exit, Confirm
  <2> QED
    BY <1>12, <2>1 DEF Exit, Confirm, Gone, NoProgram, ShowAndHide
<1>13. CASE pc[l] = "sorry" /\ Confirm(l)
  BY <1>0, <1>13 DEF Confirm, Goes, ShowAndHide
<1> QED
  BY <1>1, <1>2, <1>3, <1>4, <1>5, <1>6, <1>7, <1>8, <1>9, <1>10, <1>11, <1>12, <1>13
     DEF Main, Confirm

LEMMA ShowAndHideTray ==
    ASSUME TypeOK, OneOwner, ShowAndHide, TrayThread
    PROVE  ShowAndHide'
<1> USE DEF giving, osVars, trayVars, shellVars, windowVars, outside, WindowUp, Owner
<1>0. DOMAIN pc = Launches
  BY DEF TypeOK
<1>1. CASE CreateTray \/ AddFirstIcon \/ SetTray \/ TakeTaskbar
  BY <1>1 DEF CreateTray, AddFirstIcon, SetTray, TakeTaskbar, ShowAndHide
<1>2. CASE TakeShow
  BY <1>2 DEF TakeShow, ShowAndHide
<1>3. CASE SendShow
  BY <1>3 DEF SendShow, ShowAndHide
<1>4. CASE CommandShow
  BY <1>4 DEF CommandShow, ShowAndHide
<1>5. CASE ShowNative
  BY <1>5 DEF ShowNative, ShowAndHide
<1>6. CASE TakeExit \/ DeleteIcon \/ TrayRelease \/ TrayWrite
  BY <1>6 DEF TakeExit, DeleteIcon, TrayRelease, TrayWrite, ShowAndHide
<1>7. CASE TrayExit
  <2>1. PICK l \in Launches : Owner(l) /\ Gone(l)
    BY <1>7 DEF TrayExit
  <2>2. \A k \in Launches : ~Owner(k)'
    BY <1>0, <2>1 DEF Gone, Goes, OneOwner
  <2> QED
    BY <2>1, <2>2 DEF Gone, NoProgram, ShowAndHide
<1> QED
  BY <1>1, <1>2, <1>3, <1>4, <1>5, <1>6, <1>7 DEF TrayThread

LEMMA ShowAndHideStep ==
    ASSUME TypeOK, OneOwner, ShowAndHide, [Next]_vars, "show" \notin Races
    PROVE  ShowAndHide'
<1> USE DEF giving, osVars, trayVars, shellVars, windowVars, outside, WindowUp, Owner
<1>1. ASSUME UNCHANGED <<pc, tray, msgs, windowVars>>
      PROVE  ShowAndHide'
  BY <1>1 DEF ShowAndHide
<1>2. CASE \/ \E l \in Launches : Adopt(l)
           \/ \E command \in Commands : Command(command)
           \/ CommandLine
           \/ \E to \in {"auto", "manual"} : Edit(to)
  BY <1>1, <1>2 DEF Adopt, Edit, Command, CommandLine, Probe, ProbeEnds, OpenSession, Work, Signal
<1>3. ASSUME NEW how \in {"hide", "quit"}, Close(how)
      PROVE  ShowAndHide'
  BY <1>3 DEF Close, Settled, ShowAndHide
<1>4. ASSUME NEW pointer \in {"select", "contextMenu", "move"}, Click(pointer)
      PROVE  ShowAndHide'
  BY <1>4 DEF Click, PointerAction, Settled, ShowAndHide
<1>5. CASE SignOut
  BY <1>5 DEF SignOut, NoProgram, ShowAndHide
<1>6. CASE ExplorerGone \/ ExplorerBack
  BY <1>6 DEF ExplorerGone, ExplorerBack, ShowAndHide
<1>7. CASE UNCHANGED vars
  BY <1>1, <1>7 DEF vars
<1> QED
  BY <1>2, <1>3, <1>4, <1>5, <1>6, <1>7, ShowAndHideMain, ShowAndHideTray DEF Next

\* Unless somebody asks for the window while it is hiding, it ends up with its
\* contents on the screen or with neither, in whatever order the tray's event,
\* its command, its call for the native window and the frames come, and
\* whatever exits, launches and Explorers there are beside them.
THEOREM NeverBlankNorGone == "show" \notin Races => (Spec => []DrawnIfVisible)
<1> SUFFICES ASSUME "show" \notin Races
             PROVE  Spec => []DrawnIfVisible
  OBVIOUS
<1> DEFINE Inv == TypeOK /\ OneOwner /\ ShowAndHide
<1>1. Init => Inv
  <2>1. Init => ShowAndHide
    BY DEF Init, ShowAndHide, WindowUp
  <2> QED
    BY <2>1, TypeInit, OneOwnerInit
<1>2. Inv /\ [Next]_vars => Inv'
  BY TypeStep, OneOwnerStep, ShowAndHideStep
<1>3. Inv => DrawnIfVisible
  <2> SUFFICES ASSUME Inv, Settled, WindowUp PROVE visible = ~hidden
    BY DEF DrawnIfVisible
  <2>1. ~(visible /\ hidden) /\ (visible \/ hidden)
    BY DEF Settled, ShowAndHide
  <2>2. visible \in BOOLEAN /\ hidden \in BOOLEAN
    BY DEF TypeOK
  <2> QED
    BY <2>1, <2>2, Zenon
<1> QED
  BY <1>1, <1>2, <1>3, PTL DEF Spec
=============================================================================
