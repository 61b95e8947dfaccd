----------------------------- MODULE Lifecycle -----------------------------
(***************************************************************************)
(* The program as processes.  The window: launches and the instance mutex, *)
(* the main thread from AppSession::start to exit, the thread of the tray  *)
(* icon with its message window, hiding and showing, quitting, signing     *)
(* out, an Explorer that is not there yet or restarts.  Beside it the      *)
(* commands of evox2ctl, one at a time, each a session of its own.         *)
(*                                                                         *)
(* Windows is external: a named mutex exists as long as some process has a *)
(* handle to it; a posted message waits until the thread of its window     *)
(* takes it; a window of another thread cannot be destroyed; Explorer      *)
(* broadcasts TaskbarCreated when its taskbar is up.                       *)
(*                                                                         *)
(* What is written to the fans is FanControl's subject; here those with a  *)
(* saved curve are taken over when the saved state is restored and given   *)
(* back at once, and a command takes over one more.                        *)
(***************************************************************************)
EXTENDS Gates, FiniteSets

CONSTANTS Launches, \* processes started by the user or by the logon task
          Machines, \* sets of conditions a machine may be in
          Races,    \* what may overlap, see below
          Faulty    \* what may fail

Cli == "cli"

ASSUME LifecycleAssumption ==
    /\ Cli \notin Launches
    \* quit:     a launch while an instance is on its way out
    \* show:     hiding the window and showing it at once
    \* signout:  signing out before the program is up
    \* icon:     leaving while the icon is being added
    \* command:  a command of evox2ctl while the window starts or ends
    \* edit:     an edit whose thread is still at work while the program leaves
    /\ Races \subseteq {"quit", "show", "signout", "icon", "command", "edit"}
    \* port:     one port access of a command
    \* release:  a write that gives a fan back
    \* handler:  Windows ends the process before console_ctrl_handler has
    \*           returned, or without calling it
    /\ Faulty \subseteq {"window", "tray", "port", "release", "handler"}
    /\ Machines \subseteq SUBSET Conditions

VARIABLES pc,       \* main thread of each process
          handles,  \* processes with a handle to the instance mutex
          fans,     \* curve fans: "auto" (firmware) or "manual"
          handler,  \* console_ctrl_handler is registered
          released, \* of the session: a caller of shutdown has begun to give back
          cutShort, \* (history) the last program ended while one was giving back
          tray,     \* the tray thread
          msgs,     \* messages posted to its window
          icon, taskbar,
          visible, hidden,     \* the native window; hidden_to_tray
          frame, cmd,          \* a frame in progress; the last viewport command
          showEvent, closing, force, \* TrayEvents, close request, FORCE_QUIT
          asked,    \* the user is waiting for the window
          machine,  \* what is wrong with this machine
          touched,  \* a register of its EC has been written
          cli,      \* the command of evox2ctl
          loose     \* a fan a command has put in manual mode for the window

giving     == <<released, cutShort>>
osVars     == <<handles, fans, handler, giving>>
trayVars   == <<tray, msgs>>
shellVars  == <<icon, taskbar>>
windowVars == <<visible, hidden, frame, cmd, showEvent, closing, force>>
outside    == <<machine, touched, cli, loose>>
vars == <<pc, osVars, trayVars, shellVars, windowVars, asked, outside>>

Init ==
    /\ pc = [l \in Launches |-> "none"]
    /\ handles = {} /\ fans = "auto" /\ handler = FALSE
    /\ released = FALSE /\ cutShort = FALSE
    /\ tray = "none" /\ msgs = {}
    /\ icon = FALSE /\ taskbar \in BOOLEAN
    /\ visible = FALSE /\ hidden = FALSE /\ frame = FALSE /\ cmd = "none"
    /\ showEvent = FALSE /\ closing = "no" /\ force = FALSE
    /\ asked = FALSE
    /\ machine \in Machines /\ touched = FALSE
    /\ cli = [at |-> "no", command |-> "none", code |-> 0] /\ loose = "no"

Goes(l, at) == pc' = [pc EXCEPT ![l] = at]

Leaving == {"failed", "giveBack", "giving", "box", "leave", "release", "write", "exit"}
Going(l) == pc[l] \in Leaving
Owner(l) == pc[l] \notin {"none", "refused", "post", "sorry"}

Supported == "board" \notin machine

\* What keeps a command from having a session, if anything.
Barred == Stopped(machine, TRUE)

\* The window is on the screen, with its contents.
Drawn == visible /\ ~hidden

\* The tray thread's window can be found; TRAY holds the session.
TrayWindow == tray \notin {"none", "create", "dead"}
TraySet    == tray \in {"loop", "event", "command", "native", "delete", "release", "write",
                        "exit"}

\* Nothing is under way between the user and the window.
Settled ==
    /\ \A l \in Launches : pc[l] \in {"none", "window"}
    /\ tray \in {"loop", "dead"} /\ msgs = {}
    /\ ~frame /\ cmd = "none" /\ ~showEvent /\ closing = "no" /\ ~force

Starting(l) == pc[l] \in {"setup", "sync", "wait", "open"}

\* Neither a command under way nor a signal the window has yet to answer.
Quiet == cli.at = "no" /\ loose # "signalled"

-----------------------------------------------------------------------------
(***************************************************************************)
(* The instance mutex.                                                     *)
(***************************************************************************)
\* An instance is on its way out, or a handle has survived it.
Dying ==
    \/ closing = "quit" \/ force \/ "exit" \in msgs
    \/ \E k \in Launches : Going(k)
    \/ (handles \cap Launches) # {} /\ ~\E k \in Launches : Owner(k)

\* Variant: that the mutex existed already is not looked at.
LaunchBlind(l) ==
    /\ pc[l] = "none" /\ "user" \notin machine
    /\ handles' = handles \cup {l}
    /\ Goes(l, "setup")
    /\ asked' = ~Drawn
    /\ UNCHANGED <<fans, handler, giving, trayVars, shellVars, windowVars, outside>>

\* AppSession::start asks for the rights first, then InstanceGuard::acquire for
\* the mutex: CreateMutexW opens it if it exists.
Launch(l) ==
    /\ pc[l] = "none"
    /\ "quit" \in Races \/ ~Dying
    /\ "command" \in Races \/ cli.at = "no" \/ \E k \in Launches : Owner(k)
    /\ "show" \in Races \/ (closing # "hide" /\ cmd # "hide")
    /\ \/ /\ "user" \in machine
          /\ Goes(l, "sorry")
          /\ UNCHANGED <<handles, asked>>
       \/ /\ "user" \notin machine
          /\ handles' = handles \cup {l}
          /\ Goes(l, IF handles = {} THEN "setup" ELSE "refused")
          /\ asked' = ~Drawn
    /\ UNCHANGED <<fans, handler, giving, trayVars, shellVars, windowVars, outside>>

Refuse(l) ==
    /\ pc[l] = "refused"
    /\ handles' = handles \ {l}
    /\ Goes(l, "post")
    /\ UNCHANGED <<fans, handler, giving, trayVars, shellVars, windowVars, asked, outside>>

\* Variant: the message is not posted.
RequestShowInVain(l) ==
    /\ pc[l] = "post"
    /\ Goes(l, "none")
    /\ UNCHANGED <<osVars, trayVars, shellVars, windowVars, asked, outside>>

\* request_show, which gives up after 1.5 s without a tray window
RequestShow(l) ==
    /\ pc[l] = "post"
    /\ Goes(l, "none")
    /\ msgs' = IF TrayWindow THEN msgs \cup {"show"} ELSE msgs
    /\ UNCHANGED <<osVars, tray, shellVars, windowVars, asked, outside>>

(***************************************************************************)
(* The main thread of the instance, entry.                                 *)
(***************************************************************************)
\* Variant: the board is not asked about before a write.
SetFanModeAnywhere(to) == fans' = to /\ touched' = TRUE

\* execute_operation: ensure_writes_allowed comes before the mode in memory and
\* the register change.
SetFanMode(to) ==
    IF Supported THEN fans' = to /\ touched' = TRUE ELSE UNCHANGED <<fans, touched>>

\* AppSession::start restores the saved fans (not on another board), or fails
\* before it touches them; the guard is dropped before the message box appears.
Setup(l) ==
    /\ pc[l] = "setup"
    /\ IF Stopped(machine, FALSE) = <<>>
       THEN /\ IF Supported
               THEN SetFanMode("manual") /\ loose' = "no" /\ cutShort' = FALSE
               ELSE UNCHANGED <<fans, touched, loose, cutShort>>
            /\ Goes(l, "sync")
            /\ UNCHANGED <<handles, asked>>
       ELSE /\ handles' = handles \ {l}
            /\ asked' = FALSE
            /\ Goes(l, "sorry")
            /\ UNCHANGED <<fans, loose, touched, cutShort>>
    /\ UNCHANGED <<handler, released, trayVars, shellVars, windowVars, machine, cli>>

\* sync_start_with_windows, then tray::start spawns its thread.
StartTray(l) ==
    /\ pc[l] = "sync"
    /\ tray' = "create"
    /\ Goes(l, "wait")
    /\ UNCHANGED <<osVars, msgs, shellVars, windowVars, asked, outside>>

\* The message window was found, or a second has passed.
Waited(l) ==
    /\ pc[l] = "wait"
    /\ handler' = TRUE
    /\ Goes(l, "open")
    /\ UNCHANGED <<handles, fans, giving, trayVars, shellVars, windowVars, asked, outside>>

OpenWindow(l) ==
    /\ pc[l] = "open"
    /\ \/ visible' = TRUE /\ asked' = FALSE /\ Goes(l, "window")
       \/ /\ "window" \in Faulty
          /\ "icon" \in Races \/ (tray = "loop" /\ "taskbar" \notin msgs)
          /\ Goes(l, "failed")
          /\ UNCHANGED <<visible, asked>>
    /\ UNCHANGED <<osVars, trayVars, shellVars, hidden, frame, cmd, showEvent,
                   closing, force, outside>>

\* Variant: showing the window leaves hidden_to_tray as it is.
LogicKeepsHidden(l) ==
    /\ pc[l] = "window" /\ ~frame
    /\ \/ /\ force \/ closing = "quit"
          /\ Goes(l, "leave")
          /\ UNCHANGED <<windowVars, asked>>
       \/ /\ ~force /\ closing # "quit"
          /\ showEvent \/ closing = "hide" \/ cmd # "none"
          /\ frame' = TRUE
          /\ showEvent' = FALSE /\ closing' = "no"
          /\ hidden' = (closing = "hide" \/ hidden)
          /\ cmd' = IF closing = "hide" THEN "hide" ELSE IF showEvent THEN "show" ELSE cmd
          /\ asked' = (asked /\ ~(visible /\ ~hidden'))
          /\ UNCHANGED <<pc, visible, force>>
    /\ UNCHANGED <<osVars, trayVars, shellVars, outside>>

\* logic: the events of the tray, FORCE_QUIT, then a close request.  The
\* window's own commands are queued after those the tray queued before.
Logic(l) ==
    /\ pc[l] = "window" /\ ~frame
    /\ \/ /\ force \/ closing = "quit"
          /\ Goes(l, "leave")
          /\ UNCHANGED <<windowVars, asked>>
       \/ /\ ~force /\ closing # "quit"
          /\ showEvent \/ closing = "hide" \/ cmd # "none"
          /\ frame' = TRUE
          /\ showEvent' = FALSE /\ closing' = "no"
          /\ hidden' = (closing = "hide" \/ (hidden /\ ~showEvent))
          /\ cmd' = IF closing = "hide" THEN "hide" ELSE IF showEvent THEN "show" ELSE cmd
          /\ asked' = (asked /\ ~(visible /\ ~hidden'))
          /\ UNCHANGED <<pc, visible, force>>
    /\ UNCHANGED <<osVars, trayVars, shellVars, outside>>

\* At the end of a frame eframe carries out the queued commands.
EndFrame(l) ==
    /\ pc[l] = "window" /\ frame
    /\ frame' = FALSE /\ cmd' = "none"
    /\ visible' = IF cmd = "none" THEN visible ELSE cmd = "show"
    /\ asked' = (asked /\ ~(visible' /\ ~hidden))
    /\ UNCHANGED <<pc, osVars, trayVars, shellVars, hidden, showEvent, closing, force, outside>>

\* Variant: the icon is left to the tray thread, which is not told.
LeaveIcon(l) ==
    /\ pc[l] \in {"leave", "failed"}
    /\ Goes(l, IF pc[l] = "leave" THEN "release" ELSE "giveBack")
    /\ UNCHANGED <<osVars, trayVars, shellVars, windowVars, asked, outside>>

\* tray::shutdown, in exit_now or after gui::run has failed: the icon is
\* deleted; the tray's window belongs to another thread and stays.
Leave(l) ==
    /\ pc[l] \in {"leave", "failed"}
    /\ icon' = FALSE
    /\ Goes(l, IF pc[l] = "leave" THEN "release" ELSE "giveBack")
    /\ UNCHANGED <<osVars, trayVars, taskbar, windowVars, asked, outside>>

\* What is left to do by a caller of shutdown that may go on.
After(at) == IF at \in {"giveBack", "giving"} THEN "box" ELSE "exit"

\* Variant: a window that could not be opened needs no shutdown.
ReleaseUnlessFailed(l) ==
    /\ pc[l] \in {"release", "giveBack"}
    /\ released' = (released \/ pc[l] = "release")
    /\ Goes(l, IF pc[l] = "release" /\ ~released THEN "write" ELSE After(pc[l]))
    /\ asked' = (asked /\ pc[l] = "release")
    /\ UNCHANGED <<handles, fans, handler, cutShort, trayVars, shellVars, windowVars, outside>>

\* session.shutdown: the monitor has ended; the first caller to set `released`
\* gives the fans back, a later one goes on at once.
Release(l) ==
    /\ pc[l] \in {"release", "giveBack"}
    /\ released' = TRUE
    /\ Goes(l, IF released           THEN After(pc[l])
               ELSE IF pc[l] = "release" THEN "write" ELSE "giving")
    /\ asked' = (asked /\ ~(released /\ pc[l] = "giveBack"))
    /\ UNCHANGED <<handles, fans, handler, cutShort, trayVars, shellVars, windowVars, outside>>

\* release_curve_fans_to_auto: nothing on another board; the caller has a
\* warning logged about a write that fails, and goes on.
GiveBack ==
    \E fails \in {FALSE, "release" \in Faulty} :
        IF Supported /\ fans = "manual" /\ ~fails
        THEN fans' = "auto" /\ touched' = TRUE
        ELSE UNCHANGED <<fans, touched>>

\* After a failure the message box comes last, with the session, and so the
\* instance mutex, still there.
Write(l) ==
    /\ pc[l] \in {"write", "giving"}
    /\ GiveBack
    /\ Goes(l, After(pc[l]))
    /\ asked' = (asked /\ pc[l] = "write")
    /\ UNCHANGED <<handles, handler, giving, trayVars, shellVars, windowVars, machine, cli,
                   loose>>

\* With a process go its threads, its windows and their messages, and the
\* event that has not been polled.
NoProgram ==
    /\ handler' = FALSE /\ released' = FALSE /\ tray' = "none" /\ msgs' = {}
    /\ visible' = FALSE /\ hidden' = FALSE /\ frame' = FALSE /\ cmd' = "none"
    /\ showEvent' = FALSE /\ closing' = "no" /\ force' = FALSE

\* Fans are being given back by one of the threads.
Giving(l) == fans = "manual" /\ (tray = "write" \/ pc[l] \in {"write", "giving"})

Gone(l) ==
    /\ Goes(l, "none")
    /\ cutShort' = Giving(l)
    /\ handles' = handles \ {l}
    /\ loose' = IF loose = "signalled" THEN "written" ELSE loose
    /\ NoProgram
    /\ UNCHANGED <<machine, touched, cli>>

Exit(l) ==
    /\ pc[l] = "exit"
    /\ Gone(l)
    /\ UNCHANGED <<fans, shellVars, asked>>

\* The user confirms a message box.
Confirm(l) ==
    \/ pc[l] = "box" /\ Gone(l) /\ UNCHANGED <<fans, shellVars, asked>>
    \/ /\ pc[l] = "sorry" /\ Goes(l, "none")
       /\ UNCHANGED <<osVars, trayVars, shellVars, windowVars, asked, outside>>

Main(l) ==
    \/ Refuse(l) \/ RequestShow(l) \/ Setup(l) \/ StartTray(l) \/ Waited(l)
    \/ OpenWindow(l) \/ Logic(l) \/ EndFrame(l) \/ Leave(l) \/ Release(l) \/ Write(l)
    \/ Exit(l)

-----------------------------------------------------------------------------
(***************************************************************************)
(* The tray thread: message_loop, wnd_proc.                                *)
(***************************************************************************)
CreateTray ==
    /\ tray = "create"
    /\ \E fails \in {FALSE, "tray" \in Faulty} : tray' = IF fails THEN "dead" ELSE "add"
    /\ UNCHANGED <<pc, osVars, msgs, shellVars, windowVars, asked, outside>>

\* add_icon gives up after ten seconds without a taskbar.
AddFirstIcon ==
    /\ tray = "add"
    /\ tray' = "set"
    /\ icon' = taskbar
    /\ UNCHANGED <<pc, osVars, msgs, taskbar, windowVars, asked, outside>>

SetTray ==
    /\ tray = "set"
    /\ tray' = "loop"
    /\ UNCHANGED <<pc, osVars, msgs, shellVars, windowVars, asked, outside>>

\* Variant: the broadcast is passed to DefWindowProc.
TakeTaskbarIgnored ==
    /\ tray = "loop" /\ "taskbar" \in msgs
    /\ msgs' = msgs \ {"taskbar"}
    /\ UNCHANGED <<pc, osVars, tray, shellVars, windowVars, asked, outside>>

TakeTaskbar ==
    /\ tray = "loop" /\ "taskbar" \in msgs
    /\ msgs' = msgs \ {"taskbar"}
    /\ icon' = taskbar
    /\ UNCHANGED <<pc, osVars, tray, taskbar, windowVars, asked, outside>>

\* SHOW_MSG of another launch, or a click on the icon
TakeShow ==
    /\ tray = "loop" /\ "show" \in msgs
    /\ msgs' = msgs \ {"show"}
    /\ tray' = "event"
    /\ UNCHANGED <<pc, osVars, shellVars, windowVars, asked, outside>>

\* show_main_window: the event, the viewport command, the native window.
SendShow ==
    /\ tray = "event"
    /\ tray' = "command"
    /\ showEvent' = TRUE
    /\ UNCHANGED <<pc, osVars, msgs, shellVars, visible, hidden, frame, cmd, closing,
                   force, asked, outside>>

WindowUp == \E l \in Launches : pc[l] = "window"

CommandShow ==
    /\ tray = "command"
    /\ tray' = "native"
    /\ cmd' = IF WindowUp THEN "show" ELSE cmd
    /\ UNCHANGED <<pc, osVars, msgs, shellVars, visible, hidden, frame, showEvent,
                   closing, force, asked, outside>>

\* ShowWindow waits for the thread of the window, which may be in a frame.
ShowNative ==
    /\ tray = "native" /\ ~frame
    /\ tray' = "loop"
    /\ visible' = (visible \/ WindowUp)
    /\ asked' = (asked /\ ~(visible' /\ ~hidden))
    /\ UNCHANGED <<pc, osVars, msgs, shellVars, hidden, frame, cmd, showEvent, closing,
                   force, outside>>

\* quit_now: FORCE_QUIT and the event, the icon, shutdown, exit.
TakeExit ==
    /\ tray = "loop" /\ "exit" \in msgs
    /\ force' = TRUE
    /\ tray' = "delete"
    /\ msgs' = msgs \ {"exit"}
    /\ UNCHANGED <<pc, osVars, shellVars, visible, hidden, frame, cmd, showEvent,
                   closing, asked, outside>>

DeleteIcon ==
    /\ tray = "delete"
    /\ icon' = FALSE
    /\ tray' = "release"
    /\ UNCHANGED <<pc, osVars, msgs, taskbar, windowVars, asked, outside>>

TrayRelease ==
    /\ tray = "release"
    /\ released' = TRUE
    /\ tray' = IF released THEN "exit" ELSE "write"
    /\ UNCHANGED <<pc, handles, fans, handler, cutShort, msgs, shellVars, windowVars, asked,
                   outside>>

TrayWrite ==
    /\ tray = "write"
    /\ GiveBack
    /\ tray' = "exit"
    /\ UNCHANGED <<pc, handles, handler, giving, msgs, shellVars, windowVars, asked, machine,
                   cli, loose>>

TrayExit ==
    /\ tray = "exit"
    /\ \E l \in Launches : Owner(l) /\ Gone(l)
    /\ UNCHANGED <<fans, shellVars, asked>>

TrayThread ==
    \/ CreateTray \/ AddFirstIcon \/ SetTray \/ TakeTaskbar \/ TakeShow
    \/ SendShow \/ CommandShow \/ ShowNative \/ TakeExit \/ DeleteIcon
    \/ TrayRelease \/ TrayWrite \/ TrayExit

-----------------------------------------------------------------------------
(***************************************************************************)
(* The command line tool.                                                  *)
(***************************************************************************)
Commands == {"usage", "dry", "diagnose", "read", "set", "curve"}

Proceeds(at) == cli' = [cli EXCEPT !.at = at]
Ends(code)   == cli' = [cli EXCEPT !.at = "no", !.code = code]

\* What can be refused, or answered, without a session; `fan ... curve` looks
\* for the window before it starts one.
Command(command) ==
    /\ cli.at = "no"
    /\ "command" \in Races \/ (~Dying /\ ~\E l \in Launches : Starting(l))
    /\ cli' = [command |-> command,
               at |-> CASE command \in {"usage", "dry"} -> "no"
                        [] command = "curve"           -> "probe"
                        [] OTHER                       -> "open",
               code |-> IF command = "usage" THEN 2 ELSE 0]
    /\ UNCHANGED <<pc, osVars, trayVars, shellVars, windowVars, asked, machine, touched,
                   loose>>

\* Variant: without the window a curve is set all the same.
ProbeIgnored ==
    /\ cli.at = "probe"
    /\ Proceeds("open")
    /\ UNCHANGED <<pc, osVars, trayVars, shellVars, windowVars, asked, machine, touched,
                   loose>>

\* gui_instance_running: OpenMutexW finds the mutex, and has it open.
Probe ==
    /\ cli.at = "probe"
    /\ IF handles = {}
       THEN Ends(2) /\ UNCHANGED handles
       ELSE Proceeds("close") /\ handles' = handles \cup {Cli}
    /\ UNCHANGED <<pc, fans, handler, giving, trayVars, shellVars, windowVars, asked, machine,
                   touched, loose>>

ProbeEnds ==
    /\ cli.at = "close"
    /\ handles' = handles \ {Cli}
    /\ Proceeds("open")
    /\ UNCHANGED <<pc, fans, handler, giving, trayVars, shellVars, windowVars, asked, machine,
                   touched, loose>>

\* open_session; `diagnose` goes on without one.
OpenSession ==
    /\ cli.at = "open"
    /\ IF Barred = <<>> THEN Proceeds("work")
       ELSE IF cli.command = "diagnose" THEN Ends(0)
       ELSE Ends(ExitCode(Barred[1]))
    /\ UNCHANGED <<pc, osVars, trayVars, shellVars, windowVars, asked, machine, touched,
                   loose>>

\* status, fan, mode, diagnose: the registers of another board may hold what
\* has no name here.
ShowStatus ==
    /\ cli.command \in {"read", "diagnose"}
    /\ Ends(0) \/ (~Supported /\ cli.command = "read" /\ Ends(1))
    /\ UNCHANGED <<touched, loose>>

\* ensure_writes_allowed
RefuseToWrite ==
    /\ cli.command \in {"set", "curve"}
    /\ Ends(ExitCode("board"))
    /\ UNCHANGED <<touched, loose>>

\* mode <mode>, fan ... fixed, fan ... auto
SetAtOnce ==
    /\ cli.command = "set"
    /\ Ends(0)
    /\ touched' = TRUE
    /\ UNCHANGED loose

\* fan ... curve; an access that fails after the mode has been written ends
\* it where it is.
SetCurve ==
    /\ cli.command = "curve"
    /\ \E fails \in {FALSE, "port" \in Faulty} :
          IF fails THEN Ends(ExitCode("port")) ELSE Proceeds("signal")
    /\ touched' = TRUE
    /\ loose' = "written"

Work ==
    /\ cli.at = "work"
    /\ ShowStatus \/ (IF Supported THEN SetAtOnce \/ SetCurve ELSE RefuseToWrite)
    /\ UNCHANGED <<pc, osVars, trayVars, shellVars, windowVars, asked, machine>>

\* The sessions with the event open, and those that still poll it: the monitor
\* until shutdown has joined it, the window until it leaves.
Listening(l) == Owner(l) /\ pc[l] # "setup"
Polling(l)   == Listening(l) /\ (~released \/ pc[l] = "window")

\* signal_reload_fans, which does not find the event without a window
Signal ==
    /\ cli.at = "signal"
    /\ Ends(0)
    /\ loose' = IF loose = "written" /\ \E l \in Launches : Listening(l)
                THEN "signalled" ELSE loose
    /\ UNCHANGED <<pc, osVars, trayVars, shellVars, windowVars, asked, machine, touched>>

CommandLine == Probe \/ ProbeEnds \/ OpenSession \/ Work \/ Signal

\* ReloadFansGuard::poll, in the monitor's or the window's loop, and
\* apply_stored_fans
Adopt(l) ==
    /\ loose = "signalled" /\ Polling(l)
    /\ loose' = "no"
    /\ SetFanMode("manual")
    /\ UNCHANGED <<pc, handles, handler, giving, trayVars, shellVars, windowVars, asked,
                   machine, cli>>

\* apply_fan_edit and set_power_mode, on a thread of their own: the window's
\* edits put fans in curve mode or take the last one out of it, the power modes
\* in the icon's menu leave them as they are.  Nobody waits for the thread.
Edit(to) ==
    /\ \/ WindowUp
       \/ tray = "loop" /\ to = fans
       \/ "edit" \in Races /\ \E l \in Launches : pc[l] \in {"leave", "release", "write", "exit"}
    /\ "edit" \in Races \/ ~Dying
    /\ SetFanMode(to)
    /\ UNCHANGED <<pc, handles, handler, giving, trayVars, shellVars, windowVars, asked,
                   machine, cli, loose>>

-----------------------------------------------------------------------------
(***************************************************************************)
(* The user and Windows.                                                   *)
(***************************************************************************)
\* The close button: the window hides, or the program quits.
Close(how) ==
    /\ WindowUp /\ visible /\ closing = "no"
    /\ how = "quit" => ("command" \in Races \/ Quiet)
    /\ \/ Settled
       \/ how = "hide" /\ "show" \in Races
       \/ how = "quit" /\ "icon" \in Races
    /\ closing' = how
    /\ asked' = FALSE
    /\ UNCHANGED <<pc, osVars, trayVars, shellVars, visible, hidden, frame, cmd,
                   showEvent, force, outside>>

\* Variant: the pointer's message is passed on as it is.
PointerActionRaw(pointer) == {pointer}

\* tray_pointer_action, and what can be chosen in the menu.  (Its power modes
\* are in module Settings.)
PointerAction(pointer) ==
    CASE pointer \in {"select", "keySelect", "leftUp", "doubleClick"} -> {"show"}
      [] pointer \in {"contextMenu", "rightUp"}                       -> {"show", "exit"}
      [] OTHER                                                          -> {}

\* The user points at the icon.
Click(pointer) ==
    /\ icon /\ tray = "loop"
    /\ \E what \in PointerAction(pointer) :
        /\ what = "exit" => ("command" \in Races \/ Quiet)
        /\ \/ Settled
           \/ what = "show" /\ "show" \in Races
           \/ what = "exit" /\ "icon" \in Races
        /\ msgs' = msgs \cup {what}
        /\ asked' = (asked \/ (what = "show" /\ ~Drawn))
    /\ UNCHANGED <<pc, osVars, tray, shellVars, windowVars, outside>>

\* console_ctrl_handler calls shutdown if it finds the session in TRAY; then
\* Windows ends every process, and the next logon begins.  That Windows calls
\* the handler of a program with windows and waits for it is an assumption, the
\* one CHANGELOG 2.4.0 makes; "handler" in Faulty is without it.
SignOut ==
    /\ \E l \in Launches : Owner(l)
    /\ "signout" \in Races \/ (Settled /\ WindowUp)
    /\ "command" \in Races \/ Quiet
    /\ \E called \in {TRUE, "handler" \notin Faulty} :
          IF called /\ handler /\ TraySet /\ ~released
          THEN GiveBack ELSE UNCHANGED <<fans, touched>>
    /\ cutShort' = \E l \in Launches : Giving(l)
    /\ pc' = [l \in Launches |-> "none"]
    /\ handles' = {}
    /\ icon' = FALSE /\ taskbar' \in BOOLEAN
    /\ NoProgram
    /\ asked' = FALSE
    /\ cli' = [cli EXCEPT !.at = "no", !.command = "none"]
    /\ loose' = IF loose = "signalled" THEN "written" ELSE loose
    /\ UNCHANGED machine

MayChangeIcon == "icon" \in Races \/ ~Dying

ExplorerGone ==
    /\ taskbar /\ MayChangeIcon
    /\ taskbar' = FALSE /\ icon' = FALSE
    /\ UNCHANGED <<pc, osVars, trayVars, windowVars, asked, outside>>

ExplorerBack ==
    /\ ~taskbar /\ MayChangeIcon
    /\ taskbar' = TRUE
    /\ msgs' = IF TrayWindow THEN msgs \cup {"taskbar"} ELSE msgs
    /\ UNCHANGED <<pc, osVars, tray, icon, windowVars, asked, outside>>

Next ==
    \/ \E l \in Launches : Launch(l) \/ Main(l) \/ Confirm(l)
    \/ \E l \in Launches : Adopt(l)
    \/ \E to \in {"auto", "manual"} : Edit(to)
    \/ \E command \in Commands : Command(command)
    \/ CommandLine
    \/ TrayThread
    \/ \E how \in {"hide", "quit"} : Close(how)
    \/ \E pointer \in {"select", "contextMenu", "move"} : Click(pointer)
    \/ SignOut \/ ExplorerGone \/ ExplorerBack

Spec == Init /\ [][Next]_vars

\* The program's threads keep running, the message queue serves messages in
\* their order, ShowWindow gets its turn between two frames; nobody has to do
\* anything.
FairSpec ==
    /\ Spec
    /\ WF_vars(TrayThread) /\ WF_vars(TakeShow) /\ WF_vars(TakeExit)
    /\ SF_vars(ShowNative)
    /\ WF_vars(CommandLine)
    /\ \A l \in Launches : WF_vars(Main(l)) /\ WF_vars(Adopt(l))

-----------------------------------------------------------------------------
\* Types; among the messages posted to the tray's window are only those it
\* knows (SHOW_MSG, ID_EXIT, TaskbarCreated).
TypeOK ==
    /\ pc \in [Launches -> {"none", "refused", "post", "setup", "sorry", "sync", "wait",
                            "open", "window", "leave", "release", "write", "exit", "failed",
                            "giveBack", "giving", "box"}]
    /\ handles \subseteq Launches \cup {Cli}
    /\ fans \in {"auto", "manual"} /\ handler \in BOOLEAN
    /\ released \in BOOLEAN /\ cutShort \in BOOLEAN
    /\ tray \in {"none", "create", "dead", "add", "set", "loop", "event", "command",
                 "native", "delete", "release", "write", "exit"}
    /\ msgs \subseteq {"show", "exit", "taskbar"}
    /\ icon \in BOOLEAN /\ taskbar \in BOOLEAN
    /\ visible \in BOOLEAN /\ hidden \in BOOLEAN /\ frame \in BOOLEAN
    /\ showEvent \in BOOLEAN /\ force \in BOOLEAN /\ asked \in BOOLEAN
    /\ cmd \in {"none", "show", "hide"}
    /\ closing \in {"no", "hide", "quit"}
    /\ machine \in Machines /\ touched \in BOOLEAN
    /\ cli \in [at : {"no", "probe", "close", "open", "work", "signal"},
               command : Commands \cup {"none"}, code : 0 .. 6]
    /\ loose \in {"no", "written", "signalled"}

\* README, "opening another EC session": at most one process has the fans, and
\* it has had the mutex from before it touched them.
OneSession ==
    /\ Cardinality({l \in Launches : Owner(l)}) <= 1
    /\ \A l \in Launches : Owner(l) => l \in handles

\* CHANGELOG 2.4.0: exiting, signing out or shutting down gives the curve fans
\* back, also when the window could not be opened; README, "evox2ctl": without
\* the window `fan ... curve` does not leave a fan in manual mode.  No fan is
\* left at a level nobody adjusts, whichever of the two callers of shutdown
\* comes first - unless the other one ends the process while it is writing
\* (the run FanControl_two_quitters shows that this happens).
NoFanLeftBehind ==
    (\A l \in Launches : ~Owner(l)) =>
        /\ fans = "auto" \/ cutShort
        /\ cli.at = "no" => loose = "no"

\* The window is on the screen exactly when the program draws it, once every
\* event and command of the tray and of the window has been dealt with: it is
\* neither blank nor gone.
DrawnIfVisible == Settled /\ WindowUp => visible = ~hidden

\* The icon is there while the program runs, once there is a taskbar, also if
\* the program was up first or Explorer restarted; and it goes with the
\* program (NIM_DELETE before every exit).
IconWithProgram ==
    /\ Settled /\ WindowUp /\ taskbar => icon
    /\ (\A l \in Launches : ~Owner(l)) => ~icon

\* The message of unsupported_write_error: on another board no route writes the
\* EC - the restore, edits, adoptions, commands, the release of any caller and
\* at sign-out - and none brings a fan into curve mode in memory either, which
\* is what the monitor and the release would act upon.
ForeignBoardUntouched == ~Supported => ~touched /\ fans = "auto" /\ loose = "no"

\* README, "Exit codes": what a command ends with says what stopped it.
ExitCodeTells ==
    cli.at = "no" /\ cli.command \notin {"none", "usage", "dry", "diagnose"} =>
        CASE cli.code = 0 -> Barred = <<>> /\ (Supported \/ cli.command = "read")
          [] cli.code = 1 -> machine \cap {"config", "empty", "board"} # {}
          [] cli.code = 2 -> cli.command = "curve"
          [] cli.code = 3 -> "user" \in machine
          [] cli.code = 4 -> "user" \notin machine /\ machine \cap {"driver", "module"} # {}
          [] cli.code = 5 -> ~Supported /\ cli.command # "read"
          [] cli.code = 6 -> "firmware" \in machine

\* README: a second launch shows the existing window, and so does a click on
\* the icon; a first launch opens it, or says why it cannot.
LaunchAnswered == asked ~> ~asked
=============================================================================
