------------------------------- MODULE Gates -------------------------------
(***************************************************************************)
(* What AppSession::start looks at before there is a session, in its       *)
(* order, and what becomes of the error: the words its sentence contains   *)
(* and the exit code evox2ctl finds by searching for them.                 *)
(***************************************************************************)
EXTENDS Integers, Sequences

\* What may be wrong with the machine: the process is not elevated, config.json
\* cannot be read, the log cannot be opened, there is no PawnIO device, it
\* refuses the module, the EC's version registers are empty, its firmware is
\* too old; and, which is no reason not to start, the board is another one.
Conditions == {"user", "config", "log", "driver", "module", "empty", "firmware", "board"}

GateOrder == <<"user", "config", "log", "driver", "module", "empty", "firmware">>

\* The command line tool has a silent logger, without a file.
Stops(gate, machine, quiet) == gate \in machine /\ ~(quiet /\ gate = "log")

\* The first gate that stops AppSession::start, if any: <<>> or <<gate>>.
Stopped(machine, quiet) ==
    LET closed == {i \in DOMAIN GateOrder : Stops(GateOrder[i], machine, quiet)}
    IN  IF closed = {} THEN <<>>
        ELSE <<GateOrder[CHOOSE i \in closed : \A j \in closed : i <= j]>>

\* The words of an error that are looked for.  A refused port access and the
\* sentence about the rights speak of PawnIO too.
Words(error) ==
    CASE error = "user"                       -> {"administrator", "pawnio"}
      [] error \in {"driver", "module", "port"} -> {"pawnio"}
      [] error = "firmware"                   -> {"unsupportedFirmware"}
      [] error = "board"                      -> {"unsupportedHardware"}
      [] OTHER                                -> {}

\* Variant: PawnIO is looked for first.
ExitCodePawnioFirst(error) ==
    IF "pawnio" \in Words(error)                   THEN 4
    ELSE IF "administrator" \in Words(error)       THEN 3
    ELSE IF "unsupportedFirmware" \in Words(error) THEN 6
    ELSE IF "unsupportedHardware" \in Words(error) THEN 5
    ELSE 1

\* classify_exit_code: the words are looked for in this order.
ExitCode(error) ==
    IF "administrator" \in Words(error)            THEN 3
    ELSE IF "pawnio" \in Words(error)              THEN 4
    ELSE IF "unsupportedFirmware" \in Words(error) THEN 6
    ELSE IF "unsupportedHardware" \in Words(error) THEN 5
    ELSE 1
=============================================================================
