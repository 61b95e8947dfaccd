--------------------------- MODULE EcTransaction ---------------------------
(***************************************************************************)
(* The ACPI EC protocol of ec.rs: read_byte and write_byte over the status *)
(* and data ports, under the in-process transaction mutex and the system   *)
(* wide Access_EC mutex, with bounded polling, retries, failing port       *)
(* accesses and processes that end in the middle of a transaction.         *)
(*                                                                         *)
(* The EC itself is external.  Its command states are those the test       *)
(* double of ec_io.rs gives it; here it takes a byte from its input buffer *)
(* at a time of its own choosing, or never, and with LateAnswers it may    *)
(* free the input buffer before its answer is ready.                       *)
(*                                                                         *)
(* A wait and the port access it guards are one step: only the holder of   *)
(* Access_EC fills the input buffer, and only the EC empties it.           *)
(***************************************************************************)
EXTENDS Integers

CONSTANTS Clients,      \* threads
          ProcessOf,    \* the process each belongs to
          Registers, Values,
          MaxRetries,   \* 5 in the source
          LateAnswers,  \* may the EC answer after freeing the input buffer?
          MaxFaults,    \* bound on port accesses that fail
          MaxDeaths     \* bound on processes that end

Processes == {ProcessOf[c] : c \in Clients}

\* A lock nobody holds.
Free == "free"

ASSUME EcTransactionAssumption ==
    /\ ProcessOf \in [Clients -> Processes]
    /\ Free \notin Clients
    /\ Values # {} /\ Registers # {}
    /\ MaxRetries \in Nat \ {0}
    /\ LateAnswers \in BOOLEAN
    /\ MaxFaults \in Nat
    /\ MaxDeaths \in Nat

VARIABLES registers, input, pending, answer, output,  \* the EC
          transaction, accessEc,                      \* the two mutexes
          pc, call, attempt,                          \* each client
          faults, deaths

ecVars     == <<registers, input, pending, answer, output>>
lockVars   == <<transaction, accessEc>>
clientVars == <<pc, call, attempt>>
vars == <<ecVars, lockVars, clientVars, faults, deaths>>

Requests == [op : {"read"}, reg : Registers] \cup
            [op : {"write"}, reg : Registers, value : Values]

NoCall == [request |-> <<>>, reply |-> <<>>]
Request(c) == call[c].request[1]

Init ==
    /\ registers \in [Registers -> Values]
    /\ input = <<>>             \* IBF: empty, or a byte and the port it came by
    /\ pending = <<"none">>     \* the command the EC is in the middle of
    /\ answer = <<>>            \* the register it still has to answer for
    /\ output = <<>>            \* OBF: empty, or a byte nobody has read
    /\ transaction = [p \in Processes |-> Free]
    /\ accessEc = Free
    /\ pc = [c \in Clients |-> "idle"]
    /\ call = [c \in Clients |-> NoCall]
    /\ attempt = [c \in Clients |-> 1]
    /\ faults = 0 /\ deaths = 0

-----------------------------------------------------------------------------
(***************************************************************************)
(* The embedded controller.                                                *)
(***************************************************************************)
TakeCommand ==
    /\ input # <<>> /\ input[1] = "command"
    /\ answer = <<>>
    /\ input' = <<>>
    /\ pending' = IF input[2] = "read" THEN <<"read">> ELSE <<"address">>
    /\ UNCHANGED <<registers, answer, output, lockVars, clientVars, faults, deaths>>

TakeData ==
    /\ input # <<>> /\ input[1] = "data"
    /\ answer = <<>>
    /\ input' = <<>>
    /\ CASE pending[1] = "read" ->
              /\ pending' = <<"none">>
              /\ \/ output' = <<registers[input[2]]>> /\ UNCHANGED answer
                 \/ LateAnswers /\ answer' = <<input[2]>> /\ UNCHANGED output
              /\ UNCHANGED registers
         [] pending[1] = "address" ->
              /\ pending' = <<"value", input[2]>>
              /\ UNCHANGED <<registers, answer, output>>
         [] pending[1] = "value" ->
              /\ registers' = [registers EXCEPT ![pending[2]] = input[2]]
              /\ pending' = <<"none">>
              /\ UNCHANGED <<answer, output>>
         [] pending[1] = "none" -> UNCHANGED <<registers, pending, answer, output>>
    /\ UNCHANGED <<lockVars, clientVars, faults, deaths>>

Answer ==
    /\ answer # <<>>
    /\ output' = <<registers[answer[1]]>>
    /\ answer' = <<>>
    /\ UNCHANGED <<registers, input, pending, lockVars, clientVars, faults, deaths>>

Ec == TakeCommand \/ TakeData \/ Answer

-----------------------------------------------------------------------------
(***************************************************************************)
(* with_transaction                                                        *)
(***************************************************************************)
Invoke(c) ==
    /\ pc[c] = "idle"
    /\ \E k \in Requests : call' = [call EXCEPT ![c].request = <<k>>]
    /\ pc' = [pc EXCEPT ![c] = "lock"]
    /\ UNCHANGED <<ecVars, lockVars, attempt, faults, deaths>>

Lock(c) ==
    /\ pc[c] = "lock"
    /\ transaction[ProcessOf[c]] = Free
    /\ transaction' = [transaction EXCEPT ![ProcessOf[c]] = c]
    /\ pc' = [pc EXCEPT ![c] = "access"]
    /\ UNCHANGED <<ecVars, accessEc, call, attempt, faults, deaths>>

\* Variant: Access_EC is opened but not waited for.
AcquireAtOnce(c) ==
    /\ pc[c] = "access"
    /\ accessEc' = c
    /\ pc' = [pc EXCEPT ![c] = "command"]
    /\ UNCHANGED <<ecVars, transaction, call, attempt, faults, deaths>>

Acquire(c) ==
    /\ pc[c] = "access"
    /\ accessEc = Free
    /\ accessEc' = c
    /\ pc' = [pc EXCEPT ![c] = "command"]
    /\ UNCHANGED <<ecVars, transaction, call, attempt, faults, deaths>>

\* Five seconds have passed while another process held Access_EC.
AcquireTimeout(c) ==
    /\ pc[c] = "access"
    /\ accessEc # Free
    /\ pc' = [pc EXCEPT ![c] = "release"]
    /\ call' = [call EXCEPT ![c].reply = <<"failed">>]
    /\ UNCHANGED <<ecVars, lockVars, attempt, faults, deaths>>

\* Both guards are dropped and the caller gets its reply.
Release(c) ==
    /\ pc[c] = "release"
    /\ accessEc' = IF accessEc = c THEN Free ELSE accessEc
    /\ transaction' = [transaction EXCEPT ![ProcessOf[c]] = Free]
    /\ pc' = [pc EXCEPT ![c] = "idle"]
    /\ call' = [call EXCEPT ![c] = NoCall]
    /\ attempt' = [attempt EXCEPT ![c] = 1]
    /\ UNCHANGED <<ecVars, faults, deaths>>

(***************************************************************************)
(* try_read_byte and try_write_byte: each step waits for IBF to clear, the *)
(* last step of a read for OBF to be set.                                  *)
(***************************************************************************)
PutCommand(c) ==
    /\ pc[c] = "command"
    /\ input = <<>>
    /\ input' = <<"command", Request(c).op>>
    /\ pc' = [pc EXCEPT ![c] = "address"]
    /\ UNCHANGED <<registers, pending, answer, output, lockVars, call, attempt,
                   faults, deaths>>

PutAddress(c) ==
    /\ pc[c] = "address"
    /\ input = <<>>
    /\ input' = <<"data", Request(c).reg>>
    /\ pc' = [pc EXCEPT ![c] = IF Request(c).op = "read" THEN "accepted" ELSE "value"]
    /\ UNCHANGED <<registers, pending, answer, output, lockVars, call, attempt,
                   faults, deaths>>

\* The write is reported done without waiting for the EC to take the value.
PutValue(c) ==
    /\ pc[c] = "value"
    /\ input = <<>>
    /\ input' = <<"data", Request(c).value>>
    /\ pc' = [pc EXCEPT ![c] = "release"]
    /\ call' = [call EXCEPT ![c].reply = <<"ok", Request(c).value>>]
    /\ UNCHANGED <<registers, pending, answer, output, lockVars, attempt, faults, deaths>>

Accepted(c) ==
    /\ pc[c] = "accepted"
    /\ input = <<>>
    /\ pc' = [pc EXCEPT ![c] = "answer"]
    /\ UNCHANGED <<ecVars, lockVars, call, attempt, faults, deaths>>

GetAnswer(c) ==
    /\ pc[c] = "answer"
    /\ output # <<>>
    /\ call' = [call EXCEPT ![c].reply = <<"ok", output[1]>>]
    /\ output' = <<>>
    /\ pc' = [pc EXCEPT ![c] = "release"]
    /\ UNCHANGED <<registers, input, pending, answer, lockVars, attempt, faults, deaths>>

\* The condition the client polls for does not hold.
Polling(c) ==
    \/ pc[c] \in {"command", "address", "value", "accepted"} /\ input # <<>>
    \/ pc[c] = "answer" /\ output = <<>>

\* Variant: one attempt more than the loop makes.
RetryOnceMore(c) ==
    IF attempt[c] <= MaxRetries
    THEN /\ attempt' = [attempt EXCEPT ![c] = @ + 1]
         /\ pc' = [pc EXCEPT ![c] = "command"]
         /\ UNCHANGED call
    ELSE /\ pc' = [pc EXCEPT ![c] = "release"]
         /\ call' = [call EXCEPT ![c].reply = <<"failed">>]
         /\ UNCHANGED attempt

\* The next attempt starts over with the command byte; after the last one the
\* call fails.
Retry(c) ==
    IF attempt[c] < MaxRetries
    THEN /\ attempt' = [attempt EXCEPT ![c] = @ + 1]
         /\ pc' = [pc EXCEPT ![c] = "command"]
         /\ UNCHANGED call
    ELSE /\ pc' = [pc EXCEPT ![c] = "release"]
         /\ call' = [call EXCEPT ![c].reply = <<"failed">>]
         /\ UNCHANGED attempt

\* Variant: the wait for the answer has no limit.
PollTimeoutInput(c) ==
    /\ Polling(c) /\ pc[c] # "answer"
    /\ Retry(c)
    /\ UNCHANGED <<ecVars, lockVars, faults, deaths>>

\* RW_TIMEOUT polls have not seen the condition.
PollTimeout(c) ==
    /\ Polling(c)
    /\ Retry(c)
    /\ UNCHANGED <<ecVars, lockVars, faults, deaths>>

\* The driver refuses a port access, which then has no effect.
PortFault(c) ==
    /\ pc[c] \in {"command", "address", "value", "accepted", "answer"}
    /\ faults < MaxFaults
    /\ faults' = faults + 1
    /\ Retry(c)
    /\ UNCHANGED <<ecVars, lockVars, deaths>>

Host(c) ==
    \/ Lock(c) \/ Acquire(c) \/ AcquireTimeout(c) \/ Release(c)
    \/ PutCommand(c) \/ PutAddress(c) \/ PutValue(c) \/ Accepted(c) \/ GetAnswer(c)
    \/ PollTimeout(c) \/ PortFault(c)

\* A process ends wherever its threads are; a new one may take its place.
\* Access_EC is abandoned, which the next waiter accepts as acquired.
Die(p) ==
    LET gone == {c \in Clients : ProcessOf[c] = p} IN
    /\ deaths < MaxDeaths
    /\ deaths' = deaths + 1
    /\ pc' = [c \in Clients |-> IF c \in gone THEN "idle" ELSE pc[c]]
    /\ call' = [c \in Clients |-> IF c \in gone THEN NoCall ELSE call[c]]
    /\ attempt' = [c \in Clients |-> IF c \in gone THEN 1 ELSE attempt[c]]
    /\ transaction' = [transaction EXCEPT ![p] = Free]
    /\ accessEc' = IF accessEc \in gone THEN Free ELSE accessEc
    /\ UNCHANGED <<ecVars, faults>>

Next ==
    \/ Ec
    \/ \E c \in Clients : Invoke(c) \/ Host(c)
    \/ \E p \in Processes : Die(p)

Spec == Init /\ [][Next]_vars

\* A thread inside a call keeps running; the EC may stop for good.
FairSpec == Spec /\ \A c \in Clients : WF_vars(Host(c))

-----------------------------------------------------------------------------
Replies == {<<>>, <<"failed">>} \cup {<<"ok", v>> : v \in Values}

\* Every variable stays in its range; at most MaxRetries attempts are made.
TypeOK ==
    /\ registers \in [Registers -> Values]
    /\ input \in {<<>>} \cup {<<"command", o>> : o \in {"read", "write"}}
                 \cup {<<"data", x>> : x \in Registers \cup Values}
    /\ pending \in {<<"none">>, <<"read">>, <<"address">>}
                   \cup {<<"value", r>> : r \in Registers}
    /\ answer \in {<<>>} \cup {<<r>> : r \in Registers}
    /\ output \in {<<>>} \cup {<<v>> : v \in Values}
    /\ transaction \in [Processes -> Clients \cup {Free}]
    /\ accessEc \in Clients \cup {Free}
    /\ pc \in [Clients -> {"idle", "lock", "access", "command", "address", "value",
                           "accepted", "answer", "release"}]
    /\ call \in [Clients -> [request : {<<>>} \cup {<<k>> : k \in Requests}, reply : Replies]]
    /\ attempt \in [Clients -> 1 .. MaxRetries]
    /\ faults \in Nat /\ deaths \in Nat

(***************************************************************************)
(* The promise to callers.  A write takes effect when its value enters the *)
(* input buffer: the EC may take it later, after the call has returned and *)
(* even after the process has ended, but before any other byte.            *)
(***************************************************************************)
Effective ==
    IF pending[1] = "value" /\ input # <<>> /\ input[1] = "data"
    THEN [registers EXCEPT ![pending[2]] = input[2]]
    ELSE registers

Promise == INSTANCE EcRegisters WITH reg <- Effective

\* Every register access is atomic, or fails without effect, whatever times
\* out, fails or dies in between (with_transaction, read_byte, write_byte).
AtomicRegisters == Promise!Spec

\* No call keeps the EC to itself for good, even if the EC never answers
\* again: the polls are bounded, so are the retries.
HolderFinishes == \A c \in Clients : (accessEc = c) ~> (accessEc # c)
=============================================================================
