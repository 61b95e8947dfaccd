------------------------ MODULE EcTransaction_proofs ------------------------
(***************************************************************************)
(* Theorems about EcTransaction, for any number of processes and threads,  *)
(* registers, values, attempts, failing accesses and dying processes: its  *)
(* types, who may talk to the EC, and that it implements EcRegisters.      *)
(***************************************************************************)
EXTENDS EcTransaction, TLAPS

(***************************************************************************)
(* The inductive invariant.  InCall and Ownership say where a client is by *)
(* its call and its locks; Bytes that a data byte is one the EC's command  *)
(* expects, whoever put it there and is gone since; Dialogue how far the   *)
(* EC is when a client is at a given place: the EC has either not taken    *)
(* the client's last byte yet, or is where that byte leads.                *)
(***************************************************************************)
Talking == {"command", "address", "value", "accepted", "answer"}

InCall ==
    \A c \in Clients :
        /\ pc[c] = "idle" => call[c] = NoCall
        /\ pc[c] # "idle" => call[c].request # <<>>
        /\ pc[c] \notin {"idle", "release"} => call[c].reply = <<>>
        /\ pc[c] = "release" => call[c].reply # <<>>

Ownership ==
    \A c \in Clients :
        /\ pc[c] \notin {"idle", "lock"} => transaction[ProcessOf[c]] = c
        /\ pc[c] \in Talking => accessEc = c

Bytes ==
    /\ input # <<>> /\ input[1] = "data" =>
        \/ pending[1] \in {"read", "address"} /\ input[2] \in Registers
        \/ pending[1] = "value" /\ input[2] \in Values
    /\ LateAnswers \/ answer = <<>>

Asked(c) == LateAnswers \/ output = <<registers[Request(c).reg]>>

DialogueOf(c) ==
    /\ pc[c] = "address" =>
        \/ input = <<"command", Request(c).op>>
        \/ input = <<>> /\ Request(c).op = "read" /\ pending = <<"read">>
        \/ input = <<>> /\ Request(c).op = "write" /\ pending = <<"address">>
    /\ pc[c] = "value" =>
        /\ Request(c).op = "write"
        /\ \/ input = <<"data", Request(c).reg>> /\ pending = <<"address">>
           \/ input = <<>> /\ pending = <<"value", Request(c).reg>>
    /\ pc[c] = "accepted" =>
        /\ Request(c).op = "read"
        /\ \/ input = <<"data", Request(c).reg>> /\ pending = <<"read">>
           \/ input = <<>> /\ Asked(c)
    /\ pc[c] = "answer" => Request(c).op = "read" /\ input = <<>> /\ Asked(c)

Dialogue == \A c \in Clients : DialogueOf(c)

EcInv == TypeOK /\ InCall /\ Ownership /\ Bytes /\ Dialogue

-----------------------------------------------------------------------------
\* What a client that is in a call asks for is a request.
LEMMA RequestTyped ==
    ASSUME TypeOK, InCall, NEW c \in Clients, pc[c] # "idle"
    PROVE  /\ Request(c).op \in {"read", "write"} /\ Request(c).reg \in Registers
           /\ Request(c).op = "write" => Request(c).value \in Values
<1>1. call[c].request # <<>>
  BY DEF InCall
<1>2. call[c].request \in {<<>>} \cup {<<k>> : k \in Requests}
  BY DEF TypeOK
<1>3. PICK k \in Requests : call[c].request = <<k>>
  BY <1>1, <1>2
<1>4. Request(c) = k
  BY <1>3 DEF Request
<1> QED
  BY <1>4 DEF Requests

\* Only the client that has Access_EC talks to the EC.
LEMMA OneTalks ==
    ASSUME Ownership, NEW c \in Clients, NEW d \in Clients \ {c}, pc[c] \in Talking
    PROVE  pc[d] \notin Talking
BY DEF Ownership
-----------------------------------------------------------------------------
\* The invariant holds at the start.
LEMMA InitInv == Init => EcInv
<1> SUFFICES ASSUME Init PROVE EcInv
  OBVIOUS
<1>1. TypeOK
  BY EcTransactionAssumption DEF Init, TypeOK, NoCall, Replies
<1>2. InCall /\ Ownership /\ Bytes /\ Dialogue
  BY DEF Init, InCall, Ownership, Bytes, Dialogue, DialogueOf, Talking
<1> QED
  BY <1>1, <1>2 DEF EcInv

\* The EC takes a byte or answers: it gets where that byte leads.
LEMMA EcStep == EcInv /\ Ec => EcInv'
<1> SUFFICES ASSUME EcInv, Ec PROVE EcInv'
  OBVIOUS
<1> USE DEF EcInv
<1>0. /\ UNCHANGED <<transaction, accessEc, pc, call, attempt, faults, deaths>>
      /\ \A c \in Clients : Request(c)' = Request(c)
  BY DEF Ec, TakeCommand, TakeData, Answer, lockVars, clientVars, Request
<1>1. InCall' /\ Ownership'
  BY <1>0 DEF InCall, Ownership
<1>r. ASSUME NEW c \in Clients, pc[c] \in Talking
      PROVE  Request(c).op \in {"read", "write"} /\ Request(c).reg \in Registers
  BY <1>r, RequestTyped DEF Talking
<1>2. CASE TakeCommand
  <2>1. /\ input # <<>> /\ input[1] = "command" /\ answer = <<>> /\ input' = <<>>
        /\ registers' = registers /\ answer' = answer /\ output' = output
        /\ pending' = IF input[2] = "read" THEN <<"read">> ELSE <<"address">>
    BY <1>2 DEF TakeCommand
  <2>3. TypeOK'
    BY <1>0, <2>1 DEF TypeOK
  <2>4. Bytes'
    BY <2>1 DEF Bytes
  <2>5. ASSUME NEW c \in Clients
        PROVE  DialogueOf(c)'
    <3>1. CASE pc[c] \in Talking
      BY <1>0, <1>r, <2>1, <3>1 DEF Dialogue, DialogueOf, Asked, Talking
    <3>2. CASE pc[c] \notin Talking
      BY <1>0, <3>2 DEF DialogueOf, Talking
    <3> QED
      BY <3>1, <3>2
  <2> QED
    BY <1>1, <2>3, <2>4, <2>5 DEF Dialogue
<1>3. CASE TakeData
  <2>1. input # <<>> /\ input[1] = "data" /\ answer = <<>> /\ input' = <<>>
    BY <1>3 DEF TakeData
  <2>2. ASSUME NEW c \in Clients, pc[c] \in {"accepted", "value"}
        PROVE  /\ input = <<"data", Request(c).reg>>
               /\ pc[c] = "accepted" => pending = <<"read">>
               /\ pc[c] = "value" => pending = <<"address">>
    BY <2>1, <2>2 DEF Dialogue, DialogueOf
  <2>3. ASSUME NEW c \in Clients
        PROVE  pc[c] \notin {"address", "answer"}
    BY <2>1, <1>r DEF Dialogue, DialogueOf, Talking
  <2>4. CASE pending[1] = "read"
    <3>1. /\ pending' = <<"none">> /\ registers' = registers /\ input[2] \in Registers
          /\ \/ output' = <<registers[input[2]]>> /\ UNCHANGED answer
             \/ LateAnswers /\ answer' = <<input[2]>> /\ UNCHANGED output
      BY <1>3, <2>1, <2>4 DEF TakeData, Bytes
    <3>2. TypeOK'
      BY <1>0, <2>1, <3>1 DEF TypeOK
    <3>3. Bytes'
      BY <2>1, <3>1 DEF Bytes
    <3>4. ASSUME NEW c \in Clients PROVE DialogueOf(c)'
      BY <1>0, <2>1, <2>2, <2>3, <2>4, <3>1 DEF Dialogue, DialogueOf, Asked
    <3> QED
      BY <1>1, <3>2, <3>3, <3>4 DEF Dialogue
  <2>5. CASE pending[1] = "address"
    <3>1. /\ pending' = <<"value", input[2]>> /\ input[2] \in Registers
          /\ UNCHANGED <<registers, answer, output>>
      BY <1>3, <2>1, <2>5 DEF TakeData, Bytes
    <3>2. TypeOK'
      BY <1>0, <2>1, <3>1 DEF TypeOK
    <3>3. Bytes'
      BY <2>1, <3>1 DEF Bytes
    <3>4. ASSUME NEW c \in Clients PROVE DialogueOf(c)'
      BY <1>0, <2>1, <2>2, <2>3, <2>5, <3>1 DEF Dialogue, DialogueOf, Asked
    <3> QED
      BY <1>1, <3>2, <3>3, <3>4 DEF Dialogue
  <2>6. CASE pending[1] = "value"
    <3>1. /\ registers' = [registers EXCEPT ![pending[2]] = input[2]]
          /\ pending' = <<"none">> /\ input[2] \in Values
          /\ UNCHANGED <<answer, output>>
      BY <1>3, <2>1, <2>6 DEF TakeData, Bytes
    <3>2. TypeOK'
      BY <1>0, <2>1, <3>1 DEF TypeOK
    <3>3. Bytes'
      BY <2>1, <3>1 DEF Bytes
    <3>4. ASSUME NEW c \in Clients PROVE DialogueOf(c)'
      BY <1>0, <2>1, <2>2, <2>3, <2>6 DEF Dialogue, DialogueOf
    <3> QED
      BY <1>1, <3>2, <3>3, <3>4 DEF Dialogue
  <2> QED
    BY <2>1, <2>4, <2>5, <2>6 DEF Bytes
<1>4. CASE Answer
  <2>1. /\ answer # <<>> /\ output' = <<registers[answer[1]]>> /\ answer' = <<>>
        /\ UNCHANGED <<registers, input, pending>>
    BY <1>4 DEF Answer
  <2>2. TypeOK'
    BY <1>0, <2>1 DEF TypeOK
  <2>3. Bytes' /\ LateAnswers
    BY <2>1 DEF Bytes
  <2>4. ASSUME NEW c \in Clients PROVE DialogueOf(c)'
    BY <1>0, <2>1, <2>3 DEF Dialogue, DialogueOf, Asked
  <2> QED
    BY <1>1, <2>2, <2>3, <2>4 DEF Dialogue
<1> QED
  BY <1>2, <1>3, <1>4 DEF Ec

\* A step of client c that takes no byte from the EC and gives it none, and
\* that leaves c outside the dialogue or at its beginning.
LEMMA DialogueUndisturbed ==
    ASSUME TypeOK, Dialogue, NEW c \in Clients,
           UNCHANGED ecVars,
           pc'[c] \notin Talking \ {"command"},
           \A d \in Clients \ {c} : pc'[d] = pc[d] /\ call'[d] = call[d]
    PROVE  Dialogue'
<1> SUFFICES ASSUME NEW d \in Clients PROVE DialogueOf(d)'
  BY DEF Dialogue
<1>1. CASE d = c
  BY <1>1 DEF DialogueOf, Talking
<1>2. CASE d # c
  <2>1. Request(d)' = Request(d) /\ pc'[d] = pc[d]
    BY <1>2 DEF Request
  <2> QED
    BY <2>1 DEF Dialogue, DialogueOf, Asked, ecVars
<1> QED
  BY <1>1, <1>2

\* A client begins a call, gets its locks or fails to, gives them back.
LEMMA LockStep ==
    ASSUME EcInv, NEW c \in Clients,
           Invoke(c) \/ Lock(c) \/ Acquire(c) \/ AcquireTimeout(c) \/ Release(c)
    PROVE  EcInv'
<1> USE DEF EcInv
<1>p. ProcessOf[c] \in Processes /\ Free \notin Clients
  BY EcTransactionAssumption DEF Processes
<1>0. UNCHANGED ecVars
  BY DEF Invoke, Lock, Acquire, AcquireTimeout, Release
<1>b. Bytes'
  BY <1>0 DEF Bytes, ecVars
<1>1. CASE Invoke(c)
  <2>1. PICK k \in Requests : call' = [call EXCEPT ![c].request = <<k>>]
    BY <1>1 DEF Invoke
  <2>2. /\ pc[c] = "idle" /\ pc' = [pc EXCEPT ![c] = "lock"]
        /\ UNCHANGED <<ecVars, lockVars, attempt, faults, deaths>>
    BY <1>1 DEF Invoke
  <2>3. TypeOK'
    BY <2>1, <2>2 DEF TypeOK, ecVars, lockVars
  <2>4. InCall'
    BY <2>1, <2>2 DEF InCall, TypeOK, NoCall
  <2>5. Ownership'
    BY <2>2 DEF Ownership, TypeOK, lockVars, Talking
  <2>6. Dialogue'
    BY <2>1, <2>2, DialogueUndisturbed DEF TypeOK, Talking
  <2> QED
    BY <1>b, <2>3, <2>4, <2>5, <2>6
<1>2. CASE Lock(c)
  <2>1. TypeOK'
    BY <1>2, <1>p DEF Lock, TypeOK, ecVars
  <2>2. InCall'
    BY <1>2 DEF Lock, InCall, TypeOK
  <2>3. Ownership'
    BY <1>2, <1>p DEF Lock, Ownership, TypeOK, Talking
  <2>4. Dialogue'
    BY <1>2, DialogueUndisturbed DEF Lock, TypeOK, Talking
  <2> QED
    BY <1>b, <2>1, <2>2, <2>3, <2>4
<1>3. CASE Acquire(c)
  <2>1. TypeOK'
    BY <1>3 DEF Acquire, TypeOK, ecVars
  <2>2. InCall'
    BY <1>3 DEF Acquire, InCall, TypeOK
  <2>3. Ownership'
    BY <1>3, <1>p DEF Acquire, Ownership, TypeOK, Talking
  <2>4. Dialogue'
    BY <1>3, DialogueUndisturbed DEF Acquire, TypeOK, Talking
  <2> QED
    BY <1>b, <2>1, <2>2, <2>3, <2>4
<1>4. CASE AcquireTimeout(c)
  <2>1. TypeOK'
    BY <1>4 DEF AcquireTimeout, TypeOK, ecVars, lockVars, Replies
  <2>2. InCall'
    BY <1>4 DEF AcquireTimeout, InCall, TypeOK
  <2>3. Ownership'
    BY <1>4 DEF AcquireTimeout, Ownership, TypeOK, Talking, lockVars
  <2>4. Dialogue'
    BY <1>4, DialogueUndisturbed DEF AcquireTimeout, TypeOK, Talking
  <2> QED
    BY <1>b, <2>1, <2>2, <2>3, <2>4
<1>5. CASE Release(c)
  <2>1. TypeOK'
    BY <1>5, <1>p, EcTransactionAssumption DEF Release, TypeOK, ecVars, Replies, NoCall
  <2>2. InCall'
    BY <1>5 DEF Release, InCall, TypeOK
  <2>3. Ownership'
    <3>1. pc' = [pc EXCEPT ![c] = "idle"] /\ transaction[ProcessOf[c]] = c
          /\ transaction' = [transaction EXCEPT ![ProcessOf[c]] = Free]
          /\ accessEc' = IF accessEc = c THEN Free ELSE accessEc
      BY <1>5 DEF Release, Ownership
    <3>2. ASSUME NEW d \in Clients, d # c, pc[d] \notin {"idle", "lock"}
          PROVE  transaction'[ProcessOf[d]] = d /\ (pc[d] \in Talking => accessEc' = d)
      <4>1. transaction[ProcessOf[d]] = d
        BY <3>2 DEF Ownership
      <4>2. ProcessOf[d] # ProcessOf[c]
        BY <3>1, <3>2, <4>1
      <4> QED
        BY <3>1, <3>2, <4>1, <4>2, <1>p DEF Ownership, TypeOK
    <3> QED
      BY <3>1, <3>2 DEF Ownership, TypeOK, Talking
  <2>4. Dialogue'
    BY <1>5, DialogueUndisturbed DEF Release, TypeOK, Talking
  <2> QED
    BY <1>b, <2>1, <2>2, <2>3, <2>4
<1> QED
  BY <1>1, <1>2, <1>3, <1>4, <1>5

\* A client talks to the EC: it puts a byte, sees one taken, gets an answer.
LEMMA TalkStep ==
    ASSUME EcInv, NEW c \in Clients,
           PutCommand(c) \/ PutAddress(c) \/ PutValue(c) \/ Accepted(c) \/ GetAnswer(c)
    PROVE  EcInv'
<1> USE DEF EcInv
<1>0. /\ pc[c] \in Talking /\ pc'[c] \in Talking \cup {"release"}
      /\ \A d \in Clients \ {c} : pc'[d] = pc[d] /\ call'[d] = call[d]
      /\ UNCHANGED <<registers, pending, answer, lockVars, attempt, faults, deaths>>
  BY DEF TypeOK, Talking, PutCommand, PutAddress, PutValue, Accepted, GetAnswer, ecVars
<1>r. /\ Request(c).op \in {"read", "write"} /\ Request(c).reg \in Registers
      /\ Request(c).op = "write" => Request(c).value \in Values
  BY <1>0, RequestTyped DEF Talking
<1>o. Ownership'
  BY <1>0 DEF Ownership, lockVars, Talking
<1>d. ASSUME NEW d \in Clients \ {c} PROVE DialogueOf(d)'
  <2>1. pc'[d] \notin Talking
    BY <1>0, OneTalks
  <2> QED
    BY <2>1 DEF DialogueOf, Talking
<1>1. CASE PutCommand(c)
  <2>1. TypeOK'
    BY <1>1, <1>r DEF PutCommand, TypeOK, lockVars
  <2>2. InCall'
    BY <1>1 DEF PutCommand, InCall, TypeOK
  <2>3. Bytes'
    BY <1>1 DEF PutCommand, Bytes
  <2>4. DialogueOf(c)'
    BY <1>1 DEF PutCommand, DialogueOf, TypeOK, Request
  <2> QED
    BY <1>o, <1>d, <2>1, <2>2, <2>3, <2>4 DEF Dialogue
<1>2. CASE PutAddress(c)
  <2>0. pending = IF Request(c).op = "read" THEN <<"read">> ELSE <<"address">>
    BY <1>2, <1>r DEF PutAddress, Dialogue, DialogueOf
  <2>1. TypeOK'
    BY <1>2, <1>r DEF PutAddress, TypeOK, lockVars
  <2>2. InCall'
    BY <1>2 DEF PutAddress, InCall, TypeOK
  <2>3. Bytes'
    BY <1>2, <1>r, <2>0 DEF PutAddress, Bytes
  <2>4. DialogueOf(c)'
    BY <1>2, <1>r, <2>0 DEF PutAddress, DialogueOf, TypeOK, Request
  <2> QED
    BY <1>o, <1>d, <2>1, <2>2, <2>3, <2>4 DEF Dialogue
<1>3. CASE PutValue(c)
  <2>0. Request(c).op = "write" /\ pending = <<"value", Request(c).reg>>
    BY <1>3 DEF PutValue, Dialogue, DialogueOf
  <2>1. TypeOK'
    BY <1>3, <1>r, <2>0 DEF PutValue, TypeOK, lockVars, Replies
  <2>2. InCall'
    BY <1>3 DEF PutValue, InCall, TypeOK
  <2>3. Bytes'
    BY <1>3, <1>r, <2>0 DEF PutValue, Bytes
  <2>4. DialogueOf(c)'
    BY <1>3 DEF PutValue, DialogueOf, TypeOK
  <2> QED
    BY <1>o, <1>d, <2>1, <2>2, <2>3, <2>4 DEF Dialogue
<1>4. CASE Accepted(c)
  <2>1. TypeOK'
    BY <1>4 DEF Accepted, TypeOK, lockVars, ecVars
  <2>2. InCall'
    BY <1>4 DEF Accepted, InCall, TypeOK
  <2>3. Bytes'
    BY <1>4 DEF Accepted, Bytes, ecVars
  <2>4. DialogueOf(c)'
    BY <1>4 DEF Accepted, Dialogue, DialogueOf, Asked, TypeOK, Request, ecVars
  <2> QED
    BY <1>o, <1>d, <2>1, <2>2, <2>3, <2>4 DEF Dialogue
<1>5. CASE GetAnswer(c)
  <2>1. TypeOK'
    <3>1. PICK v \in Values : output = <<v>>
      BY <1>5 DEF GetAnswer, TypeOK
    <3>2. call' \in [Clients -> [request : {<<>>} \cup {<<k>> : k \in Requests}, reply : Replies]]
      <4>1. call' = [call EXCEPT ![c].reply = <<"ok", v>>]
        BY <1>5, <3>1 DEF GetAnswer
      <4>2. <<"ok", v>> \in Replies
        BY DEF Replies
      <4> QED
        BY <4>1, <4>2 DEF TypeOK
    <3>3. pc' \in [Clients -> {"idle", "lock", "access", "command", "address",
                              "value", "accepted", "answer", "release"}]
      BY <1>5 DEF GetAnswer, TypeOK
    <3> QED
      BY <1>5, <3>2, <3>3 DEF GetAnswer, TypeOK, lockVars
  <2>2. InCall'
    BY <1>5 DEF GetAnswer, InCall, TypeOK
  <2>3. Bytes'
    BY <1>5 DEF GetAnswer, Bytes
  <2>4. DialogueOf(c)'
    BY <1>5 DEF GetAnswer, DialogueOf, TypeOK
  <2> QED
    BY <1>o, <1>d, <2>1, <2>2, <2>3, <2>4 DEF Dialogue
<1> QED
  BY <1>1, <1>2, <1>3, <1>4, <1>5

\* A poll that gives up, or an access the driver refuses: the client starts
\* over or leaves; the EC stays as it is.
LEMMA RetryStep ==
    ASSUME EcInv, NEW c \in Clients, PollTimeout(c) \/ PortFault(c)
    PROVE  EcInv'
<1> USE DEF EcInv
<1>0. /\ pc[c] \in Talking /\ Retry(c)
      /\ UNCHANGED <<ecVars, lockVars, deaths>> /\ faults' \in Nat
  BY DEF PollTimeout, Polling, PortFault, Talking, TypeOK
<1>1. /\ \/ pc' = [pc EXCEPT ![c] = "command"] /\ call' = call
         \/ pc' = [pc EXCEPT ![c] = "release"]
            /\ call' = [call EXCEPT ![c].reply = <<"failed">>]
      /\ attempt' \in [Clients -> 1 .. MaxRetries]
  <2>1. attempt \in [Clients -> 1 .. MaxRetries] /\ MaxRetries \in Nat \ {0}
    BY EcTransactionAssumption DEF TypeOK
  <2>2. CASE attempt[c] < MaxRetries
    <3>1. /\ attempt' = [attempt EXCEPT ![c] = @ + 1]
          /\ pc' = [pc EXCEPT ![c] = "command"] /\ call' = call
      BY <1>0, <2>2 DEF Retry
    <3>2. attempt[c] + 1 \in 1 .. MaxRetries
      BY <2>1, <2>2
    <3> QED
      BY <2>1, <3>1, <3>2
  <2>3. CASE ~(attempt[c] < MaxRetries)
    BY <1>0, <2>1, <2>3 DEF Retry
  <2> QED
    BY <2>2, <2>3
<1>2. TypeOK'
  <2>1. pc' \in [Clients -> {"idle", "lock", "access", "command", "address",
                            "value", "accepted", "answer", "release"}]
    BY <1>1 DEF TypeOK
  <2>2. call' \in [Clients -> [request : {<<>>} \cup {<<k>> : k \in Requests}, reply : Replies]]
    <3>1. <<"failed">> \in Replies
      BY DEF Replies
    <3>2. CASE call' = call
      BY <3>2 DEF TypeOK
    <3>3. CASE call' = [call EXCEPT ![c].reply = <<"failed">>]
      BY <3>1, <3>3 DEF TypeOK
    <3> QED
      BY <1>1, <3>2, <3>3
  <2> QED
    BY <1>0, <1>1, <2>1, <2>2 DEF TypeOK, ecVars, lockVars
<1>3. InCall'
  BY <1>0, <1>1 DEF InCall, Talking, TypeOK
<1>4. Ownership'
  BY <1>0, <1>1 DEF Ownership, Talking, TypeOK, lockVars
<1>5. Bytes'
  BY <1>0 DEF Bytes, ecVars
<1>6. Dialogue'
  BY <1>0, <1>1, DialogueUndisturbed DEF TypeOK, Talking
<1> QED
  BY <1>2, <1>3, <1>4, <1>5, <1>6

\* A process ends: its threads are out of their calls and its locks are free,
\* and the EC is left wherever they got it.
LEMMA DieStep ==
    ASSUME EcInv, NEW p \in Processes, Die(p)
    PROVE  EcInv'
<1> USE DEF EcInv
<1> DEFINE gone == {c \in Clients : ProcessOf[c] = p}
<1>1. /\ pc' = [c \in Clients |-> IF c \in gone THEN "idle" ELSE pc[c]]
      /\ call' = [c \in Clients |-> IF c \in gone THEN NoCall ELSE call[c]]
      /\ attempt' = [c \in Clients |-> IF c \in gone THEN 1 ELSE attempt[c]]
      /\ transaction' = [transaction EXCEPT ![p] = Free]
      /\ accessEc' = IF accessEc \in gone THEN Free ELSE accessEc
      /\ UNCHANGED <<ecVars, faults>> /\ deaths' \in Nat
  BY DEF Die, TypeOK
<1>2. TypeOK'
  BY <1>1, EcTransactionAssumption DEF TypeOK, Replies, NoCall, ecVars
<1>3. InCall'
  BY <1>1 DEF InCall, NoCall
<1>4. Ownership'
  BY <1>1 DEF Ownership, Talking, TypeOK
<1>5. Bytes'
  BY <1>1 DEF Bytes, ecVars
<1>6. ASSUME NEW c \in Clients PROVE DialogueOf(c)'
  <2>1. CASE c \in gone
    BY <1>1, <2>1 DEF DialogueOf
  <2>2. CASE c \notin gone
    <3>1. pc'[c] = pc[c] /\ Request(c)' = Request(c)
      BY <1>1, <2>2 DEF Request
    <3> QED
      BY <1>1, <3>1 DEF Dialogue, DialogueOf, Asked, ecVars
  <2> QED
    BY <2>1, <2>2
<1> QED
  BY <1>2, <1>3, <1>4, <1>5, <1>6 DEF Dialogue

\* No step of the EC, of a client or of a dying process breaks the invariant.
LEMMA InvStep == EcInv /\ [Next]_vars => EcInv'
<1> SUFFICES ASSUME EcInv, [Next]_vars PROVE EcInv'
  OBVIOUS
<1>1. CASE UNCHANGED vars
  <2>1. UNCHANGED <<registers, input, pending, answer, output, transaction, accessEc,
                    pc, call, attempt, faults, deaths>>
    BY <1>1 DEF vars, ecVars, lockVars, clientVars
  <2>2. TypeOK' /\ InCall' /\ Ownership' /\ Bytes'
    BY <2>1 DEF EcInv, TypeOK, InCall, Ownership, Bytes
  <2>3. Dialogue'
    BY <2>1 DEF EcInv, Dialogue, DialogueOf, Asked, Request
  <2> QED
    BY <2>2, <2>3 DEF EcInv
<1> QED
  BY <1>1, EcStep, LockStep, TalkStep, RetryStep, DieStep DEF Next, Host

\* Every byte in the EC's buffers, every lock, call and attempt stays in its
\* range, also with an EC that answers late; the EC never takes a byte for
\* something it was not meant as (a value for a register, an address for a
\* value), though its clients may die between any two bytes.
THEOREM EcTypeCorrect == Spec => []TypeOK
<1>1. EcInv => TypeOK
  BY DEF EcInv
<1> QED
  BY <1>1, InitInv, InvStep, PTL DEF Spec
-----------------------------------------------------------------------------
(***************************************************************************)
(* The refinement.                                                         *)
(***************************************************************************)
\* Nothing but a value put into the input buffer changes what the registers
\* hold or are about to hold.
LEMMA EffectiveUnchanged ==
    ASSUME EcInv,
           \/ Ec \/ UNCHANGED ecVars
           \/ \E c \in Clients : PutCommand(c) \/ PutAddress(c) \/ GetAnswer(c)
    PROVE  Effective' = Effective
<1> USE DEF EcInv, Effective
<1>1. CASE TakeCommand
  BY <1>1 DEF TakeCommand
<1>2. CASE TakeData
  BY <1>2 DEF TakeData, Bytes
<1>3. CASE Answer
  BY <1>3 DEF Answer
<1>4. CASE UNCHANGED ecVars
  BY <1>4 DEF ecVars
<1>5. ASSUME NEW c \in Clients, PutCommand(c) PROVE Effective' = Effective
  BY <1>5 DEF PutCommand
<1>6. ASSUME NEW c \in Clients, PutAddress(c) PROVE Effective' = Effective
  <2>1. pending \in {<<"read">>, <<"address">>} /\ pending' = pending /\ input = <<>>
        /\ registers' = registers
    BY <1>6 DEF PutAddress, Dialogue, DialogueOf
  <2> QED
    BY <2>1
<1>7. ASSUME NEW c \in Clients, GetAnswer(c) PROVE Effective' = Effective
  BY <1>7 DEF GetAnswer
<1> QED
  BY <1>1, <1>2, <1>3, <1>4, <1>5, <1>6, <1>7 DEF Ec

\* Every step is one of EcRegisters or changes nothing there.
LEMMA AtomicStep ==
    ASSUME ~LateAnswers, EcInv, [Next]_vars
    PROVE  [Promise!Next]_Promise!vars
<1> USE DEF EcInv
<1> SUFFICES Promise!Next \/ UNCHANGED <<Effective, call>>
  BY DEF Promise!vars
<1>1. CASE Ec
  <2>1. UNCHANGED call
    BY <1>1 DEF Ec, TakeCommand, TakeData, Answer, clientVars
  <2> QED
    BY <1>1, <2>1, EffectiveUnchanged
<1>2. ASSUME NEW c \in Clients, Invoke(c) PROVE Promise!Invoke(c)
  <2>1. call[c] = NoCall /\ UNCHANGED ecVars
    BY <1>2 DEF Invoke, InCall
  <2> QED
    BY <1>2, <2>1, EffectiveUnchanged
       DEF Invoke, Promise!Invoke, NoCall, Promise!NoCall, Requests, Promise!Requests
<1>3. ASSUME NEW c \in Clients, Lock(c) \/ Acquire(c) \/ Accepted(c)
      PROVE  UNCHANGED <<Effective, call>>
  BY <1>3, EffectiveUnchanged DEF Lock, Acquire, Accepted
<1>4. ASSUME NEW c \in Clients, PutCommand(c) \/ PutAddress(c)
      PROVE  UNCHANGED <<Effective, call>>
  BY <1>4, EffectiveUnchanged DEF PutCommand, PutAddress
<1>5. ASSUME NEW c \in Clients, AcquireTimeout(c) PROVE Promise!Fail(c)
  BY <1>5, EffectiveUnchanged
     DEF AcquireTimeout, InCall, Promise!Fail, Promise!Pending
<1>6. ASSUME NEW c \in Clients, Release(c) PROVE Promise!Return(c)
  BY <1>6, EffectiveUnchanged
     DEF Release, InCall, Promise!Return, Promise!NoCall, NoCall
<1>7. ASSUME NEW c \in Clients, PollTimeout(c) \/ PortFault(c)
      PROVE  Promise!Fail(c) \/ UNCHANGED <<Effective, call>>
  <2>1. pc[c] \in Talking /\ Retry(c) /\ UNCHANGED ecVars
    BY <1>7 DEF PollTimeout, Polling, PortFault, Talking
  <2>2. Effective' = Effective
    BY <2>1, EffectiveUnchanged
  <2>3. call[c].request # <<>> /\ call[c].reply = <<>>
    BY <2>1 DEF InCall, Talking
  <2> QED
    BY <2>1, <2>2, <2>3 DEF Retry, Promise!Fail, Promise!Pending
<1>8. ASSUME NEW c \in Clients, PutValue(c) PROVE Promise!Write(c)
  <2>1. Request(c).op = "write" /\ pending = <<"value", Request(c).reg>> /\ input = <<>>
    BY <1>8 DEF PutValue, Dialogue, DialogueOf
  <2>2. Effective = registers
    BY <2>1 DEF Effective
  <2>3. /\ input' = <<"data", Request(c).value>>
        /\ UNCHANGED <<registers, pending>>
        /\ call' = [call EXCEPT ![c].reply = <<"ok", Request(c).value>>]
    BY <1>8 DEF PutValue
  <2>4. Effective' = [registers EXCEPT ![Request(c).reg] = Request(c).value]
    BY <2>1, <2>3 DEF Effective
  <2>5. call[c].request # <<>> /\ call[c].reply = <<>>
    BY <1>8 DEF PutValue, InCall
  <2> QED
    BY <2>1, <2>2, <2>3, <2>4, <2>5 DEF Promise!Write, Promise!Pending, Request
<1>9. ASSUME NEW c \in Clients, GetAnswer(c) PROVE Promise!Read(c)
  <2>1. Request(c).op = "read" /\ input = <<>> /\ output = <<registers[Request(c).reg]>>
    BY <1>9 DEF GetAnswer, Dialogue, DialogueOf, Asked
  <2>2. Effective = registers /\ Effective' = Effective
    BY <1>9, <2>1, EffectiveUnchanged DEF Effective
  <2>3. call' = [call EXCEPT ![c].reply = <<"ok", registers[Request(c).reg]>>]
    BY <1>9, <2>1 DEF GetAnswer
  <2>4. call[c].request # <<>> /\ call[c].reply = <<>>
    BY <1>9 DEF GetAnswer, InCall
  <2> QED
    BY <2>1, <2>2, <2>3, <2>4 DEF Promise!Read, Promise!Pending, Request
<1>10. ASSUME NEW p \in Processes, Die(p)
       PROVE  \E S \in SUBSET Clients : Promise!End(S)
  <2> DEFINE gone == {c \in Clients : ProcessOf[c] = p}
  <2>1. /\ call' = [c \in Clients |-> IF c \in gone THEN NoCall ELSE call[c]]
        /\ UNCHANGED ecVars
    BY <1>10 DEF Die
  <2>2. Promise!End(gone)
    BY <2>1, EffectiveUnchanged DEF Promise!End, Promise!NoCall, NoCall
  <2> QED
    BY <2>2
<1>11. CASE UNCHANGED vars
  BY <1>11, EffectiveUnchanged DEF vars, clientVars
<1> QED
  BY <1>1, <1>2, <1>3, <1>4, <1>5, <1>6, <1>7, <1>8, <1>9, <1>10, <1>11
     DEF Next, Host, Promise!Next

\* read_byte and write_byte keep the promise of EcRegisters, for every number
\* of threads and processes that share the EC, whatever times out, is refused
\* or dies, with an EC that has its answer ready when it frees its input
\* buffer.  (Without that AtomicRegisters does not hold.)
THEOREM RegistersAreAtomic == ~LateAnswers => (Spec => AtomicRegisters)
<1> SUFFICES ASSUME ~LateAnswers PROVE Spec => AtomicRegisters
  OBVIOUS
<1>1. Init => Promise!Init
  BY DEF Init, Promise!Init, Effective, NoCall, Promise!NoCall
<1>2. EcInv /\ [Next]_vars => [Promise!Next]_Promise!vars
  BY AtomicStep
<1> QED
  BY <1>1, <1>2, InitInv, InvStep, PTL DEF Spec, AtomicRegisters, Promise!Spec
=============================================================================
