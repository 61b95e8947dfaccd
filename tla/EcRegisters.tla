---------------------------- MODULE EcRegisters ----------------------------
(***************************************************************************)
(* What read_byte and write_byte promise their callers: a register file in *)
(* which every call either takes effect at one instant between call and    *)
(* return or fails without any effect.  FanControl is written against this *)
(* promise: one register access there is one step.                         *)
(***************************************************************************)
CONSTANTS Clients,    \* threads that call read_byte and write_byte
          Registers,  \* EC registers that clients write
          Values      \* bytes they hold

VARIABLES reg,     \* the register file
          call     \* what each client is calling, and the reply it has got

Requests == [op : {"read"}, reg : Registers] \cup
            [op : {"write"}, reg : Registers, value : Values]

NoCall == [request |-> <<>>, reply |-> <<>>]
Pending(c) == call[c].request # <<>> /\ call[c].reply = <<>>

Init ==
    /\ reg \in [Registers -> Values]
    /\ call = [c \in Clients |-> NoCall]

Invoke(c) ==
    /\ call[c] = NoCall
    /\ \E k \in Requests : call' = [call EXCEPT ![c].request = <<k>>]
    /\ UNCHANGED reg

Read(c) ==
    /\ Pending(c)
    /\ call[c].request[1].op = "read"
    /\ call' = [call EXCEPT ![c].reply = <<"ok", reg[call[c].request[1].reg]>>]
    /\ UNCHANGED reg

Write(c) ==
    /\ Pending(c)
    /\ LET k == call[c].request[1] IN
        /\ k.op = "write"
        /\ reg' = [reg EXCEPT ![k.reg] = k.value]
        /\ call' = [call EXCEPT ![c].reply = <<"ok", k.value>>]

Fail(c) ==
    /\ Pending(c)
    /\ call' = [call EXCEPT ![c].reply = <<"failed">>]
    /\ UNCHANGED reg

Return(c) ==
    /\ call[c].reply # <<>>
    /\ call' = [call EXCEPT ![c] = NoCall]
    /\ UNCHANGED reg

\* The threads of a process end, and the calls they were in with them.
End(S) ==
    /\ call' = [c \in Clients |-> IF c \in S THEN NoCall ELSE call[c]]
    /\ UNCHANGED reg

Next ==
    \/ \E c \in Clients : Invoke(c) \/ Read(c) \/ Write(c) \/ Fail(c) \/ Return(c)
    \/ \E S \in SUBSET Clients : End(S)

vars == <<reg, call>>
Spec == Init /\ [][Next]_vars
=============================================================================
