---------------------------- MODULE ConfigRegister ----------------------------
(***************************************************************************)
(* What the gateway's configuration store promises its callers: a register *)
(* that is read and modified by several of them at once.  A read returns   *)
(* what the register has held at some time while it was under way, and a   *)
(* modification takes effect all at once, on what the register then holds. *)
(* When the application dies, a call under way has taken effect or has not.*)
(***************************************************************************)
CONSTANTS Clients

\* A content is the set of settings that are switched on; a client switches its own.
Contents == SUBSET Clients
Edited(content, c) == IF c \in content THEN content \ {c} ELSE content \cup {c}

VARIABLES value, calls

vars == <<value, calls>>

\* A call is none, a read or a modification under way, one that has failed or one
\* with its answer.
CallStates == [pc : {"idle", "reading", "modifying", "failed", "done"},
               may : SUBSET Contents, answer : Contents]
Call(pc, may, answer) == [pc |-> pc, may |-> may, answer |-> answer]
IdleCall == Call("idle", {}, {})

Init == value \in Contents /\ calls = [c \in Clients |-> IdleCall]

\* A new value is one that the reads under way may return.
Seen(new) == [c \in Clients |->
    IF calls[c].pc = "reading"
    THEN Call("reading", calls[c].may \cup {new}, calls[c].answer) ELSE calls[c]]
Answers(content) == Call("done", {}, content)

BeginRead(c) ==
    /\ calls[c].pc = "idle"
    /\ calls' = [calls EXCEPT ![c] = Call("reading", {value}, {})]
    /\ UNCHANGED value

EndRead(c) ==
    /\ calls[c].pc = "reading"
    /\ \E content \in calls[c].may : calls' = [calls EXCEPT ![c] = Answers(content)]
    /\ UNCHANGED value

BeginModify(c) ==
    /\ calls[c].pc = "idle"
    /\ calls' = [calls EXCEPT ![c] = Call("modifying", {}, {})]
    /\ UNCHANGED value

Modify(c) ==
    /\ calls[c].pc = "modifying"
    /\ value' = Edited(value, c)
    /\ calls' = [Seen(value') EXCEPT ![c] = Answers(value')]

\* A modification that finds nothing to change, or that fails, changes nothing.
ModifyNothing(c) ==
    /\ calls[c].pc = "modifying"
    /\ calls' = [calls EXCEPT ![c] = Answers(value)]
    /\ UNCHANGED value

Fail(c) ==
    /\ calls[c].pc = "modifying"
    /\ calls' = [calls EXCEPT ![c] = Call("failed", {}, {})]
    /\ UNCHANGED value

Return(c) ==
    /\ calls[c].pc \in {"failed", "done"}
    /\ calls' = [calls EXCEPT ![c] = IdleCall]
    /\ UNCHANGED value

\* Somebody else changes the register, while no modification is under way.
Outside ==
    /\ \A c \in Clients : calls[c].pc # "modifying"
    /\ value' \in Contents
    /\ calls' = Seen(value')

Crash == calls' = [c \in Clients |-> IdleCall] /\ UNCHANGED value

Next ==
    \/ Outside \/ Crash
    \/ \E c \in Clients :
        \/ BeginRead(c) \/ EndRead(c) \/ BeginModify(c) \/ Modify(c)
        \/ ModifyNothing(c) \/ Fail(c) \/ Return(c)

Spec == Init /\ [][Next]_vars
=============================================================================
