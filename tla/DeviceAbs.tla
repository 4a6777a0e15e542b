----------------------------- MODULE DeviceAbs -----------------------------
(***************************************************************************)
(* What a block device promises its callers: calls are answered one at a   *)
(* time in the order they were made, each with its own answer.             *)
(***************************************************************************)
EXTENDS Integers, Sequences

CONSTANTS
    Client,     \* the processes that call
    Call,       \* their requests: [op, offset, count]
    Blocks,     \* the size of the device
    EIO

VARIABLES
    calls,      \* the calls that wait, oldest first: [who, what]
    answer      \* the answer a caller has not returned with yet, or {}

absVars == <<calls, answer>>

(* The number of blocks read, and the block the caller finds in its buffer *)
(* then: the last one, because each is copied over the one before.         *)
Reply(c) ==
    IF c.op = "write" \/ c.offset + c.count > Blocks
      THEN {[result |-> EIO]}
      ELSE {[result |-> c.count, block |-> c.offset + c.count - 1]}

Waits(p) == \E i \in DOMAIN calls : calls[i].who = p

Init == calls = <<>> /\ answer = [p \in Client |-> {}]

Ask(p, c) ==
    /\ ~Waits(p) /\ answer[p] = {}
    /\ calls' = Append(calls, [who |-> p, what |-> c])
    /\ UNCHANGED answer

Serve ==
    /\ calls # <<>>
    /\ calls' = Tail(calls)
    /\ answer' = [answer EXCEPT ![Head(calls).who] = Reply(Head(calls).what)]

Return(p) ==
    /\ answer[p] # {}
    /\ answer' = [answer EXCEPT ![p] = {}]
    /\ UNCHANGED calls

Next ==
    \/ Serve
    \/ \E p \in Client : Return(p) \/ \E c \in Call : Ask(p, c)

Spec == Init /\ [][Next]_absVars
=============================================================================
