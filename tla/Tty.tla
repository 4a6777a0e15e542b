-------------------------------- MODULE Tty --------------------------------
(***************************************************************************)
(* A tty of drivers/tty/tty.c: processes read lines and write through its  *)
(* request queue, which the kernel worker serves one character at a time,  *)
(* and kputc writes to the same tty from wherever the kernel has something *)
(* to say.  CNLRET is set.                                                 *)
(*                                                                         *)
(* tty_writeb is one step; the two rings of the usart below are sequences  *)
(* that may be full (module UsartRing), and of the transmitted bytes only  *)
(* the number is kept.  A request is put on the queue in the step that     *)
(* blocks its caller (DeviceIO has the two apart); the worker answers it in *)
(* three, between which others run.  Nobody is reaped: the request of a    *)
(* dead process is on its kernel stack, which nobody else gets.            *)
(***************************************************************************)
EXTENDS Integers, Sequences

CONSTANTS
    Process,            \* callers of device_read and device_write
    Nobody,
    Key,                \* the keys that are typed
    Char,               \* the characters that are written, LF and others
    NoChar,
    Texts,              \* what is written, sequences of characters
    Counts,             \* the sizes that are read
    RxMax, TxMax,       \* the room of the two rings
    MaxKeys, MaxCalls,  \* bounds on the keys typed and the calls made
    MaxPuts             \* bound on the characters given to kputc

ASSUME TtyAssumption ==
    /\ Nobody \notin Process \cup {"worker", "kputc"}
    /\ {RxMax, TxMax, MaxKeys, MaxCalls, MaxPuts} \subseteq Nat
    /\ NoChar \notin Char \cup {"LF"}
    /\ Texts \subseteq Seq(Char)
    /\ Counts \subseteq Nat

VARIABLES
    rx, tx,             \* the keys received, the number of bytes to transmit
    queue,              \* io_queue, the requests
    copied,             \* bytes_copied
    worker,             \* where it is: in tty_update, in the loop of tty_read
                        \* for a newline, or in device_finish_request
    popped,             \* whom waiter_pop has given it to wake
    late,               \* history: and who was killed since
    fg,                 \* fg_pgrp
    nl,                 \* who has set TTY_S_NL
    state,              \* of a process: "user", "blocked", "zombie"
    put,                \* the character kputc is called with
    out,                \* history: the bytes since the last complete character
    garbled,            \* history: a character became something else
    mixed,              \* history: two writers had a newline in the works
    keys, calls, puts   \* history: how much there was of each

usart == <<rx, tx>>
bounds == <<keys, calls, puts>>
answer == <<popped, late>>
vars == <<usart, queue, copied, worker, answer, fg, nl, state, put, out,
          garbled, mixed, bounds>>

Writer == {"worker", "kputc"}

TypeOK ==
    /\ rx \in Seq(Key) /\ Len(rx) <= RxMax /\ tx \in 0..TxMax
    /\ \A i \in DOMAIN queue :
          /\ queue[i].waiter \in Process \cup {Nobody}
          /\ queue[i].write \in BOOLEAN
    /\ Len(queue) <= MaxCalls
    /\ copied \in Nat
    /\ worker \in {"update", "newline", "finish", "wake", "dequeue"}
    /\ popped \in Process \cup {Nobody} /\ late \in BOOLEAN
    /\ fg \in Process \cup {Nobody}
    /\ nl \in Writer \cup {Nobody}
    /\ state \in [Process -> {"user", "blocked", "zombie"}]
    /\ mixed \in BOOLEAN /\ garbled \in BOOLEAN

(* tty_create.  The foreground group is 0, the worker, which takes no      *)
(* SIGKILL.                                                                *)
Init ==
    /\ rx = <<>> /\ tx = 0 /\ queue = <<>> /\ copied = 0
    /\ worker = "update" /\ popped = Nobody /\ late = FALSE
    /\ fg = Nobody /\ nl = Nobody
    /\ state = [p \in Process |-> "user"]
    /\ put = NoChar /\ out = <<>> /\ garbled = FALSE /\ mixed = FALSE
    /\ keys = 0 /\ calls = 0 /\ puts = 0

-----------------------------------------------------------------------------

Full == tx = TxMax

(* What a character is on the line. *)
Expansion(c) == IF c = "LF" THEN <<"CR", "LF">> ELSE <<c>>

(* The writer's writeb takes the byte b, and c, if there is one, is done. *)
Emit(b, c) ==
    /\ tx' = tx + 1
    /\ IF c = NoChar THEN out' = Append(out, b) /\ UNCHANGED garbled
       ELSE /\ out' = <<>>
            /\ garbled' = (garbled \/ Append(out, b) # Expansion(c))

(* A mutated WriteB: TTY_S_NL is never reset. *)
WriteBForgets(who, c) ==
    /\ ~Full
    /\ mixed' = (mixed \/ (nl # Nobody /\ (nl # who \/ c # "LF")))
    /\ \/ nl # Nobody /\ Emit("LF", c) /\ UNCHANGED nl
       \/ nl = Nobody /\ c = "LF" /\ Emit("CR", NoChar) /\ nl' = who
       \/ nl = Nobody /\ c # "LF" /\ Emit(c, c) /\ UNCHANGED nl

(* A mutated WriteB: TTY_S_NL is never looked at. *)
WriteBStartsOver(who, c) ==
    /\ ~Full
    /\ UNCHANGED mixed
    /\ IF c # "LF" THEN Emit(c, c) /\ UNCHANGED nl
       ELSE tx' = tx + 1 /\ out' = <<"CR">> /\ nl' = who /\ UNCHANGED garbled

(* tty_writeb, when there is room: a newline takes two calls, of which the *)
(* first one fails.  It is not a step without room.                        *)
WriteB(who, c) ==
    /\ ~Full
    /\ mixed' = (mixed \/ (nl # Nobody /\ (nl # who \/ c # "LF")))
    /\ \/ nl # Nobody /\ Emit("LF", c) /\ nl' = Nobody
       \/ nl = Nobody /\ c = "LF" /\ Emit("CR", NoChar) /\ nl' = who
       \/ nl = Nobody /\ c # "LF" /\ Emit(c, c) /\ UNCHANGED nl

(* It has returned 0. *)
Written == out' = <<>>

(* A mutated Echo: what does not fit is written all the same. *)
EchoBlind(bytes) ==
    /\ tx' = tx + Len(bytes)
    /\ UNCHANGED <<nl, out, garbled, mixed>>

(* tty_read writes its bytes straight to the usart, and does not mind if   *)
(* that is full: TTY_S_NL is not looked at.                                *)
Echo(bytes) ==
    LET n == IF TxMax - tx < Len(bytes) THEN TxMax - tx ELSE Len(bytes)
    IN  /\ tx' = tx + n
        /\ mixed' = (mixed \/ (nl # Nobody /\ n > 0))
        /\ UNCHANGED <<nl, out, garbled>>

-----------------------------------------------------------------------------

(* device_read and device_write: p waits for the end of its request. *)
Request(p, write, text, count) ==
    /\ state[p] = "user" /\ calls < MaxCalls
    /\ queue' = Append(queue, [waiter |-> p, write |-> write,
                               text |-> text, count |-> count])
    /\ state' = [state EXCEPT ![p] = "blocked"]
    /\ calls' = calls + 1
    /\ UNCHANGED <<usart, copied, worker, answer, fg, nl, put, out, garbled,
                   mixed, keys, puts>>

(* ioctl(IOCTL_TTY_SETFGGRP) *)
SetForeground(p, q) ==
    /\ state[p] = "user"
    /\ fg' = q
    /\ UNCHANGED <<usart, queue, copied, worker, answer, nl, state, put, out,
                   garbled, mixed, bounds>>

(* proc_mark_zombie takes p off the waiter of its request, which stays. *)
Abandoned(p, q) ==
    [i \in DOMAIN q |->
        IF q[i].waiter = p THEN [q[i] EXCEPT !.waiter = Nobody] ELSE q[i]]

Dead(p) == [q \in Process |-> IF q = p THEN "zombie" ELSE state[q]]

(* p is killed by another process, also when the worker has popped it. *)
Killed(p) ==
    /\ state[p] # "zombie"
    /\ state' = Dead(p)
    /\ queue' = Abandoned(p, queue)
    /\ late' = (late \/ popped = p)
    /\ UNCHANGED <<usart, copied, worker, popped, fg, nl, put, out, garbled,
                   mixed, bounds>>

(* device_finish_request pops the waiter of the request.                   *)
Finish ==
    /\ worker = "finish"
    /\ popped' = Head(queue).waiter
    /\ queue' = [queue EXCEPT ![1].waiter = Nobody]
    /\ worker' = IF popped' = Nobody THEN "dequeue" ELSE "wake"
    /\ UNCHANGED <<usart, copied, late, fg, nl, state, put, out, garbled,
                   mixed, bounds>>

(* It makes who was popped READY, whatever it is by now.                   *)
Wake ==
    /\ worker = "wake"
    /\ state' = [state EXCEPT ![popped] = "user"]
    /\ popped' = Nobody /\ late' = FALSE
    /\ worker' = "dequeue"
    /\ UNCHANGED <<usart, queue, copied, fg, nl, put, out, garbled, mixed,
                   bounds>>

(* A mutated Dequeue: the next request goes on where this one has stopped. *)
DequeueKeepsCopied ==
    /\ worker = "dequeue"
    /\ queue' = Tail(queue)
    /\ worker' = "update"
    /\ UNCHANGED <<usart, copied, answer, fg, nl, state, put, out, garbled,
                   mixed, bounds>>

(* The rest of device_finish_request, and its callers reset bytes_copied.  *)
Dequeue ==
    /\ worker = "dequeue"
    /\ queue' = Tail(queue) /\ copied' = 0
    /\ worker' = "update"
    /\ UNCHANGED <<usart, answer, fg, nl, state, put, out, garbled, mixed,
                   bounds>>

(* tty_write *)
Write ==
    LET r == Head(queue)
        c == r.text[copied + 1]
    IN  /\ worker = "update" /\ queue # <<>> /\ r.write /\ copied < r.count
        /\ WriteB("worker", c)
        /\ copied' = IF Written THEN copied + 1 ELSE copied
        /\ worker' = IF copied' = r.count THEN "finish" ELSE "update"
        /\ UNCHANGED <<rx, queue, answer, fg, state, put, bounds>>

(* It has nothing to write. *)
WriteNothing ==
    /\ worker = "update" /\ queue # <<>>
    /\ Head(queue).write /\ Head(queue).count = 0
    /\ worker' = "finish"
    /\ UNCHANGED <<usart, queue, copied, answer, fg, nl, state, put, out,
                   garbled, mixed, bounds>>

(* tty_read takes the next key. *)
Reads(k) ==
    /\ worker = "update" /\ queue # <<>> /\ ~Head(queue).write
    /\ rx # <<>> /\ Head(rx) = k
    /\ rx' = Tail(rx)

(* An ordinary character.  One that is read for 0 bytes is not the last.   *)
ReadChar(k) ==
    /\ Reads(k) /\ k \notin {"BS", "DEL", "LF", "^D", "^C"}
    /\ Echo(<<k>>)
    /\ copied' = copied + 1
    /\ worker' = IF copied' = Head(queue).count THEN "finish" ELSE "update"
    /\ UNCHANGED <<queue, answer, fg, state, put, bounds>>

ReadBackspace(k) ==
    /\ Reads(k) /\ k \in {"BS", "DEL"}
    /\ IF copied = 0 THEN UNCHANGED <<tx, nl, out, garbled, mixed, copied>>
       ELSE Echo(<<"BS", "SP", "BS">>) /\ copied' = copied - 1
    /\ UNCHANGED <<queue, worker, answer, fg, state, put, bounds>>

ReadNewline ==
    /\ Reads("LF")
    /\ copied' = copied + 1
    /\ worker' = "newline"
    /\ UNCHANGED <<tx, queue, answer, fg, nl, state, put, out, garbled, mixed,
                   bounds>>

(* It is echoed in a loop until tty_writeb has done both of its bytes. *)
EchoNewline ==
    /\ worker = "newline"
    /\ WriteB("worker", "LF")
    /\ worker' = IF Written THEN "finish" ELSE "newline"
    /\ UNCHANGED <<rx, queue, copied, answer, fg, state, put, bounds>>

ReadEnd ==
    /\ Reads("^D")
    /\ worker' = "finish"
    /\ UNCHANGED <<tx, queue, copied, answer, fg, nl, state, put, out, garbled,
                   mixed, bounds>>

(* A mutated ReadInterrupt: the dead process is left on its request. *)
InterruptOnly ==
    /\ Reads("^C")
    /\ state' = Dead(fg)
    /\ worker' = "finish"
    /\ UNCHANGED <<tx, queue, copied, answer, fg, nl, put, out, garbled, mixed,
                   bounds>>

(* proc_kill(fg_pgrp), then the end of the request. *)
ReadInterrupt ==
    /\ Reads("^C")
    /\ state' = Dead(fg) /\ queue' = Abandoned(fg, queue)
    /\ worker' = "finish"
    /\ UNCHANGED <<tx, copied, answer, fg, nl, put, out, garbled, mixed, bounds>>

Work == \/ Write \/ WriteNothing \/ EchoNewline \/ ReadNewline \/ ReadEnd
        \/ ReadInterrupt \/ Finish \/ Wake \/ Dequeue
        \/ \E k \in Key : ReadChar(k) \/ ReadBackspace(k)

-----------------------------------------------------------------------------

(* kputc *)
Put(c) ==
    /\ put = NoChar /\ puts < MaxPuts
    /\ put' = c /\ puts' = puts + 1
    /\ UNCHANGED <<usart, queue, copied, worker, answer, fg, nl, state, out,
                   garbled, mixed, keys, calls>>

(* Its loop, until tty_writeb returns 0. *)
PutLoop ==
    /\ put # NoChar
    /\ WriteB("kputc", put)
    /\ put' = IF Written THEN NoChar ELSE put
    /\ UNCHANGED <<rx, queue, copied, worker, answer, fg, state, bounds>>

(* The two interrupts of the usart.  A key too many is lost with all that  *)
(* were in the ring: it makes the head meet the tail.                      *)
Type(k) ==
    /\ keys < MaxKeys /\ keys' = keys + 1
    /\ rx' = IF Len(rx) < RxMax THEN Append(rx, k) ELSE <<>>
    /\ UNCHANGED <<tx, queue, copied, worker, answer, fg, nl, state, put, out,
                   garbled, mixed, calls, puts>>

Transmit ==
    /\ tx > 0 /\ tx' = tx - 1
    /\ UNCHANGED <<rx, queue, copied, worker, answer, fg, nl, state, put, out,
                   garbled, mixed, bounds>>

Next ==
    \/ \E p \in Process :
          \/ \E text \in Texts : Request(p, TRUE, text, Len(text))
          \/ \E n \in Counts : Request(p, FALSE, <<>>, n)
          \/ \E q \in Process : SetForeground(p, q)
          \/ Killed(p)
    \/ Work
    \/ \E c \in Char : Put(c)
    \/ PutLoop
    \/ \E k \in Key : Type(k)
    \/ Transmit

(* The worker runs again and again, the usart interrupts as long as it has *)
(* something to transmit, and the loop of kputc goes on.                   *)
Fairness == WF_vars(Work) /\ WF_vars(PutLoop) /\ WF_vars(Transmit)

Spec == Init /\ [][Next]_vars /\ Fairness

-----------------------------------------------------------------------------

(* Every character is transmitted as itself, and every newline as CR LF,   *)
(* once, however often the usart is full in between, unless kputc and the  *)
(* worker each have one in the works.                                      *)
OutputIsExpansion ==
    ~mixed =>
        /\ out = IF nl = Nobody THEN <<>> ELSE <<"CR">>
        /\ ~garbled

(* There is room in the caller's buffer for the next character, and for    *)
(* the newline that ends it: bytes_copied counts for one request at a time.*)
(* A request of 0 bytes is left out: tty_read writes past its end.         *)
BufferFits ==
    (queue # <<>> /\ Head(queue).count > 0) =>
        IF worker = "update" THEN copied < Head(queue).count
                             ELSE copied <= Head(queue).count

(* Nobody is made READY after its death, though its request lives on, but  *)
(* who was killed between waiter_pop and proc_unblock_process.             *)
KilledStaysDead ==
    [][\A p \in Process :
          state[p] = "zombie" /\ ~(late /\ popped = p)
              => state'[p] = "zombie"]_vars

(* What is at the head of the queue to be written is written, whether its  *)
(* process lives or not and whatever kputc writes meanwhile, and kputc     *)
(* returns: no refused byte makes the worker, or kputc, wait for itself.   *)
OutputEnds ==
    /\ \A n \in 0..MaxCalls :
          (queue # <<>> /\ Head(queue).write /\ Len(queue) + n = calls)
              ~> (Len(queue) + n # calls)
    /\ (put # NoChar) ~> (put = NoChar)
=============================================================================
