------------------------------- MODULE Alarms -------------------------------
(***************************************************************************)
(* Signal handlers and the sleeps they interrupt: sigaction.c and signal.c *)
(* of TCP-IP-NetworkNote/ch10 and of process/signal, and homework kehou5,  *)
(* which asks its user at each SIGINT whether to end.                      *)
(*                                                                         *)
(* sleep(100) is longer than any alarm.  The signal may come before the    *)
(* sleep() has begun: it then interrupts nothing.                          *)
(***************************************************************************)
EXTENDS Naturals, Sequences

CONSTANT MaxKeys    \* bound: how often Ctrl-C is pressed

I(op, handler) == [op |-> op, handler |-> handler]
Signal(h) == I("signal", h)     \* signal(SIGALRM, h), sigaction()
Alarm     == I("alarm", "none")
Sleep     == I("sleep", "none")
CallSaved == I("call", "none")  \* pSingal(66)
Again     == I("again", "none") \* while (1)

(* "rearms": the handlers call alarm().  "keys": SIGINT has a handler too. *)
Program(calls, rearms, keys) == [calls |-> calls, rearms |-> rearms, keys |-> keys]

sigaction == Program(<<Signal("timeout"), Alarm, Sleep, Sleep, Sleep>>, TRUE, FALSE)
signal    == Program(<<Signal("timeout"), Alarm, Sleep, Sleep, Sleep>>, TRUE, TRUE)
process_sigaction == Program(<<Signal("timeout"), Alarm, Sleep>>, FALSE, FALSE)
(* test02(), the one that main() calls, and test01(). *)
process_signal ==
    Program(<<Signal("timeout01"), Alarm, Sleep, Signal("timeout02"), Alarm, Sleep, CallSaved, Sleep>>, TRUE, FALSE)
process_signal_test01 == signal
kehou5    == Program(<<Sleep, Again>>, FALSE, TRUE)

Programs == {sigaction, signal, process_sigaction, process_signal, kehou5}

VARIABLES
    prog,
    at,         \* calls made
    asleep,     \* in sleep()
    handler,    \* of SIGALRM
    saved,      \* what the last signal() returned
    armed,      \* an alarm is set
    due,        \* SIGALRM is pending
    keys,       \* times Ctrl-C was pressed
    asks,       \* kehou5: where its handler is, "no" or "asking"
    stdin,      \* kehou5: what the user has typed and nobody has read
    replies,    \* kehou5: the user's answers so far
    early,      \* history: a signal came while the program did not sleep
    full,       \* history: sleeps that nothing has interrupted
    called      \* history: handlers called through pSingal

vars == <<prog, at, asleep, handler, saved, armed, due, keys, asks, stdin, replies, early, full, called>>

Init ==
    /\ prog \in Programs
    /\ at = 0
    /\ asleep = FALSE
    /\ handler = "default" /\ saved = "default"
    /\ armed = FALSE /\ due = FALSE
    /\ keys = 0
    /\ asks = "no"
    /\ stdin = << >>
    /\ replies = << >>
    /\ early = FALSE
    /\ full = 0
    /\ called = {}

Over == at = Len(prog.calls)
At(op) == ~Over /\ asks = "no" /\ prog.calls[at + 1].op = op
askVars == <<keys, asks, stdin, replies>>

-----------------------------------------------------------------------------
DoSignal ==
    /\ At("signal")
    /\ handler' = prog.calls[at + 1].handler
    /\ saved' = handler
    /\ at' = at + 1
    /\ UNCHANGED <<prog, asleep, armed, due, askVars, early, full, called>>

(* alarm() sets the timer anew. *)
DoAlarm ==
    /\ At("alarm")
    /\ armed' = TRUE
    /\ at' = at + 1
    /\ UNCHANGED <<prog, asleep, handler, saved, due, askVars, early, full, called>>

FallAsleep ==
    /\ At("sleep") /\ ~asleep
    /\ asleep' = TRUE
    /\ UNCHANGED <<prog, at, handler, saved, armed, due, askVars, early, full, called>>

(* The 100 seconds are over before an alarm only if none is to come. *)
SleepOver ==
    /\ At("sleep") /\ asleep
    /\ ~armed /\ ~due
    /\ asleep' = FALSE
    /\ at' = at + 1
    /\ full' = full + 1
    /\ prog # kehou5
    /\ UNCHANGED <<prog, handler, saved, armed, due, askVars, early, called>>

(* kehou5: sleep(1), a line, and again. *)
Loop ==
    /\ prog = kehou5 /\ asleep /\ asks = "no"
    /\ asleep' = FALSE
    /\ UNCHANGED <<prog, at, handler, saved, armed, due, askVars, early, full, called>>

(* The handler that signal() returned is called like any function. *)
DoCall ==
    /\ At("call")
    /\ called' = called \cup {saved}
    /\ armed' = (armed \/ prog.rearms)
    /\ at' = at + 1
    /\ UNCHANGED <<prog, asleep, handler, saved, due, askVars, early, full>>

Expire ==
    /\ armed
    /\ armed' = FALSE
    /\ due' = TRUE
    /\ UNCHANGED <<prog, at, asleep, handler, saved, askVars, early, full, called>>

(* A signal's handler has run; the sleep it interrupted is over. *)
Interrupts ==
    /\ asleep' = FALSE
    /\ at' = IF asleep THEN at + 1 ELSE at
    /\ early' = (early \/ ~asleep)

(* Mutant of HandleAlarm: the handler does not set the next alarm. *)
HandleAlarmOnce ==
    /\ due /\ ~Over
    /\ due' = FALSE
    /\ Interrupts
    /\ UNCHANGED <<prog, handler, saved, armed, askVars, full, called>>

HandleAlarm ==
    /\ due /\ ~Over
    /\ due' = FALSE
    /\ armed' = (armed \/ prog.rearms)
    /\ Interrupts
    /\ UNCHANGED <<prog, handler, saved, askVars, full, called>>

(* Ctrl-C: keycontrol(). *)
HandleKey ==
    /\ prog.keys /\ prog # kehou5 /\ ~Over /\ at > 0
    /\ keys < MaxKeys
    /\ keys' = keys + 1
    /\ Interrupts
    /\ UNCHANGED <<prog, handler, saved, armed, due, asks, stdin, replies, full, called>>

(* Ctrl-C in kehou5: ctrl_handling() asks. *)
Ask ==
    /\ prog = kehou5 /\ ~Over /\ asks = "no"
    /\ keys < MaxKeys
    /\ keys' = keys + 1
    /\ asks' = "asking"
    /\ UNCHANGED <<prog, at, asleep, handler, saved, armed, due, stdin, replies, early, full, called>>

(* The user answers with a letter and the return key. *)
Answer(letter) ==
    /\ asks = "asking" /\ stdin = << >>
    /\ replies' = Append(replies, letter)
    /\ stdin' = <<letter, "newline">>
    /\ UNCHANGED <<prog, at, asleep, handler, saved, armed, due, keys, asks, early, full, called>>

(* scanf("%c"): one character, which may be the newline left from before. *)
ReadAnswer ==
    /\ asks = "asking" /\ stdin # << >>
    /\ stdin' = Tail(stdin)
    /\ asks' = "no"
    /\ asleep' = FALSE
    /\ at' = IF Head(stdin) = "y" THEN Len(prog.calls) ELSE at
    /\ UNCHANGED <<prog, handler, saved, armed, due, keys, replies, early, full, called>>

Calls == DoSignal \/ DoAlarm \/ FallAsleep \/ SleepOver \/ Loop \/ DoCall \/ ReadAnswer

User == HandleKey \/ Ask \/ \E letter \in {"y", "n"} : Answer(letter)

Next == Calls \/ HandleAlarm \/ Expire \/ User

(* The program runs on, and alarms go off and interrupt it. *)
Fairness == WF_vars(Calls) /\ WF_vars(HandleAlarm) /\ WF_vars(Expire)

Spec == Init /\ [][Next]_vars /\ Fairness

-----------------------------------------------------------------------------
(***************************************************************************)
(* The programs whose handlers set the next alarm never sleep 100 seconds, *)
(* even if a signal comes between two sleeps; the one that does not, only  *)
(* if it was too late for the first.  What pSingal(66) calls is timeout01, *)
(* the handler before.  In kehou5 every question after a "no" is answered  *)
(* by the newline of that "no": the k-th answer is read at question 2k-1.  *)
(***************************************************************************)
SleepsInterrupted ==
    /\ full > 0 => ~prog.rearms /\ early
    /\ called \subseteq {"timeout01"}
    /\ prog = kehou5 /\ (Over \/ asks = "no") =>
          /\ replies # << >> => keys \in {2 * Len(replies) - 1, 2 * Len(replies)}
          /\ Over => replies[Len(replies)] = "y" /\ keys = 2 * Len(replies) - 1

(* All but kehou5, which its user ends, come to an end. *)
Ended == Over \/ prog = kehou5

AlarmsEnd == <>Ended
=============================================================================
