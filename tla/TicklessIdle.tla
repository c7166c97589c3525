----------------------------- MODULE TicklessIdle -----------------------------
(***************************************************************************)
(* vPortSuppressTicksAndSleep of shim_freertos/hooks.c: the tickless idle  *)
(* hook FreeRTOS calls from its idle task with the time until the next     *)
(* task unblocks.  It sleeps through the mmhal sleep interface, in as many *)
(* rounds as the HAL needs, and steps the tick count by what a deep sleep  *)
(* (one that stops the SysTick) took.                                      *)
(*                                                                         *)
(* The mmhal sleep functions and eTaskConfirmSleepModeStatus are outside   *)
(* the repository, so each round of the loop is driven by an answer: the   *)
(* state mmhal_sleep_prepare returns, whether the first and the second     *)
(* eTaskConfirmSleepModeStatus say eAbortSleep, and the milliseconds       *)
(* mmhal_sleep reports.  The result is the trace of calls the hook makes   *)
(* on the HAL and on the kernel, in order.                                 *)
(***************************************************************************)
EXTENDS Integers, Sequences

\* enum mmhal_sleep_state
MMHAL_SLEEP_DISABLED == "disabled"
MMHAL_SLEEP_SHALLOW == "shallow"
MMHAL_SLEEP_DEEP == "deep"

SleepStates == {MMHAL_SLEEP_DISABLED, MMHAL_SLEEP_SHALLOW, MMHAL_SLEEP_DEEP}

\* the calls of one round, as trace entries
Prepare(ms, state) == [op |-> "prepare", arg |-> ms, state |-> state]
Sleep(ms, slept) == [op |-> "sleep", arg |-> ms, slept |-> slept]
StepTick(ms) == [op |-> "step", ticks |-> ms]
Abort == [op |-> "abort"]
Cleanup == [op |-> "cleanup"]

\* the hook's end: its trace, and whether the loop finished before the
\* answers ran out
Return(trace, done) == [trace |-> trace, done |-> done]

(* Mutant (with SleepWholeTime below): every round asks mmhal_sleep for   *)
(* the whole expected time, not for what is left of it.                   *)
RECURSIVE SleepWholeTimeFrom(_, _, _, _)
SleepWholeTimeFrom(expected_idle_time_ms, elapsed_ms, answers, trace) ==
    IF elapsed_ms >= expected_idle_time_ms THEN Return(trace, TRUE)
    ELSE IF answers = <<>> THEN Return(trace, FALSE)
    ELSE
    LET a == Head(answers)
        t1 == trace \o <<Prepare(expected_idle_time_ms - elapsed_ms, a.state)>>
        t2 == t1 \o <<Sleep(expected_idle_time_ms, a.slept)>>
                 \o (IF a.state = MMHAL_SLEEP_DEEP THEN <<StepTick(a.slept)>> ELSE <<>>)
    IN  CASE a.state = MMHAL_SLEEP_DISABLED -> Return(t1, TRUE)
          [] a.abort1 -> Return(t1 \o <<Abort>>, TRUE)
          [] a.abort2 -> Return(t2 \o <<Abort>>, TRUE)
          [] OTHER -> SleepWholeTimeFrom(expected_idle_time_ms, elapsed_ms + a.slept,
                                     Tail(answers), t2 \o <<Cleanup>>)

(* Mutant (with AbortUnclosed below): the abort before sleeping returns   *)
(* without mmhal_sleep_abort.                                              *)
RECURSIVE AbortUnclosedFrom(_, _, _, _)
AbortUnclosedFrom(expected_idle_time_ms, elapsed_ms, answers, trace) ==
    IF elapsed_ms >= expected_idle_time_ms THEN Return(trace, TRUE)
    ELSE IF answers = <<>> THEN Return(trace, FALSE)
    ELSE
    LET a == Head(answers)
        remaining == expected_idle_time_ms - elapsed_ms
        t1 == trace \o <<Prepare(remaining, a.state)>>
        t2 == t1 \o <<Sleep(remaining, a.slept)>>
                 \o (IF a.state = MMHAL_SLEEP_DEEP THEN <<StepTick(a.slept)>> ELSE <<>>)
    IN  CASE a.state = MMHAL_SLEEP_DISABLED -> Return(t1, TRUE)
          [] a.abort1 -> Return(t1, TRUE)
          [] a.abort2 -> Return(t2 \o <<Abort>>, TRUE)
          [] OTHER -> AbortUnclosedFrom(expected_idle_time_ms, elapsed_ms + a.slept,
                                    Tail(answers), t2 \o <<Cleanup>>)

(***************************************************************************)
(* One pass of the while loop from elapsed_ms: prepare for the time left;  *)
(* DISABLED returns at once; an abort before sleeping is undone with       *)
(* mmhal_sleep_abort; otherwise sleep for the time left, step the tick by  *)
(* what a deep sleep reports, then either abort or clean up and go round.  *)
(* elapsed_ms and the answers stay far below 2^32, so the uint32 sums and *)
(* differences are exact.                                                  *)
(***************************************************************************)
RECURSIVE SuppressTicksFrom(_, _, _, _)
SuppressTicksFrom(expected_idle_time_ms, elapsed_ms, answers, trace) ==
    IF elapsed_ms >= expected_idle_time_ms THEN Return(trace, TRUE)
    ELSE IF answers = <<>> THEN Return(trace, FALSE)
    ELSE
    LET a == Head(answers)
        remaining == expected_idle_time_ms - elapsed_ms
        t1 == trace \o <<Prepare(remaining, a.state)>>
        t2 == t1 \o <<Sleep(remaining, a.slept)>>
                 \o (IF a.state = MMHAL_SLEEP_DEEP THEN <<StepTick(a.slept)>> ELSE <<>>)
    IN  CASE a.state = MMHAL_SLEEP_DISABLED -> Return(t1, TRUE)
          [] a.abort1 -> Return(t1 \o <<Abort>>, TRUE)
          [] a.abort2 -> Return(t2 \o <<Abort>>, TRUE)
          [] OTHER -> SuppressTicksFrom(expected_idle_time_ms, elapsed_ms + a.slept,
                                        Tail(answers), t2 \o <<Cleanup>>)

SleepWholeTime(expected_idle_time_ms, answers) ==
    SleepWholeTimeFrom(expected_idle_time_ms, 0, answers, <<>>)

AbortUnclosed(expected_idle_time_ms, answers) ==
    AbortUnclosedFrom(expected_idle_time_ms, 0, answers, <<>>)

\* the hook, from elapsed_ms = 0
vPortSuppressTicksAndSleep(expected_idle_time_ms, answers) ==
    SuppressTicksFrom(expected_idle_time_ms, 0, answers, <<>>)
=============================================================================
