------------------------------ MODULE Terminal ------------------------------
(***************************************************************************)
(* The web terminal of the EKH05 demo: the ping task prints every line     *)
(* with dual_print (src/Example/EKH05-Demo/demo_ping.c), which appends it  *)
(* to http_terminal_buffer (shared_buffer.c); the tcpip thread dumps and   *)
(* clears the buffer in rest_ep_get_terminal, clears it and wakes the ping *)
(* task in cgi_set_ping_start, and sets break_ping in                      *)
(* rest_ep_stop_operation (http.c).                                        *)
(*                                                                         *)
(* A line is abstracted to the length vsnprintf produced.  Of the buffer   *)
(* the model keeps currentIndex and, as ghost state, how many of its lines *)
(* no terminal read has returned yet.  The ping engine (mmping, outside    *)
(* the repository) is abstracted to two choices per poll: is it still      *)
(* running, and did its counters change.                                   *)
(***************************************************************************)
EXTENDS Integers, FiniteSets, FiniteSetsExt

CONSTANTS
    BufferSize,   \* BUFFER_SIZE
    LineLens,     \* lengths a dual_print line may have
    MaxReports,   \* counter changes the ping engine reports before it ends
    MaxPings,     \* ping starts the tcpip thread may request
    LockTimeouts  \* whether a 500 ms wait on the buffer lock may run out

ASSUME BufferSize \in Nat \ {0}
ASSUME LineLens \subseteq 0..127    \* TEMP_BUFFER_SIZE - 1
ASSUME MaxReports \in Nat /\ MaxPings \in Nat
ASSUME LockTimeouts \in BOOLEAN

VARIABLES
    pingPc,           \* program counter of demo_ping_task
    apLen,            \* length of the line dual_print is appending
    apRet,            \* where dual_print returns to
    apFold,           \* whether the caller folds the result into shared_buffer_ok
    shared_buffer_ok, \* ping_routine's flag
    running,          \* stats.ping_is_running as last read
    reports,          \* counter changes reported in this ping
    break_ping, ping_in_progress,
    startSem,         \* ping_task_start
    starts,           \* ping starts requested so far
    http,             \* program counter of the tcpip thread
    bufSem,           \* buffer_lock_released
    currentIndex,
    unread,           \* ghost: lines in the buffer no terminal read returned
    lost,             \* ghost: a line append reported as taken vanished unread
    stopAsked,        \* ghost: a stop was requested during this ping
    userBreak,        \* ghost: this ping left its loop on break_ping
    termPrinted       \* ghost: this ping printed "Terminated by user."

vars == <<pingPc, apLen, apRet, apFold, shared_buffer_ok, running, reports,
          break_ping, ping_in_progress, startSem, starts, http, bufSem,
          currentIndex, unread, lost, stopAsked, userBreak, termPrinted>>

-----------------------------------------------------------------------------
(* app_init: ping_init creates ping_task_start taken; shared_buffer_init   *)
(* empties the buffer and gives its lock.                                  *)
Init ==
    /\ pingPc = "wait"
    /\ apLen = 0 /\ apRet = "wait" /\ apFold = FALSE
    /\ shared_buffer_ok = TRUE /\ running = FALSE /\ reports = 0
    /\ break_ping = FALSE /\ ping_in_progress = FALSE
    /\ startSem = 0 /\ starts = 0
    /\ http = "idle"
    /\ bufSem = 1 /\ currentIndex = 0
    /\ unread = 0 /\ lost = FALSE
    /\ stopAsked = FALSE /\ userBreak = FALSE /\ termPrinted = FALSE

-----------------------------------------------------------------------------
(***************************************************************************)
(* dual_print: format a line of one of the lengths, then                   *)
(* shared_buffer_append.  Call(ret, fold) starts it from the ping task.    *)
(***************************************************************************)
Call(ret, fold) ==
    /\ apLen' \in LineLens
    /\ apRet' = ret /\ apFold' = fold
    /\ pingPc' = "ap_check"

(* the return of shared_buffer_append, folded as the caller does *)
Return(result) ==
    /\ pingPc' = apRet
    /\ shared_buffer_ok' = IF apFold THEN shared_buffer_ok /\ result
                           ELSE shared_buffer_ok

(* An empty line returns true; one that does not fit returns false; both   *)
(* before the lock is taken.                                               *)
(* Mutant: only the empty-line test, no free-space check. *)
AppendCheckNoSpace ==
    /\ pingPc = "ap_check"
    /\ IF apLen = 0
       THEN Return(TRUE)
       ELSE /\ pingPc' = "ap_lock"
            /\ UNCHANGED shared_buffer_ok
    /\ UNCHANGED <<apLen, apRet, apFold, running, reports, break_ping,
                   ping_in_progress, startSem, starts, http, bufSem,
                   currentIndex, unread, lost, stopAsked, userBreak,
                   termPrinted>>

AppendCheck ==
    /\ pingPc = "ap_check"
    /\ IF apLen = 0 \/ apLen > BufferSize - currentIndex
       THEN Return(apLen = 0)
       ELSE /\ pingPc' = "ap_lock"
            /\ UNCHANGED shared_buffer_ok
    /\ UNCHANGED <<apLen, apRet, apFold, running, reports, break_ping,
                   ping_in_progress, startSem, starts, http, bufSem,
                   currentIndex, unread, lost, stopAsked, userBreak,
                   termPrinted>>

AppendLock ==
    /\ pingPc = "ap_lock" /\ bufSem = 1
    /\ bufSem' = 0
    /\ pingPc' = "ap_cs"
    /\ UNCHANGED <<apLen, apRet, apFold, shared_buffer_ok, running, reports,
                   break_ping, ping_in_progress, startSem, starts, http,
                   currentIndex, unread, lost, stopAsked, userBreak,
                   termPrinted>>

(* The timeout branch of this wait (return true, nothing appended) is    *)
(* not an action: the lock is taken only by the tcpip thread, which runs  *)
(* its critical sections without giving way to the LOW ping task, so the  *)
(* ping task never finds the lock taken (see PingMayRun).                 *)

(* strcat, currentIndex += len, the terminator, unlock. *)
AppendWrite ==
    /\ pingPc = "ap_cs"
    /\ currentIndex' = currentIndex + apLen
    /\ unread' = unread + 1
    /\ bufSem' = 1
    /\ Return(TRUE)
    /\ UNCHANGED <<apLen, apRet, apFold, running, reports, break_ping,
                   ping_in_progress, startSem, starts, http, lost, stopAsked,
                   userBreak, termPrinted>>

-----------------------------------------------------------------------------
(***************************************************************************)
(* demo_ping_task and ping_routine.                                        *)
(***************************************************************************)
PingTaskStart ==
    /\ pingPc = "wait" /\ startSem = 1
    /\ startSem' = 0
    /\ ping_in_progress' = TRUE
    /\ shared_buffer_ok' = TRUE
    /\ reports' = 0
    /\ stopAsked' = FALSE /\ userBreak' = FALSE /\ termPrinted' = FALSE
    /\ Call("first_stats", TRUE)
    /\ UNCHANGED <<running, break_ping, starts, http, bufSem, currentIndex,
                   unread, lost>>

(* mmping_stats before the loop, then the test of while (ping_is_running). *)
PingFirstStats ==
    /\ pingPc = "first_stats"
    /\ \E r \in BOOLEAN :
          /\ r => reports < MaxReports
          /\ running' = r
          /\ pingPc' = IF r THEN "poll" ELSE "after"
    /\ UNCHANGED <<apLen, apRet, apFold, shared_buffer_ok, reports,
                   break_ping, ping_in_progress, startSem, starts, http,
                   bufSem, currentIndex, unread, lost, stopAsked, userBreak,
                   termPrinted>>

(***************************************************************************)
(* One loop iteration: mmping_stats, and when the counters changed print   *)
(* the report and go to the break check; otherwise test the loop           *)
(* condition on the new stats.  An unchanged, still running engine is a    *)
(* step that changes nothing and is left out.                              *)
(***************************************************************************)
PingPoll ==
    /\ pingPc = "poll"
    /\ \E r \in BOOLEAN, changed \in BOOLEAN :
          /\ r => reports < MaxReports
          /\ changed => reports < MaxReports
          /\ changed \/ ~r
          /\ running' = r
          /\ IF changed
             THEN /\ reports' = reports + 1
                  /\ Call("check", TRUE)
             ELSE /\ pingPc' = "after"
                  /\ UNCHANGED <<reports, apLen, apRet, apFold>>
    /\ UNCHANGED <<shared_buffer_ok, break_ping, ping_in_progress, startSem,
                   starts, http, bufSem, currentIndex, unread, lost,
                   stopAsked, userBreak, termPrinted>>

(* if (break_ping || !shared_buffer_ok): clear break_ping, stop, break. *)
PingCheck ==
    /\ pingPc = "check"
    /\ IF break_ping \/ ~shared_buffer_ok
       THEN /\ break_ping' = FALSE
            /\ running' = FALSE
            /\ userBreak' = break_ping
            /\ pingPc' = "after"
       ELSE /\ pingPc' = IF running THEN "poll" ELSE "after"
            /\ UNCHANGED <<break_ping, running, userBreak>>
    /\ UNCHANGED <<apLen, apRet, apFold, shared_buffer_ok, reports,
                   ping_in_progress, startSem, starts, http, bufSem,
                   currentIndex, unread, lost, stopAsked, termPrinted>>

(* if (break_ping) dual_print("Terminated by user."), then the statistics. *)
PingAfterLoop ==
    /\ pingPc = "after"
    /\ IF break_ping
       THEN /\ termPrinted' = TRUE
            /\ Call("stats1", FALSE)
       ELSE /\ Call("stats2", FALSE)
            /\ UNCHANGED termPrinted
    /\ UNCHANGED <<shared_buffer_ok, running, reports, break_ping,
                   ping_in_progress, startSem, starts, http, bufSem,
                   currentIndex, unread, lost, stopAsked, userBreak>>

(* the first of the two statistics lines; the second follows in "stats2" *)
PingStats ==
    /\ pingPc \in {"stats1", "stats2"}
    /\ Call(IF pingPc = "stats1" THEN "stats2" ELSE "end", FALSE)
    /\ UNCHANGED <<shared_buffer_ok, running, reports, break_ping,
                   ping_in_progress, startSem, starts, http, bufSem,
                   currentIndex, unread, lost, stopAsked, userBreak,
                   termPrinted>>

(* break_ping = false at the end of ping_routine; ping_in_progress = false. *)
PingEnd ==
    /\ pingPc = "end"
    /\ break_ping' = FALSE
    /\ ping_in_progress' = FALSE
    /\ pingPc' = "wait"
    /\ UNCHANGED <<apLen, apRet, apFold, shared_buffer_ok, running, reports,
                   startSem, starts, http, bufSem, currentIndex, unread, lost,
                   stopAsked, userBreak, termPrinted>>

-----------------------------------------------------------------------------
(***************************************************************************)
(* The tcpip thread.  A handler blocks the thread while it waits on the    *)
(* buffer lock; each wait of 500 ms takes the lock or, when timeouts are   *)
(* possible and the lock is taken, gives up.                               *)
(***************************************************************************)
HttpUnchanged ==
    UNCHANGED <<pingPc, apLen, apRet, apFold, shared_buffer_ok, running,
                reports, ping_in_progress, userBreak,
                termPrinted>>

(* rest_ep_get_terminal: shared_buffer_lock *)
TerminalRequest ==
    /\ http = "idle"
    /\ http' = "term_lock"
    /\ HttpUnchanged
    /\ UNCHANGED <<break_ping, startSem, starts, bufSem, currentIndex, unread,
                   lost, stopAsked>>

(* cgi_set_ping_start: ping_start begins with shared_buffer_reset *)
TriggerRequest ==
    /\ http = "idle" /\ starts < MaxPings
    /\ http' = "start_lock"
    /\ starts' = starts + 1
    /\ HttpUnchanged
    /\ UNCHANGED <<break_ping, startSem, bufSem, currentIndex, unread, lost,
                   stopAsked>>

(* rest_ep_stop_operation: ping_stop sets break_ping, whatever runs *)
StopRequest ==
    /\ http = "idle"
    /\ break_ping' = TRUE
    /\ stopAsked' = (stopAsked \/ ping_in_progress)
    /\ HttpUnchanged
    /\ UNCHANGED <<startSem, starts, http, bufSem, currentIndex, unread,
                   lost>>

(* Any of the thread's lock waits takes the buffer lock. *)
HttpTakeLock ==
    /\ http \in {"term_lock", "reset_lock", "start_lock"} /\ bufSem = 1
    /\ bufSem' = 0
    /\ http' = CASE http = "term_lock"  -> "term_cs"
               []   http = "reset_lock" -> "reset_cs"
               []   http = "start_lock" -> "start_cs"
    /\ HttpUnchanged
    /\ UNCHANGED <<break_ping, startSem, starts, currentIndex, unread, lost,
                   stopAsked>>

(* Mutant: shared_buffer_reset outside the if of rest_ep_get_terminal, so *)
(* it runs after a timed-out lock wait too.                               *)
HttpLockTimeoutResets ==
    /\ http \in {"term_lock", "reset_lock", "start_lock"} /\ bufSem = 0
    /\ LockTimeouts
    /\ http' = IF http = "term_lock" THEN "reset_lock" ELSE "idle"
    /\ startSem' = IF http = "start_lock" THEN 1 ELSE startSem
    /\ HttpUnchanged
    /\ UNCHANGED <<break_ping, starts, bufSem, currentIndex, unread, lost,
                   stopAsked>>

(***************************************************************************)
(* A lock wait runs out: rest_ep_get_terminal returns, a reset does        *)
(* nothing, and ping_start still gives ping_task_start.                    *)
(***************************************************************************)
HttpLockTimeout ==
    /\ http \in {"term_lock", "reset_lock", "start_lock"} /\ bufSem = 0
    /\ LockTimeouts
    /\ http' = "idle"
    /\ startSem' = IF http = "start_lock" THEN 1 ELSE startSem
    /\ HttpUnchanged
    /\ UNCHANGED <<break_ping, starts, bufSem, currentIndex, unread, lost,
                   stopAsked>>

(***************************************************************************)
(* rest_ep_get_terminal with the lock: the whole buffer is written to the  *)
(* response, the lock is given, and shared_buffer_reset takes it again.    *)
(***************************************************************************)
(* Mutant: the terminal read without shared_buffer_unlock. *)
TerminalReadKeepsLock ==
    /\ http = "term_cs"
    /\ unread' = 0
    /\ http' = "reset_lock"
    /\ HttpUnchanged
    /\ UNCHANGED <<break_ping, startSem, starts, bufSem, currentIndex, lost,
                   stopAsked>>

TerminalRead ==
    /\ http = "term_cs"
    /\ unread' = 0
    /\ bufSem' = 1
    /\ http' = "reset_lock"
    /\ HttpUnchanged
    /\ UNCHANGED <<break_ping, startSem, starts, currentIndex, lost,
                   stopAsked>>

(* shared_buffer_reset with the lock: empty string, index 0, unlock. *)
TerminalReset ==
    /\ http = "reset_cs"
    /\ currentIndex' = 0
    /\ lost' = (lost \/ unread > 0)
    /\ unread' = 0
    /\ bufSem' = 1
    /\ http' = "idle"
    /\ HttpUnchanged
    /\ UNCHANGED <<break_ping, startSem, starts, stopAsked>>

(* ping_start: the reset, then mmosal_semb_give(ping_task_start). *)
(* Mutant: ping_task_start given as a counting semaphore. *)
StartResetCounting ==
    /\ http = "start_cs"
    /\ currentIndex' = 0 /\ unread' = 0
    /\ bufSem' = 1
    /\ startSem' = startSem + 1
    /\ http' = "idle"
    /\ HttpUnchanged
    /\ UNCHANGED <<break_ping, starts, lost, stopAsked>>

StartReset ==
    /\ http = "start_cs"
    /\ currentIndex' = 0 /\ unread' = 0
    /\ bufSem' = 1
    /\ startSem' = 1
    /\ http' = "idle"
    /\ HttpUnchanged
    /\ UNCHANGED <<break_ping, starts, lost, stopAsked>>

-----------------------------------------------------------------------------
(***************************************************************************)
(* Fixed-priority scheduling on one core: demo_ping_task is created at     *)
(* MMOSAL_TASK_PRI_LOW, below the tcpip thread, so it takes a step only    *)
(* while the tcpip thread is idle or blocked in a buffer-lock wait.  In    *)
(* particular nothing of the ping task runs between the unlock and the     *)
(* reset of rest_ep_get_terminal.                                          *)
(***************************************************************************)
TcpipReady ==
    \/ http \in {"term_cs", "reset_cs", "start_cs"}
    \/ http \in {"term_lock", "reset_lock", "start_lock"} /\ bufSem = 1

PingMayRun == ~TcpipReady

PingStep ==
    /\ PingMayRun
    /\ \/ PingTaskStart \/ PingFirstStats \/ PingPoll \/ PingCheck
       \/ PingAfterLoop \/ PingStats \/ PingEnd
       \/ AppendCheck \/ AppendLock \/ AppendWrite

HttpStep ==
    \/ HttpTakeLock \/ HttpLockTimeout
    \/ TerminalRead \/ TerminalReset \/ StartReset

Next ==
    \/ PingStep
    \/ TerminalRequest \/ TriggerRequest \/ StopRequest
    \/ HttpStep

(***************************************************************************)
(* Both tasks are weakly fair once they run: the ping task's waits on the  *)
(* buffer lock end, and the engine ends after MaxReports changes.  The     *)
(* requests come from the web client and are not fair.                     *)
(***************************************************************************)
Spec == Init /\ [][Next]_vars /\ WF_vars(PingStep) /\ WF_vars(HttpStep)

-----------------------------------------------------------------------------
PingPcs == {"wait", "first_stats", "poll", "check", "after", "stats1",
            "stats2", "end", "ap_check", "ap_lock", "ap_cs"}

HttpPcs == {"idle", "term_lock", "term_cs", "reset_lock", "reset_cs",
            "start_lock", "start_cs"}

TypeOK ==
    /\ pingPc \in PingPcs /\ apRet \in PingPcs
    /\ apLen \in LineLens /\ apFold \in BOOLEAN
    /\ shared_buffer_ok \in BOOLEAN /\ running \in BOOLEAN
    /\ reports \in 0..MaxReports
    /\ break_ping \in BOOLEAN /\ ping_in_progress \in BOOLEAN
    /\ startSem \in {0, 1} /\ starts \in 0..MaxPings
    /\ http \in HttpPcs
    /\ bufSem \in {0, 1}
    /\ currentIndex \in Nat /\ unread \in Nat /\ lost \in BOOLEAN

(***************************************************************************)
(* The buffer never holds more characters than BUFFER_SIZE: the free-space *)
(* check of shared_buffer_append runs before the lock, and only a reset    *)
(* by the tcpip thread can change currentIndex in between.                 *)
(***************************************************************************)
NeverOverfills == currentIndex <= BufferSize

(***************************************************************************)
(* The terminator shared_buffer_append writes at buffer[currentIndex]      *)
(* stays inside the BUFFER_SIZE array ("ensure the buffer contains '\0'"). *)
(***************************************************************************)
TerminatorInBounds == currentIndex < BufferSize

(***************************************************************************)
(* Every line dual_print reported as taken (append returned true) is still *)
(* in the buffer, was returned by a terminal read, or was cleared by a new *)
(* ping start: the web terminal shows all output that was not refused.     *)
(* It rests on the tcpip thread's priority closing the window between the  *)
(* unlock and the reset of rest_ep_get_terminal, and on the reset being    *)
(* made only when the read's lock wait succeeded.                          *)
(***************************************************************************)
NoLostLine == ~lost

(***************************************************************************)
(* A ping leaves its loop on break_ping only when the user asked for a     *)
(* stop while that ping was running (rest_ep_stop_operation).              *)
(***************************************************************************)
StopOnlyWhenAsked == userBreak => stopAsked

(***************************************************************************)
(* A ping that the user stopped prints "Terminated by user." before its    *)
(* statistics (ping_routine, the test after the loop).                     *)
(***************************************************************************)
UserStopReported == pingPc = "end" /\ userBreak => termPrinted

(***************************************************************************)
(* What rest_ep_stop_operation promises: a ping stops on break_ping only   *)
(* when the user asked for it during that ping, and then says so.          *)
(***************************************************************************)
StopHonoured == StopOnlyWhenAsked /\ UserStopReported

(***************************************************************************)
(* The buffer lock is always given back: every critical section of the     *)
(* ping task and of the tcpip thread ends with shared_buffer_unlock.       *)
(***************************************************************************)
BufferLockFree == bufSem = 0 ~> bufSem = 1

=============================================================================
