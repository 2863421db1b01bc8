---------------------------- MODULE JoinHandles -----------------------------
(***************************************************************************)
(* Kernel with a history of thread handles.  A handle is the address of a  *)
(* TCB, and after the thread has exited the address is given to a new      *)
(* thread.  Here a handle also says which of the threads made at that      *)
(* address it was returned for.                                            *)
(***************************************************************************)
EXTENDS Kernel

CONSTANT MaxThreads   (* bound: threads made at one address *)

VARIABLES
  made,      \* how many threads were made at each address
  joining    \* the number of the thread each blocked joiner asked for

historyVars == <<made, joining>>

HistoryInit ==
  /\ Init
  /\ made = [t \in TCB |-> 0]
  /\ joining = [t \in TCB |-> 0]

CreateThread ==
  /\ ThreadCreate
  /\ made' = [t \in TCB |-> IF status[t] = "FREE" /\ status'[t] # "FREE"
                              THEN made[t] + 1 ELSE made[t]]
  /\ \A t \in TCB : made'[t] <= MaxThreads
  /\ UNCHANGED joining

(* The caller has the handle of the n-th thread made at t.                 *)
JoinThread(t, n) ==
  /\ n <= made[t]
  /\ ThreadJoin(t)
  /\ joining' = [joining EXCEPT ![current] = n]
  /\ UNCHANGED made

HistoryNext ==
  \/ CreateThread
  \/ \E t \in Workers, n \in 1..MaxThreads : JoinThread(t, n)
  \/ /\ \/ ThreadExit
        \/ TimerTick
        \/ \E n \in 0..IO_BUFFER_SIZE : FlushPutc(n)
        \/ FlushDispatch
     /\ UNCHANGED historyVars

HistorySpec == HistoryInit /\ [][HistoryNext]_<<vars, historyVars>>

(* "Suspend the currently running thread, until the thread represented     *)
(* with handle is done executing." (README.md:25)  So a thread suspended   *)
(* in thread_join is one whose handle represents a thread not yet done.    *)
JoinSuspendsUntilDone ==
  \A t \in Workers : \A u \in Elements(waiting[t]) : joining[u] = made[t]
=============================================================================
