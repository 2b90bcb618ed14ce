-------------------------------- MODULE Msgs --------------------------------
(***************************************************************************)
(* Message boxes (kernel/msgs.c): how many messages each task's box holds, *)
(* and who waits for one.                                                  *)
(***************************************************************************)
EXTENDS Task

(* msg_get(n) when there is a message, or n is DONT_WAIT.                  *)
MsgGetNow(n) ==
  /\ TaskCaller(<<"msg_get", n>>)
  /\ \/ /\ num_msgs[this] # 0
        /\ num_msgs' = [num_msgs EXCEPT ![this] = @ - 1]
     \/ /\ num_msgs[this] = 0 /\ n = DONT_WAIT       \* E_RES
        /\ UNCHANGED num_msgs
  /\ Return
  /\ UNCHANGED <<task_q, ctxVars, int_mode, tcbVars, count_now, tokens,
                 histVars>>

(* msg_get(n) when it has to wait.  wait_id keeps its value.               *)
MsgGetWait(n) ==
  /\ TaskCaller(<<"msg_get", n>>)
  /\ num_msgs[this] = 0 /\ n # DONT_WAIT
  /\ time_out' = [time_out EXCEPT ![this] = FALSE]
  /\ got_resource' = [got_resource EXCEPT ![this] = FALSE]
  /\ IF n = WAIT_FOREVER
     THEN UNCHANGED <<time_count, timer_active>>
     ELSE /\ time_count' = [time_count EXCEPT ![this] = n]
          /\ timer_active' = [timer_active EXCEPT ![this] = TRUE]
  /\ Block(n, NoId, "msg_get")
  /\ UNCHANGED <<task_q, below, irq, int_mode, wait_id, objVars>>

(* msg_get() after task_run_next(): it takes a message unless it timed     *)
(* out, without looking at num_msgs again.                                 *)
MsgGetResume ==
  /\ pc[this] = "msg_get"
  /\ IF TimedOut(this)
     THEN UNCHANGED num_msgs
     ELSE num_msgs' = [num_msgs EXCEPT ![this] = (@ - 1) % Wrap]
  /\ Unblock(~int_mode)
  /\ UNCHANGED <<task_q, state, cpu, below, irq, int_mode, tcbVars,
                 count_now, tokens>>

IsFull_Bug(d) == num_msgs[d] > MaxMsgs[d]
IsFull(d) == num_msgs[d] = MaxMsgs[d]

(* msg_send(d): the receiver is made ready whatever it was doing, and its  *)
(* timer is left running.                                                  *)
MsgSend(d) ==
  /\ Caller(<<"msg_send", d>>) /\ state[d] # "none"
  /\ \/ /\ IsFull(d)                                  \* E_RES
        /\ Return
        /\ UNCHANGED <<num_msgs, got_resource>>
     \/ /\ ~IsFull(d)
        /\ num_msgs' = [num_msgs EXCEPT ![d] = (@ + 1) % Wrap]
        /\ got_resource' = [got_resource EXCEPT ![d] = TRUE]
        /\ Preempt(d, task_q, [state EXCEPT ![d] = "READY"])
  /\ UNCHANGED <<task_q, ctxVars, int_mode, timer_active, time_count,
                 time_out, wait_id, count_now, tokens, histVars>>
=============================================================================
