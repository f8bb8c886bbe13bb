-------------------------- MODULE ProcessContract --------------------------
(***************************************************************************)
(* What the owner of a child_process may rely on, without pipes, polls,    *)
(* signals and pids: the object is running until the child was waited for  *)
(* and all it wrote has arrived, then it is finished for good, with the    *)
(* exit code of the child or -1; closing it leaves no process behind.      *)
(* SysProcess and SysExec are shown to implement it.                       *)
(***************************************************************************)
EXTENDS Integers

CONSTANTS
  Stream,   \* the output streams
  Status    \* the ways a child can end: [sig : BOOLEAN, code : Int]

VARIABLES
  life,       \* new, failed, running, finished, closing, gone
  proc,       \* the child: none, alive, zombie, reaped
  ending,     \* how it ended
  unread,     \* per stream, bytes up to the last of the child's not yet received
  expired,    \* the timeout was exceeded
  cancelled,  \* the owner closed the pipes
  verdict     \* the exit code reported, -1 before the object is finished

contractVars == <<life, proc, ending, unread, expired, cancelled, verdict>>

Init ==
  /\ life = "new" /\ proc = "none"
  /\ ending = [sig |-> FALSE, code |-> 0]
  /\ unread = [s \in Stream |-> 0]
  /\ expired = FALSE /\ cancelled = FALSE /\ verdict = -1

Start ==
  /\ life = "new"
  /\ life' = "running" /\ proc' = "alive"
  /\ UNCHANGED <<ending, unread, expired, cancelled, verdict>>

(* The constructor throws: there is no child. *)
Refuse ==
  /\ life = "new"
  /\ life' = "failed"
  /\ UNCHANGED <<proc, ending, unread, expired, cancelled, verdict>>

Produce(s) ==
  /\ proc = "alive"
  /\ unread'[s] \in Nat /\ unread'[s] > unread[s]
  /\ \A t \in Stream \ {s} : unread'[t] = unread[t]
  /\ UNCHANGED <<life, proc, ending, expired, cancelled, verdict>>

Deliver(s) ==
  /\ life = "running" /\ ~cancelled
  /\ unread'[s] \in Nat /\ unread'[s] < unread[s]
  /\ \A t \in Stream \ {s} : unread'[t] = unread[t]
  /\ UNCHANGED <<life, proc, ending, expired, cancelled, verdict>>

End ==
  /\ proc = "alive"
  /\ proc' = "zombie" /\ ending' \in Status
  /\ UNCHANGED <<life, unread, expired, cancelled, verdict>>

Reap ==
  /\ life \in {"running", "closing"} /\ proc = "zombie"
  /\ proc' = "reaped"
  /\ UNCHANGED <<life, ending, unread, expired, cancelled, verdict>>

(* Only an object that is running can exceed its timeout. *)
Expire ==
  /\ life = "running"
  /\ expired' = TRUE
  /\ UNCHANGED <<life, proc, ending, unread, cancelled, verdict>>

Cancel ==
  /\ life = "running"
  /\ cancelled' = TRUE
  /\ UNCHANGED <<life, proc, ending, unread, expired, verdict>>

(* The verdict is the code of a child that exited, -1 after a timeout or   *)
(* kill(); what is reported of a child that a signal of others terminated  *)
(* is left open.                                                           *)
Finish ==
  /\ life = "running" /\ proc = "reaped"
  /\ cancelled \/ \A s \in Stream : unread[s] = 0
  /\ life' = "finished"
  /\ verdict' \in Int
  /\ IF expired \/ cancelled THEN verdict' = -1 ELSE ~ending.sig => verdict' = ending.code
  /\ UNCHANGED <<proc, ending, unread, expired, cancelled>>

(* The destructor: waits for a child that was not waited for before. *)
Close ==
  /\ life \in {"running", "finished"}
  /\ cancelled' = TRUE
  /\ life' = "closing" \/ (proc = "reaped" /\ life' = "gone")
  /\ UNCHANGED <<proc, ending, unread, expired, verdict>>

Closed ==
  /\ life = "closing" /\ proc \in {"zombie", "reaped"}
  /\ life' = "gone" /\ proc' = "reaped"
  /\ UNCHANGED <<ending, unread, expired, cancelled, verdict>>

Next ==
  \/ Start \/ Refuse
  \/ \E s \in Stream : Produce(s) \/ Deliver(s)
  \/ End \/ Reap \/ Expire \/ Cancel \/ Finish \/ Close \/ Closed

Spec == Init /\ [][Next]_contractVars
=============================================================================
