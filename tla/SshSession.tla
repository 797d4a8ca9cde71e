----------------------------- MODULE SshSession -----------------------------
(***************************************************************************)
(* One SSH session of main/ssh_connection.cpp: the module-static g_sess,   *)
(* start() on its caller's task, ssh_task, and the tasks that send() and   *)
(* resize() without a lock.  A step is what runs between two points where  *)
(* another task can interfere: one atomic access or one libssh2 call.      *)
(*                                                                         *)
(* The TX stream buffer is null, live or freed, and empty or not (queued); *)
(* what the bytes are is left out.                                         *)
(* The columns are the same in every resize (kCols), so a pending resize   *)
(* is the flag pendingCols # 0 and the rows.                               *)
(***************************************************************************)
EXTENDS Integers, FiniteSets

CONSTANTS
    Senders,     \* tasks that call send(): USB HID, UART, touch keyboard
    Resizers,    \* tasks that call resize(): the touch task, the supervisor
    Rows,        \* the heights the terminal takes
    CfgRows      \* the height SshConfig asks for

ASSUME CfgRowsIsAHeight == CfgRows \in Rows /\ Rows \subseteq Nat \ {0}

VARIABLES
    running, taskAlive,        \* the two atomics
    held,                      \* libssh2 objects and socket that exist
    tx, queued,                \* the stream buffer handle in g_sess, and its content
    pendingCols, pendingRows,  \* a resize waits / its rows
    starter,                   \* where start()'s caller stands
    task,                      \* where ssh_task stands
    taskRows,                  \* the rows ssh_task has in hand
    sender, buffer,            \* per sender: where it stands, what it loaded
    resizer,                   \* per resizer: where it stands
    link,                      \* the TCP connection below
    remoteRows, dueRows,       \* the pty as the remote was told, and as it should be
    refusedRows                \* history: the rows last asked for, if that failed

flagVars   == <<running, taskAlive>>
resVars    == <<held, tx, queued>>
resizeVars == <<pendingCols, pendingRows, resizer, dueRows>>
sendVars   == <<sender, buffer>>
taskVars   == <<task, taskRows>>
remoteVars == <<remoteRows, refusedRows>>
vars == <<flagVars, resVars, resizeVars, sendVars, taskVars, starter, link, remoteVars>>

Everything == {"sock", "sess", "chan"}

-----------------------------------------------------------------------------
(* start(), on the boot task or the supervisor. *)

\* Both call start() only while is_connected() is false.
Call ==
    /\ starter = "idle" /\ ~ running
    /\ starter' = "called"
    /\ UNCHANGED <<flagVars, resVars, resizeVars, sendVars, taskVars, link, remoteVars>>

\* Mutant: start() relies on `running' alone.
RefuseOnlyWhileRunning ==
    /\ starter = "called"
    /\ starter' = "unowned"
    /\ UNCHANGED <<flagVars, resVars, resizeVars, sendVars, taskVars, link, remoteVars>>

RefuseWhileTaskAlive ==
    /\ starter = "called"
    /\ starter' = IF taskAlive THEN "idle" ELSE "unowned"
    /\ UNCHANGED <<flagVars, resVars, resizeVars, sendVars, taskVars, link, remoteVars>>

RefuseWhileRunning ==
    /\ starter = "unowned"
    /\ starter' = IF running THEN "idle" ELSE "dial"
    /\ UNCHANGED <<flagVars, resVars, resizeVars, sendVars, taskVars, link, remoteVars>>

\* dial and libssh2_session_init: each fails alone, leaving nothing behind.
Dial ==
    /\ starter = "dial"
    /\ \/ /\ starter' = "handshake" /\ held' = {"sock", "sess"} /\ link' = "up"
       \/ /\ starter' = "idle" /\ UNCHANGED <<held, link>>
    /\ UNCHANGED <<flagVars, tx, queued, resizeVars, sendVars, taskVars, remoteVars>>

\* Handshake, host key, TOFU and authentication: blocking calls on what exists.
Authenticate ==
    /\ starter = "handshake"
    /\ starter' \in {"channel", "fail"}
    /\ UNCHANGED <<flagVars, resVars, resizeVars, sendVars, taskVars, link, remoteVars>>

\* The pty is asked for with the size of the configuration.
OpenShell ==
    /\ starter = "channel"
    /\ held' = Everything
    /\ \/ /\ starter' = "buffer"
          /\ remoteRows' = CfgRows /\ refusedRows' = 0
          /\ dueRows' = IF pendingCols THEN pendingRows ELSE CfgRows
       \/ starter' = "fail" /\ UNCHANGED <<remoteVars, dueRows>>
    /\ UNCHANGED <<flagVars, tx, queued, pendingCols, pendingRows, resizer, sendVars, taskVars, link>>

CreateBuffer ==
    /\ starter = "buffer"
    /\ \/ starter' = "publish" /\ tx' = "live"
       \/ starter' = "fail" /\ UNCHANGED tx
    /\ UNCHANGED <<flagVars, held, queued, resizeVars, sendVars, taskVars, link, remoteVars>>

Publish ==
    /\ starter = "publish"
    /\ running' = TRUE
    /\ starter' = "spawn"
    /\ UNCHANGED <<taskAlive, resVars, resizeVars, sendVars, taskVars, link, remoteVars>>

\* xTaskCreate: from here on the session belongs to the task.
Spawn ==
    /\ starter = "spawn"
    /\ \/ starter' = "idle" /\ task' = "created"
       \/ starter' = "fail" /\ UNCHANGED task
    /\ UNCHANGED <<flagVars, resVars, resizeVars, sendVars, taskRows, link, remoteVars>>

-----------------------------------------------------------------------------
(* shutdown_session, by whoever owns the session. *)

\* The first store; the libssh2 objects and the socket follow it.
Unpublish ==
    /\ running' = FALSE
    /\ UNCHANGED <<taskAlive, resVars, resizeVars, sendVars, taskRows, link, remoteVars>>

FreeObjects ==
    /\ held' = {}
    /\ UNCHANGED <<flagVars, tx, queued, resizeVars, sendVars, taskRows, link, remoteVars>>

\* vStreamBufferDelete: a sender that has loaded the handle keeps it.
DeleteBuffer ==
    /\ tx' = IF tx = "live" THEN "freed" ELSE tx
    /\ queued' = FALSE
    /\ buffer' = [s \in Senders |-> IF buffer[s] = "live" THEN "freed" ELSE buffer[s]]
    /\ UNCHANGED <<flagVars, held, resizeVars, sender, taskRows, link, remoteVars>>

ForgetBuffer ==
    /\ tx' = "null"
    /\ UNCHANGED <<flagVars, held, queued, resizeVars, sendVars, taskRows, link, remoteVars>>

Shutdown(at, after) ==
    \/ at = "fail"   /\ after = "free"   /\ Unpublish
    \/ at = "free"   /\ after = "delete" /\ FreeObjects
    \/ at = "delete" /\ after = "forget" /\ DeleteBuffer
    \/ at = "forget" /\ after = "done"   /\ ForgetBuffer

\* Mutant: a failed start() closes the socket only.
GiveUpEarly ==
    /\ starter = "fail" /\ starter' = "idle"
    /\ held' = held \ {"sock"}
    /\ UNCHANGED <<flagVars, tx, queued, resizeVars, sendVars, taskVars, link, remoteVars>>

GiveUp ==
    \/ /\ \E after \in {"free", "delete", "forget", "done"} :
              Shutdown(starter, after) /\ starter' = after
       /\ UNCHANGED task
    \/ /\ starter = "done" /\ starter' = "idle"
       /\ UNCHANGED <<flagVars, resVars, resizeVars, sendVars, taskVars, link, remoteVars>>

-----------------------------------------------------------------------------
(* ssh_task. *)

Enter ==
    /\ task = "created"
    /\ taskAlive' = TRUE
    /\ task' = "top"
    /\ UNCHANGED <<running, resVars, resizeVars, sendVars, taskRows, starter, link, remoteVars>>

\* while (running): the keepalive, sent when due, finds a dead peer.
Top ==
    /\ task = "top"
    /\ \/ running /\ task' = "exchange" /\ UNCHANGED running
       \/ running /\ link = "down" /\ task' = "fail" /\ running' = FALSE
       \/ ~ running /\ task' = "fail" /\ UNCHANGED running
    /\ UNCHANGED <<taskAlive, resVars, resizeVars, sendVars, taskRows, starter, link, remoteVars>>

\* pending_cols.exchange(0)
TakeResize ==
    /\ task = "exchange"
    /\ task' = IF pendingCols THEN "rows" ELSE "read"
    /\ pendingCols' = FALSE
    /\ UNCHANGED <<flagVars, resVars, pendingRows, resizer, dueRows, sendVars,
                   taskRows, starter, link, remoteVars>>

LoadRows ==
    /\ task = "rows"
    /\ task' = "pty"
    /\ taskRows' = pendingRows
    /\ UNCHANGED <<flagVars, resVars, resizeVars, sendVars, starter, link, remoteVars>>

\* Mutant: the pending flag is cleared once the request is out.
RequestPtyThenClear ==
    /\ task = "pty"
    /\ task' = "read"
    /\ remoteRows' = taskRows /\ refusedRows' = 0
    /\ pendingCols' = FALSE
    /\ UNCHANGED <<flagVars, resVars, pendingRows, resizer, dueRows, sendVars, taskRows,
                   starter, link>>

\* The session is non-blocking: a request the socket or the window below has no
\* room for returns EAGAIN, on any link; that is logged and not repeated.
RequestPty ==
    /\ task = "pty"
    /\ task' = "read"
    /\ \/ remoteRows' = taskRows /\ refusedRows' = 0
       \/ refusedRows' = taskRows /\ UNCHANGED remoteRows
    /\ UNCHANGED <<flagVars, resVars, resizeVars, sendVars, taskRows, starter, link>>

\* Mutant: a read error is taken for "nothing to read".
ReadIgnoresErrors ==
    /\ task = "read"
    /\ task' = "write" /\ UNCHANGED running
    /\ UNCHANGED <<taskAlive, resVars, resizeVars, sendVars, taskRows, starter, link, remoteVars>>

\* channel_read until EAGAIN; end of file and errors end the session.  What is
\* read goes to the terminal, whose replies come back through send().
Read ==
    /\ task = "read"
    /\ \/ /\ link # "down" /\ task' = "write"
          /\ queued' \in {queued, TRUE}
          /\ UNCHANGED running
       \/ link # "stalled" /\ task' = "fail" /\ running' = FALSE /\ UNCHANGED queued
    /\ UNCHANGED <<taskAlive, held, tx, resizeVars, sendVars, taskRows, starter, link,
                   remoteVars>>

\* Drain the stream buffer.  EAGAIN is retried for ever, with `running' not
\* looked at: on a stalled link only the link moves the task on.
Write ==
    /\ task = "write"
    /\ \/ ~ queued /\ task' = "top" /\ UNCHANGED <<running, queued>>
       \/ queued /\ link = "up" /\ task' = "top" /\ queued' = FALSE /\ UNCHANGED running
       \/ queued /\ link = "down" /\ task' = "fail" /\ running' = FALSE /\ queued' = FALSE
    /\ UNCHANGED <<taskAlive, held, tx, resizeVars, sendVars, taskRows, starter, link,
                   remoteVars>>

TearDown ==
    /\ \E after \in {"free", "delete", "forget", "done"} :
           Shutdown(task, after) /\ task' = after
    /\ UNCHANGED starter

Exit ==
    /\ task = "done"
    /\ task' = "none"
    /\ taskAlive' = FALSE
    /\ UNCHANGED <<running, resVars, resizeVars, sendVars, taskRows, starter, link, remoteVars>>

TaskStep == Enter \/ Top \/ TakeResize \/ LoadRows \/ RequestPty \/ Read \/ Write
            \/ TearDown \/ Exit

-----------------------------------------------------------------------------
(* send() and resize(), on other tasks. *)

CheckSend(s) ==
    /\ sender[s] = "idle" /\ running /\ tx # "null"
    /\ sender' = [sender EXCEPT ![s] = "checked"]
    /\ UNCHANGED <<flagVars, resVars, resizeVars, buffer, taskVars, starter, link, remoteVars>>

LoadBuffer(s) ==
    /\ sender[s] = "checked"
    /\ sender' = [sender EXCEPT ![s] = "sending"]
    /\ buffer' = [buffer EXCEPT ![s] = tx]
    /\ UNCHANGED <<flagVars, resVars, resizeVars, taskVars, starter, link, remoteVars>>

\* xStreamBufferSend, into whatever was loaded.
Sent(s) ==
    /\ sender[s] = "sending"
    /\ sender' = [sender EXCEPT ![s] = "idle"]
    /\ buffer' = [buffer EXCEPT ![s] = "null"]
    /\ queued' = (queued \/ buffer[s] = "live")
    /\ UNCHANGED <<flagVars, held, tx, resizeVars, taskVars, starter, link, remoteVars>>

CheckResize(z) ==
    /\ resizer[z] = "idle" /\ running
    /\ resizer' = [resizer EXCEPT ![z] = "rows"]
    /\ UNCHANGED <<flagVars, resVars, pendingCols, pendingRows, dueRows, sendVars,
                   taskVars, starter, link, remoteVars>>

StoreRows(z, rows) ==
    /\ resizer[z] = "rows"
    /\ pendingRows' = rows
    /\ resizer' = [resizer EXCEPT ![z] = "cols"]
    /\ UNCHANGED <<flagVars, resVars, pendingCols, dueRows, sendVars, taskVars, starter,
                   link, remoteVars>>

StoreCols(z) ==
    /\ resizer[z] = "cols"
    /\ pendingCols' = TRUE
    /\ dueRows' = pendingRows
    /\ resizer' = [resizer EXCEPT ![z] = "idle"]
    /\ UNCHANGED <<flagVars, resVars, pendingRows, sendVars, taskVars, starter,
                   link, remoteVars>>

CallerStep ==
    \/ \E s \in Senders : CheckSend(s) \/ LoadBuffer(s) \/ Sent(s)
    \/ \E z \in Resizers : CheckResize(z) \/ StoreCols(z) \/ \E r \in Rows : StoreRows(z, r)

-----------------------------------------------------------------------------
(* The network. *)

\* A peer that stops answering, or answers again, or is given up by TCP.
LinkChange ==
    /\ held # {}
    /\ \/ link = "up" /\ link' \in {"stalled", "down"}
       \/ link = "stalled" /\ link' \in {"up", "down"}
    /\ UNCHANGED <<flagVars, resVars, resizeVars, sendVars, taskVars, starter, remoteVars>>

LinkSettles == link = "stalled" /\ LinkChange

-----------------------------------------------------------------------------

Init ==
    /\ running = FALSE /\ taskAlive = FALSE
    /\ held = {} /\ tx = "null" /\ queued = FALSE
    /\ pendingCols = FALSE /\ pendingRows = 0
    /\ starter = "idle" /\ task = "none" /\ taskRows = 0
    /\ sender = [s \in Senders |-> "idle"]
    /\ buffer = [s \in Senders |-> "null"]
    /\ resizer = [z \in Resizers |-> "idle"]
    /\ link = "down" /\ remoteRows = CfgRows /\ dueRows = CfgRows
    /\ refusedRows = 0

StartStep ==
    \/ RefuseWhileTaskAlive \/ RefuseWhileRunning \/ Dial \/ Authenticate
    \/ OpenShell \/ CreateBuffer \/ Publish \/ Spawn \/ GiveUp

Next == Call \/ StartStep \/ TaskStep \/ CallerStep \/ LinkChange

\* The scheduler runs every ready task; TCP gives up on a silent peer (the
\* socket has SO_KEEPALIVE and retransmission limits).
Fairness == WF_vars(TaskStep) /\ WF_vars(StartStep) /\ WF_vars(LinkSettles)

Spec == Init /\ [][Next]_vars /\ Fairness

-----------------------------------------------------------------------------
(* Properties. *)

ShutdownPoints == {"fail", "free", "delete", "forget", "done"}

StarterOwns == starter \in {"dial", "handshake", "channel", "buffer", "publish",
                            "spawn"} \cup ShutdownPoints
TaskOwns == task # "none"

\* The remote in particular is never told a height of 0, which is what the
\* pending rows are before the first resize: a half-published pair stays unseen.
TypeOK ==
    /\ running \in BOOLEAN /\ taskAlive \in BOOLEAN
    /\ held \subseteq Everything /\ tx \in {"null", "live", "freed"}
    /\ queued \in BOOLEAN
    /\ pendingCols \in BOOLEAN
    /\ {pendingRows, taskRows, refusedRows} \subseteq Rows \cup {0}
    /\ {remoteRows, dueRows} \subseteq Rows
    /\ starter \in {"idle", "called", "unowned", "dial", "handshake", "channel",
                    "buffer", "publish", "spawn"} \cup ShutdownPoints
    /\ task \in {"none", "created", "top", "exchange", "rows", "pty", "read",
                 "write"} \cup ShutdownPoints
    /\ sender \in [Senders -> {"idle", "checked", "sending"}]
    /\ buffer \in [Senders -> {"null", "live", "freed"}]
    /\ resizer \in [Resizers -> {"idle", "rows", "cols"}]
    /\ link \in {"up", "stalled", "down"}

\* A reconnect never builds a session while ssh_task still tears one down, nor
\* hands one to a second task ("can't race with the old task's
\* shutdown_session()"): g_sess has one owner at a time.
OneOwner == ~ (StarterOwns /\ TaskOwns)

\* "Returns false on failure; the object is then left in a clean not started
\* state": with neither start() nor the task at work nothing is left behind.
CleanWhenDown ==
    ~ StarterOwns /\ ~ TaskOwns =>
        ~ running /\ ~ taskAlive /\ held = {} /\ tx = "null"

\* What the task calls libssh2 with exists whenever it runs its loop.
LoopHasSession ==
    task \in {"top", "exchange", "rows", "pty", "read", "write"} =>
        held = Everything /\ tx = "live"

\* No resize is pending, half-made or in the task's hand.
Settled ==
    /\ running /\ task \in {"read", "write", "top"} /\ ~ pendingCols
    /\ \A z \in Resizers : resizer[z] = "idle"

\* The resize published last is the one the remote is told, also when resizes
\* race each other, the consumer, or a session that ends: it is lost only when
\* libssh2 refused the request for these very rows.
ResizeHonoured == Settled => dueRows \in {remoteRows, refusedRows}

\* connection.hpp on resize(): "Notify the remote of a new pty size (SSH WINCH /
\* Telnet NAWS)": with the link up and nothing pending the remote was notified.
RemoteIsNotified == Settled /\ link = "up" => remoteRows = dueRows

\* connection.hpp on send(): "Bytes dropped silently if ... the session has
\* gone away": nobody writes to a buffer that was freed, or to none.
SendsToLiveBuffer ==
    \A s \in Senders : sender[s] = "sending" => buffer[s] = "live"

\* A lost link, or a session that ended by itself, is cleaned up, so that the
\* supervisor can open the next one.
DropCleansUp ==
    (task # "none" /\ (link = "down" \/ ~ running)) ~> (task = "none" /\ held = {})

\* SshSession is an IConnection.
Abstract == INSTANCE Connection WITH session <-
    IF running THEN "open"
    ELSE IF TaskOwns \/ starter \in ShutdownPoints THEN "closing"
    ELSE IF StarterOwns THEN "opening" ELSE "down"

ImplementsConnection == Abstract!Spec
=============================================================================
