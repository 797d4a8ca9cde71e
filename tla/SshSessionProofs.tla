--------------------------- MODULE SshSessionProofs ---------------------------
(***************************************************************************)
(* For any number of senders, resizers and heights: g_sess has one owner   *)
(* (OneOwnerAlways), nothing is left of a session when nobody has it       *)
(* (CleanAlways), a published resize reaches the remote unless its own     *)
(* request was refused (ResizesArrive), and every step is one that         *)
(* Connection allows (StepsOfAConnection; its fairness is model-checked    *)
(* only).                                                                  *)
(*                                                                         *)
(* The invariant says what exists at each point of start(), of ssh_task    *)
(* and of shutdown_session, which either may run; and why `running' and    *)
(* `taskAlive' together keep a second start() out: there is no moment at   *)
(* which a task exists and both are false.                                 *)
(***************************************************************************)
EXTENDS SshSession, TLAPS

LoopPoints == {"top", "exchange", "rows", "pty", "read", "write"}

Nothing == ~ running /\ held = {} /\ tx = "null"

\* What is there while shutdown_session stands at that point.
TearingDown(at) ==
    /\ at \in {"free", "delete", "forget", "done"} => ~ running
    /\ at \in {"delete", "forget", "done"} => held = {}
    /\ at = "forget" => tx # "live"
    /\ at = "done" => tx = "null"

\* start()'s caller, up to the point where the task exists.
Starting ==
    /\ starter = "dial" => Nothing
    /\ starter \in {"handshake", "channel"} => ~ running /\ tx = "null"
    /\ starter \in {"buffer", "publish", "spawn"} => held = Everything
    /\ starter = "buffer" => ~ running /\ tx = "null"
    /\ starter = "publish" => ~ running /\ tx = "live"
    /\ starter = "spawn" => running /\ tx = "live"
    /\ starter \in ShutdownPoints => TearingDown(starter)

\* ssh_task: it is running, or it tears down.
Serving ==
    /\ task \in LoopPoints \cup {"created"} => running /\ held = Everything /\ tx = "live"
    /\ task \in ShutdownPoints => TearingDown(task)

Points ==
    /\ starter \in {"idle", "called", "unowned", "dial", "handshake", "channel",
                    "buffer", "publish", "spawn"} \cup ShutdownPoints
    /\ task \in {"none", "created"} \cup LoopPoints \cup ShutdownPoints
    /\ running \in BOOLEAN

Inv ==
    /\ Points
    /\ taskAlive = (task \notin {"none", "created"})
    /\ TaskOwns => starter \in {"idle", "called"}
    /\ starter = "called" => task # "created"
    /\ ~ StarterOwns /\ ~ TaskOwns => Nothing
    /\ Starting
    /\ Serving

LEMMA Initially == Init => Inv
BY DEF Init, Inv, Points, TaskOwns, StarterOwns, Starting, Serving, TearingDown, Nothing,
       LoopPoints, ShutdownPoints

-----------------------------------------------------------------------------
\* Steps that touch neither the owner's place nor what it owns.
LEMMA Aside ==
    ASSUME Inv, UNCHANGED <<running, taskAlive, held, tx, starter, task>>
    PROVE  Inv'
BY DEF Inv, Points, TaskOwns, StarterOwns, Starting, Serving, TearingDown, Nothing

LEMMA CallerKeeps == ASSUME Inv, CallerStep \/ LinkChange PROVE Inv'
<1>1. UNCHANGED <<running, taskAlive, held, tx, starter, task>>
    BY DEF CallerStep, CheckSend, LoadBuffer, Sent, CheckResize, StoreRows, StoreCols,
           LinkChange, flagVars, resVars, taskVars
<1> QED
    BY <1>1, Aside

LEMMA CallKeeps ==
    ASSUME Inv, Call \/ RefuseWhileTaskAlive \/ RefuseWhileRunning
    PROVE  Inv'
<1>1. UNCHANGED <<running, taskAlive, held, tx, task>>
    BY DEF Call, RefuseWhileTaskAlive, RefuseWhileRunning, flagVars, resVars, taskVars
<1>2. CASE Call
    BY <1>1, <1>2 DEF Call, Inv, Points, TaskOwns, StarterOwns, Starting, Serving,
                      TearingDown, Nothing, LoopPoints, ShutdownPoints
<1>3. CASE RefuseWhileTaskAlive
    BY <1>1, <1>3 DEF RefuseWhileTaskAlive, Inv, Points, TaskOwns, StarterOwns, Starting,
                      Serving, TearingDown, Nothing, LoopPoints, ShutdownPoints
<1>4. CASE RefuseWhileRunning
    BY <1>1, <1>4 DEF RefuseWhileRunning, Inv, Points, TaskOwns, StarterOwns, Starting,
                      Serving, TearingDown, Nothing, LoopPoints, ShutdownPoints
<1> QED
    BY <1>2, <1>3, <1>4

\* One step of shutdown_session makes what its next point counts on.
LEMMA ShutdownSteps ==
    ASSUME NEW at, NEW after, Shutdown(at, after), TearingDown(at), running \in BOOLEAN
    PROVE  /\ TearingDown(after)' /\ running' \in BOOLEAN /\ taskAlive' = taskAlive
           /\ at \in ShutdownPoints \ {"done"}
           /\ after \in ShutdownPoints \ {"fail"}
<1>1. CASE at = "fail" /\ after = "free" /\ Unpublish
    BY <1>1 DEF TearingDown, Unpublish, ShutdownPoints
<1>2. CASE at = "free" /\ after = "delete" /\ FreeObjects
    BY <1>2 DEF TearingDown, FreeObjects, flagVars, ShutdownPoints
<1>3. CASE at = "delete" /\ after = "forget" /\ DeleteBuffer
    BY <1>3 DEF TearingDown, DeleteBuffer, flagVars, ShutdownPoints
<1>4. CASE at = "forget" /\ after = "done" /\ ForgetBuffer
    BY <1>4 DEF TearingDown, ForgetBuffer, flagVars, ShutdownPoints
<1> QED
    BY <1>1, <1>2, <1>3, <1>4 DEF Shutdown

LEMMA StartKeeps == ASSUME Inv, StartStep PROVE Inv'
<1> USE DEF Inv, Points, TaskOwns, StarterOwns, Starting, Serving, TearingDown, Nothing,
            LoopPoints, ShutdownPoints
<1>1. CASE RefuseWhileTaskAlive \/ RefuseWhileRunning
    BY <1>1, CallKeeps
<1>2. CASE Dial
    BY <1>2 DEF Dial, flagVars, taskVars
<1>3. CASE Authenticate
    BY <1>3 DEF Authenticate, flagVars, resVars, taskVars
<1>4. CASE OpenShell
    BY <1>4 DEF OpenShell, flagVars, taskVars
<1>5. CASE CreateBuffer
    BY <1>5 DEF CreateBuffer, flagVars, taskVars
<1>6. CASE Publish
    BY <1>6 DEF Publish, resVars, taskVars
<1>7. CASE Spawn
    BY <1>7 DEF Spawn, flagVars, resVars
<1>8. CASE starter = "done" /\ GiveUp
    BY <1>8 DEF GiveUp, Shutdown, flagVars, resVars, taskVars
<1>9. CASE starter # "done" /\ GiveUp
    <2>1. PICK after : Shutdown(starter, after) /\ starter' = after /\ task' = task
        BY <1>9 DEF GiveUp
    <2>2. task = "none"
        BY <2>1 DEF Shutdown
    <2> HIDE DEF Inv, Points, TaskOwns, StarterOwns, Starting, Serving, TearingDown, Nothing,
                 LoopPoints, ShutdownPoints
    <2>3. TearingDown(starter) /\ running \in BOOLEAN /\ taskAlive = FALSE
        BY <2>1, <2>2 DEF Inv, Starting, Points, Shutdown, ShutdownPoints
    <2>4. /\ TearingDown(after)' /\ running' \in BOOLEAN /\ taskAlive' = taskAlive
          /\ after \in ShutdownPoints
        BY <2>1, <2>3, ShutdownSteps
    <2>5. TearingDown(starter)'
        BY <2>1, <2>4 DEF TearingDown
    <2> QED
        BY <2>1, <2>2, <2>3, <2>4, <2>5
        DEF Inv, Points, TaskOwns, StarterOwns, Starting, Serving, LoopPoints, ShutdownPoints
<1> QED
    BY <1>1, <1>2, <1>3, <1>4, <1>5, <1>6, <1>7, <1>8, <1>9 DEF StartStep

LEMMA TaskKeeps == ASSUME Inv, TaskStep PROVE Inv'
<1> USE DEF Inv, Points, TaskOwns, StarterOwns, Starting, Serving, TearingDown, Nothing,
            LoopPoints, ShutdownPoints
<1>1. CASE Enter
    BY <1>1 DEF Enter, resVars
<1>2. CASE Top
    BY <1>2 DEF Top, resVars
<1>3. CASE TakeResize \/ LoadRows \/ RequestPty
    BY <1>3 DEF TakeResize, LoadRows, RequestPty, flagVars, resVars
<1>4. CASE Read
    BY <1>4 DEF Read
<1>5. CASE Write
    BY <1>5 DEF Write
<1>6. CASE TearDown
    <2>1. PICK after : Shutdown(task, after) /\ task' = after /\ starter' = starter
        BY <1>6 DEF TearDown
    <2>2. starter \in {"idle", "called"} /\ task \notin {"none", "created"}
        BY <2>1 DEF Shutdown
    <2> HIDE DEF Inv, Points, TaskOwns, StarterOwns, Starting, Serving, TearingDown, Nothing,
                 LoopPoints, ShutdownPoints
    <2>3. TearingDown(task) /\ running \in BOOLEAN
        BY <2>1 DEF Inv, Serving, Points, Shutdown, ShutdownPoints
    <2>4. /\ TearingDown(after)' /\ running' \in BOOLEAN /\ taskAlive' = taskAlive
          /\ after \in ShutdownPoints
        BY <2>1, <2>3, ShutdownSteps
    <2>5. TearingDown(task)'
        BY <2>1, <2>4 DEF TearingDown
    <2> QED
        BY <2>1, <2>2, <2>3, <2>4, <2>5
        DEF Inv, Points, TaskOwns, StarterOwns, Starting, Serving, LoopPoints, ShutdownPoints
<1>7. CASE Exit
    BY <1>7 DEF Exit, resVars
<1> QED
    BY <1>1, <1>2, <1>3, <1>4, <1>5, <1>6, <1>7 DEF TaskStep

LEMMA Invariant == Spec => []Inv
<1>1. Inv /\ [Next]_vars => Inv'
    BY CallKeeps, StartKeeps, TaskKeeps, CallerKeeps, Aside
    DEF Next, vars, flagVars, resVars, taskVars
<1> QED
    BY <1>1, Initially, PTL DEF Spec

-----------------------------------------------------------------------------
(* Whatever order the atomics are read and written in, g_sess is never      *)
(* start()'s and ssh_task's at a time.                                      *)
THEOREM OneOwnerAlways == Spec => []OneOwner
<1>1. Inv => OneOwner
    BY DEF Inv, OneOwner, TaskOwns, StarterOwns, ShutdownPoints
<1> QED
    BY <1>1, Invariant, PTL

(* When a session is over, or has failed to begin at any of its steps,      *)
(* nothing of it is left: flags, objects, socket and buffer.                *)
THEOREM CleanAlways == Spec => []CleanWhenDown
<1>1. Inv => CleanWhenDown
    BY DEF Inv, CleanWhenDown, TaskOwns, StarterOwns, Nothing
<1> QED
    BY <1>1, Invariant, PTL

-----------------------------------------------------------------------------
\* A resizer has stored its rows and is about to publish them.
Publishing == \E z \in Resizers : resizer[z] = "cols"

Opened == starter \in {"buffer", "publish", "spawn"} \/ task \in LoopPoints \cup {"created"}

\* With nothing left to take, the rows due are where the task is about to look
\* for them, in its hand, or at the remote.
Delivered ==
    /\ task = "rows" => pendingRows = dueRows
    /\ task = "pty" => taskRows = dueRows
    /\ task \notin {"rows", "pty"} => dueRows \in {remoteRows, refusedRows}

ResizeInv ==
    /\ resizer \in [Resizers -> {"idle", "rows", "cols"}]
    /\ pendingCols \in BOOLEAN
    /\ pendingCols /\ ~ Publishing => pendingRows = dueRows
    /\ Opened /\ ~ pendingCols /\ ~ Publishing => Delivered

LEMMA ResizeInitially == Init => ResizeInv
BY DEF Init, ResizeInv, Publishing, Opened, LoopPoints

\* Whoever is about to publish ends that by making a resize pending.
LEMMA ResizersKeep ==
    ASSUME ResizeInv, CallerStep
    PROVE  ResizeInv'
<1>1. CASE \E s \in Senders : CheckSend(s) \/ LoadBuffer(s) \/ Sent(s)
    BY <1>1 DEF CheckSend, LoadBuffer, Sent, resizeVars, taskVars, remoteVars, ResizeInv, Publishing,
                Opened, Delivered
<1>2. ASSUME NEW z \in Resizers, CheckResize(z)
      PROVE  ResizeInv'
    <2>1. Publishing' = Publishing
        BY <1>2 DEF CheckResize, Publishing, ResizeInv
    <2> QED
        BY <1>2, <2>1 DEF CheckResize, taskVars, remoteVars, ResizeInv, Opened, Delivered
<1>3. ASSUME NEW z \in Resizers, NEW rows \in Rows, StoreRows(z, rows)
      PROVE  ResizeInv'
    BY <1>3 DEF StoreRows, ResizeInv, Publishing
<1>4. ASSUME NEW z \in Resizers, StoreCols(z)
      PROVE  ResizeInv'
    BY <1>4 DEF StoreCols, ResizeInv
<1> QED
    BY <1>1, <1>2, <1>3, <1>4 DEF CallerStep

LEMMA StartKeepsResize ==
    ASSUME Inv, ResizeInv, Call \/ StartStep
    PROVE  ResizeInv'
<1> USE DEF ResizeInv, Publishing, Opened, Delivered, LoopPoints, Inv, Points, TaskOwns
<1>1. CASE Call \/ RefuseWhileTaskAlive \/ RefuseWhileRunning
    BY <1>1 DEF Call, RefuseWhileTaskAlive, RefuseWhileRunning, resizeVars, taskVars, remoteVars
<1>2. CASE Dial
    BY <1>2 DEF Dial, resizeVars, taskVars, remoteVars
<1>3. CASE Authenticate
    BY <1>3 DEF Authenticate, resizeVars, taskVars, remoteVars
<1>4. CASE OpenShell
    BY <1>4 DEF OpenShell, taskVars, remoteVars
<1>5. CASE CreateBuffer \/ Publish \/ Spawn
    BY <1>5 DEF CreateBuffer, Publish, Spawn, resizeVars, taskVars, remoteVars
<1>6. CASE GiveUp
    BY <1>6 DEF GiveUp, Shutdown, Unpublish, FreeObjects, DeleteBuffer, ForgetBuffer,
                resizeVars, taskVars, remoteVars, ShutdownPoints
<1> QED
    BY <1>1, <1>2, <1>3, <1>4, <1>5, <1>6 DEF StartStep

LEMMA TaskKeepsResize ==
    ASSUME Inv, ResizeInv, TaskStep
    PROVE  ResizeInv'
<1> USE DEF ResizeInv, Publishing, Opened, Delivered, LoopPoints, Inv, TaskOwns
<1>1. CASE Enter \/ Top \/ Exit
    BY <1>1 DEF Enter, Top, Exit, resizeVars, remoteVars
<1>2. CASE Read
    <2>1. UNCHANGED <<pendingCols, pendingRows, resizer, dueRows, taskRows, starter,
                      remoteRows, refusedRows>>
        BY <1>2 DEF Read, resizeVars, remoteVars
    <2>2. task = "read" /\ task' \in {"write", "fail"}
        BY <1>2 DEF Read
    <2> QED
        BY <2>1, <2>2
<1>3. CASE Write
    BY <1>3 DEF Write, resizeVars, remoteVars
<1>4. CASE TakeResize
    BY <1>4 DEF TakeResize, remoteVars
<1>5. CASE LoadRows
    BY <1>5 DEF LoadRows, resizeVars, remoteVars
<1>6. CASE RequestPty
    BY <1>6 DEF RequestPty, resizeVars
<1>7. CASE TearDown
    BY <1>7 DEF TearDown, Shutdown, Unpublish, FreeObjects, DeleteBuffer, ForgetBuffer,
                resizeVars, taskVars, remoteVars
<1> QED
    BY <1>1, <1>2, <1>3, <1>4, <1>5, <1>6, <1>7 DEF TaskStep

(* The resize published last is the one the remote is told, for any number  *)
(* of resizers that overtake each other and the task, and over any number   *)
(* of sessions; what libssh2 refuses is the only one that is lost.          *)
THEOREM ResizesArrive == Spec => []ResizeHonoured
<1>1. Inv /\ ResizeInv /\ [Next]_vars => ResizeInv'
    <2> SUFFICES ASSUME Inv, ResizeInv, [Next]_vars
                 PROVE  ResizeInv'
        OBVIOUS
    <2>1. CASE LinkChange
        BY <2>1 DEF LinkChange, resizeVars, taskVars, remoteVars, ResizeInv, Publishing, Opened,
                    Delivered
    <2>2. CASE UNCHANGED vars
        BY <2>2 DEF vars, resizeVars, taskVars, remoteVars, ResizeInv, Publishing, Opened, Delivered
    <2> QED
        BY <2>1, <2>2, ResizersKeep, StartKeepsResize, TaskKeepsResize DEF Next
<1>2. ResizeInv => ResizeHonoured
    BY DEF ResizeInv, ResizeHonoured, Settled, Publishing, Opened, Delivered, LoopPoints
<1> QED
    BY <1>1, <1>2, ResizeInitially, Invariant, PTL DEF Spec

-----------------------------------------------------------------------------
\* The session as its users see it: the mapping of ImplementsConnection.
phase ==
    IF running THEN "open"
    ELSE IF TaskOwns \/ starter \in ShutdownPoints THEN "closing"
    ELSE IF StarterOwns THEN "opening" ELSE "down"

C == INSTANCE Connection WITH session <- phase

(* Every step is one of Connection, or none of its users sees it.           *)
THEOREM StepsOfAConnection == Spec => C!Init /\ [][C!Next]_phase
<1>1. Init => C!Init
    BY DEF Init, C!Init, phase, TaskOwns, StarterOwns, ShutdownPoints
<1>2. Inv /\ [Next]_vars => [C!Next]_phase
    <2> SUFFICES ASSUME Inv, [Next]_vars
                 PROVE  C!Next \/ phase' = phase
        OBVIOUS
    <2> USE DEF C!Next, C!Begin, C!Refuse, C!Abort, C!Establish, C!Drop, C!Finish, phase,
                TaskOwns, StarterOwns, ShutdownPoints
    <2>1. CASE UNCHANGED <<running, starter, task>>
        BY <2>1
    <2>2. CASE Call \/ RefuseWhileTaskAlive \/ RefuseWhileRunning
        BY <2>2 DEF Call, RefuseWhileTaskAlive, RefuseWhileRunning, flagVars, taskVars,
                    Inv, Points, LoopPoints
    <2>3. CASE Dial \/ Authenticate \/ OpenShell \/ CreateBuffer \/ Publish
        BY <2>3 DEF Dial, Authenticate, OpenShell, CreateBuffer, Publish, flagVars,
                    taskVars, Inv, Points, LoopPoints, Starting, Nothing
    <2>4. CASE Spawn
        BY <2>4 DEF Spawn, flagVars, Inv, Points, LoopPoints, Starting
    <2>5. CASE GiveUp
        BY <2>5 DEF GiveUp, Shutdown, Unpublish, FreeObjects, DeleteBuffer, ForgetBuffer,
                    flagVars, taskVars, Inv, Points, LoopPoints, Starting, TearingDown
    <2>6. CASE Enter \/ Top \/ TakeResize \/ LoadRows \/ RequestPty \/ Read \/ Write
        BY <2>6 DEF Enter, Top, TakeResize, LoadRows, RequestPty, Read, Write, flagVars,
                    Inv, Points, LoopPoints, Serving
    <2>7. CASE TearDown
        BY <2>7 DEF TearDown, Shutdown, Unpublish, FreeObjects, DeleteBuffer, ForgetBuffer,
                    flagVars, Inv, Points, LoopPoints, Serving, TearingDown
    <2>8. CASE Exit
        BY <2>8 DEF Exit, Inv, Points, LoopPoints, Serving, TearingDown
    <2>9. CASE CallerStep \/ LinkChange
        BY <2>1, <2>9 DEF CallerStep, CheckSend, LoadBuffer, Sent, CheckResize, StoreRows,
                          StoreCols, LinkChange, flagVars, taskVars
    <2>10. CASE UNCHANGED vars
        BY <2>1, <2>10 DEF vars, flagVars, taskVars
    <2> QED
        BY <2>2, <2>3, <2>4, <2>5, <2>6, <2>7, <2>8, <2>9, <2>10
        DEF Next, StartStep, TaskStep
<1> QED
    BY <1>1, <1>2, Invariant, PTL DEF Spec
=============================================================================
