------------------------------- MODULE Telnet -------------------------------
(***************************************************************************)
(* The telnet transport, telnet_connection.cpp: start() on the task of the *)
(* supervisor, telnet_task, a task that calls resize() and one that types. *)
(*                                                                         *)
(* The server keeps to RFC 854: it acknowledges a change of an option and  *)
(* not an acknowledgement, and it goes on reading.  It may therefore take  *)
(* any write at once: the loop of write_raw is one step.  A size is two    *)
(* bytes, its high ones being 0.  The destructor, which alone calls        *)
(* stop(), does not run.                                                   *)
(***************************************************************************)
EXTENDS Naturals, Sequences, SequencesExt

CONSTANTS Typed,       \* bytes that are typed
          Shown,       \* bytes the server's program writes
          Offers,      \* commands the server may begin a negotiation with
          Sizes,       \* what the terminal may be resized to
          CfgSize,     \* cfg_.cols, cfg_.rows
          TxBytes,     \* kTxStreamBytes
          MaxTyped, MaxSaid, MaxSessions, MaxResizes   \* bounds

ASSUME BytesAssumption == Typed \subseteq 0 .. 255 /\ Shown \subseteq 0 .. 255
ASSUME SizesAssumption == Sizes \cup {CfgSize} \subseteq (1 .. 254) \X (1 .. 254)

VARIABLES
  starter,            \* the step start() is at
  task, then, loaded, \* the step telnet_task is at; send_naws_sb: what comes next, c
  running, taskAlive, \* g_sess
  tx, cols, rows, nawsAccepted, resizePending, pstate, cmdByte,
  chunk, data,        \* process_rx: what is left of its buffer; its data
  resizer,            \* the step resize() is at, and its arguments
  link, sessions,     \* external: is the connection up?
  down, up,           \* external: the bytes under way in each direction
  said, heard,        \* external: what the server's program wrote and read
  shown, typed,       \* what the sink was given; what the stream buffer took
  opts, win, resizes  \* external: options the server has on; its window size

worldButUp == <<link, sessions, down, said, heard, opts, win>>
world == <<worldButUp, up>>
rx == <<pstate, cmdByte, chunk, data, shown>>
flags == <<running, taskAlive>>
window == <<cols, rows, nawsAccepted, resizePending>>
resizing == <<resizer, resizes>>
sending == <<tx, typed>>
vars == <<starter, task, then, loaded, flags, window, rx, resizing, sending, world>>

IAC == 255
DONT == 254
DO == 253
WONT == 252
WILL == 251
SB == 250
SE == 240
ECHO == 1
SGA == 3
NAWS == 31
Commands == {DO, DONT, WILL, WONT}

\* Any command but the refusal of the window size, which is not remembered.
ASSUME OffersAssumption ==
  Offers \subseteq ((Commands \cup {SB}) \X (0 .. 255)) \ {<<DONT, NAWS>>}

\* A byte of data as it goes over the wire.
Escaped(b) == IF b = IAC THEN <<IAC, IAC>> ELSE <<b>>

-----------------------------------------------------------------------------
Init ==
  /\ starter = "idle" /\ task = "none" /\ then = "recv" /\ loaded = 0
  /\ running = FALSE /\ taskAlive = FALSE
  /\ tx = <<>> /\ cols = 80 /\ rows = 24 /\ nawsAccepted = FALSE /\ resizePending = FALSE
  /\ pstate = "Data" /\ cmdByte = 0 /\ chunk = <<>> /\ data = <<>>
  /\ resizer = <<"idle">> /\ resizes = 0 /\ link = FALSE /\ sessions = 0
  /\ down = <<>> /\ up = <<>> /\ said = <<>> /\ heard = <<>>
  /\ shown = <<>> /\ typed = <<>> /\ opts = {} /\ win = <<>>

Write(bytes) == up' = IF link THEN up \o bytes ELSE up

-----------------------------------------------------------------------------
(* start() *)

\* Mutant: start() looks at `running' alone.
CallUnlessRunning ==
  /\ starter = "idle" /\ ~running /\ sessions < MaxSessions
  /\ starter' = "dial"
  /\ UNCHANGED <<task, then, loaded, flags, window, rx, resizing, sending, world>>

\* Its callers look at is_connected() first.
Call ==
  /\ starter = "idle" /\ ~running /\ ~taskAlive /\ sessions < MaxSessions
  /\ starter' = "dial"
  /\ UNCHANGED <<task, then, loaded, flags, window, rx, resizing, sending, world>>

Dial ==
  /\ starter = "dial"
  /\ \/ /\ starter' = "prepare" /\ link' = TRUE /\ sessions' = sessions + 1
        /\ down' = <<>> /\ up' = <<>> /\ said' = <<>> /\ heard' = <<>>
        /\ opts' = {} /\ win' = <<>>
     \/ starter' = "idle" /\ UNCHANGED world
  /\ UNCHANGED <<task, then, loaded, flags, window, rx, resizing, sending>>

NoBuffer ==
  /\ starter = "prepare" /\ starter' = "idle" /\ link' = FALSE
  /\ UNCHANGED <<task, then, loaded, flags, window, rx, resizing, sending, sessions, down, up, said,
                 heard, opts, win>>

\* Mutant: the parser goes on where the last session left it.
PrepareAllButParser ==
  /\ starter = "prepare" /\ starter' = "hello"
  /\ tx' = <<>> /\ typed' = <<>> /\ shown' = <<>>
  /\ cols' = CfgSize[1] /\ rows' = CfgSize[2]
  /\ nawsAccepted' = FALSE /\ resizePending' = FALSE /\ running' = TRUE
  /\ UNCHANGED <<task, then, loaded, taskAlive, pstate, cmdByte, chunk, data, resizing, world>>

Prepare ==
  /\ starter = "prepare" /\ starter' = "hello"
  /\ tx' = <<>> /\ typed' = <<>> /\ shown' = <<>>
  /\ cols' = CfgSize[1] /\ rows' = CfgSize[2]
  /\ nawsAccepted' = FALSE /\ resizePending' = FALSE
  /\ pstate' = "Data" /\ running' = TRUE
  /\ UNCHANGED <<task, then, loaded, taskAlive, cmdByte, chunk, data, resizing, world>>

Hello ==
  /\ starter = "hello" /\ starter' = "spawn"
  /\ Write(<<IAC, WILL, NAWS>>)
  /\ UNCHANGED <<task, then, loaded, flags, window, rx, resizing, sending, worldButUp>>

Spawn ==
  /\ starter = "spawn"
  /\ \/ starter' = "idle" /\ task' = "created" /\ UNCHANGED running
     \/ starter' = "fail" /\ running' = FALSE /\ UNCHANGED task
  /\ UNCHANGED <<then, loaded, taskAlive, window, rx, resizing, sending, world>>

\* shutdown_session, by start().
GiveUp ==
  /\ starter = "fail" /\ starter' = "idle" /\ link' = FALSE /\ tx' = <<>>
  /\ UNCHANGED <<task, then, loaded, flags, window, rx, resizing, typed, sessions, down, up, said, heard,
                 opts, win>>

Start == Dial \/ NoBuffer \/ Prepare \/ Hello \/ Spawn \/ GiveUp

-----------------------------------------------------------------------------
(* telnet_task *)

Begin ==
  /\ task = "created" /\ task' = "top" /\ taskAlive' = TRUE
  /\ UNCHANGED <<starter, then, loaded, running, window, rx, resizing, sending, world>>

TakePending ==
  /\ task = "top" /\ resizePending' = FALSE
  /\ task' = IF resizePending /\ nawsAccepted THEN "cols" ELSE "recv"
  /\ then' = "recv"
  /\ UNCHANGED <<starter, flags, loaded, cols, rows, nawsAccepted, rx, resizing, sending,
                 world>>

\* send_naws_sb, from the loop or from a negotiation: the columns are loaded,
\* then the rows.
LoadCols ==
  /\ task = "cols" /\ task' = "rows" /\ loaded' = cols
  /\ UNCHANGED <<starter, then, flags, window, rx, resizing, sending, world>>

SendNaws ==
  /\ task = "rows" /\ task' = then
  /\ Write(<<IAC, SB, NAWS, loaded, rows, IAC, SE>>)
  /\ UNCHANGED <<starter, then, loaded, flags, window, rx, resizing, sending, worldButUp>>

\* TCP hands over one byte, or all that has come.
Recv ==
  /\ task = "recv"
  /\ \/ /\ link /\ down # <<>>
        /\ \E n \in {1, Len(down)} :
             chunk' = SubSeq(down, 1, n) /\ down' = SubSeq(down, n + 1, Len(down))
        /\ task' = "parse" /\ UNCHANGED running
     \/ link /\ down = <<>> /\ task' = "tx" /\ UNCHANGED <<running, chunk, down>>
     \/ ~link /\ task' = "end" /\ running' = FALSE /\ UNCHANGED <<chunk, down>>
  /\ UNCHANGED <<starter, then, loaded, taskAlive, window, pstate, cmdByte, data, shown,
                 resizing, sending, link, sessions, up, said, heard, opts, win>>

\* process_rx: the bytes pushed for the sink, and the next state.
Pushed(st, b) ==
  CASE st = "Data" /\ b # IAC -> <<b>>
    [] st = "Iac" /\ b = IAC -> <<IAC>>
    [] OTHER -> <<>>

NextState(st, b) ==
  CASE st = "Data" -> IF b = IAC THEN "Iac" ELSE "Data"
    [] st = "Iac" -> IF b = SB THEN "SbHead" ELSE IF b \in Commands THEN "Iac2" ELSE "Data"
    [] st = "Iac2" -> "Data"
    [] st = "SbHead" -> "SbData"
    [] st = "SbData" -> IF b = IAC THEN "SbIac" ELSE "SbData"
    [] st = "SbIac" -> IF b = IAC THEN "SbData" ELSE "Data"

\* handle_negotiation: what is answered to a command for an option.
Answer(cmd, opt) ==
  CASE cmd = DO -> IF opt = NAWS THEN WILL ELSE WONT
    [] cmd = WILL -> IF opt \in {ECHO, SGA} THEN DO ELSE DONT
    [] cmd = DONT -> WONT
    [] cmd = WONT -> DONT

Parse ==
  /\ task = "parse" /\ chunk # <<>>
  /\ LET b == Head(chunk)
         negotiates == pstate = "Iac2"
         accepts == negotiates /\ cmdByte = DO /\ b = NAWS IN
       /\ chunk' = Tail(chunk) /\ data' = data \o Pushed(pstate, b)
       /\ pstate' = NextState(pstate, b)
       /\ cmdByte' = IF pstate = "Iac" /\ b \in Commands THEN b ELSE cmdByte
       /\ Write(IF negotiates THEN <<IAC, Answer(cmdByte, b), b>> ELSE <<>>)
       /\ nawsAccepted' = (nawsAccepted \/ accepts)
       /\ task' = IF accepts THEN "cols" ELSE "parse"
       /\ then' = IF accepts THEN "parse" ELSE then
  /\ UNCHANGED <<starter, loaded, flags, cols, rows, resizePending, shown, resizing, sending,
                 worldButUp>>

\* rx_apply
Show ==
  /\ task = "parse" /\ chunk = <<>> /\ task' = "tx"
  /\ shown' = shown \o data /\ data' = <<>>
  /\ UNCHANGED <<starter, then, loaded, flags, window, pstate, cmdByte, chunk, resizing,
                 sending, world>>

\* A chunk of the stream buffer is written, byte by byte and escaped; how much
\* there was to take is chosen at its end.
Drain ==
  /\ task = "tx"
  /\ IF tx = <<>> THEN task' = "top" /\ UNCHANGED <<tx, up>>
     ELSE /\ task' \in {"tx", "top"}
          /\ tx' = Tail(tx) /\ Write(Escaped(Head(tx)))
  /\ UNCHANGED <<starter, then, loaded, flags, window, rx, resizing, typed, worldButUp>>

\* shutdown_session, by the task.
Shutdown ==
  /\ task = "end" /\ task' = "bye" /\ link' = FALSE /\ tx' = <<>>
  /\ UNCHANGED <<starter, then, loaded, flags, window, rx, resizing, typed, sessions, down,
                 up, said, heard, opts, win>>

Bye ==
  /\ task = "bye" /\ task' = "none" /\ taskAlive' = FALSE
  /\ UNCHANGED <<starter, then, loaded, running, window, rx, resizing, sending, world>>

Task ==
  \/ Begin \/ TakePending \/ LoadCols \/ SendNaws \/ Recv \/ Parse \/ Show \/ Drain
  \/ Shutdown \/ Bye

-----------------------------------------------------------------------------
(* The callers.  Nothing stands between the check of send() and the write to *)
(* the stream buffer here, of which the last bytes may not fit.               *)

Send(b) ==
  /\ running /\ Len(typed) < MaxTyped /\ Len(tx) < TxBytes
  /\ tx' = Append(tx, b) /\ typed' = Append(typed, b)
  /\ UNCHANGED <<starter, task, then, loaded, flags, window, rx, resizing, world>>

\* Mutant: the size is announced before it is there.
ResizeFlagFirst ==
  /\ \/ /\ resizer[1] = "idle" /\ running /\ resizes < MaxResizes /\ resizes' = resizes + 1
        /\ \E s \in Sizes : resizer' = <<"cols", s>>
        /\ resizePending' = TRUE /\ UNCHANGED <<cols, rows>>
     \/ /\ resizer[1] = "cols" /\ cols' = resizer[2][1]
        /\ resizer' = <<"rows", resizer[2]>>
        /\ UNCHANGED <<rows, resizePending, resizes>>
     \/ /\ resizer[1] = "rows" /\ rows' = resizer[2][2] /\ resizer' = <<"idle">>
        /\ UNCHANGED <<cols, resizePending, resizes>>
  /\ UNCHANGED <<starter, task, then, loaded, flags, nawsAccepted, rx, sending, world>>

Resize ==
  /\ \/ /\ resizer[1] = "idle" /\ running /\ resizes < MaxResizes /\ resizes' = resizes + 1
        /\ \E s \in Sizes : resizer' = <<"cols", s>>
        /\ UNCHANGED <<cols, rows, resizePending>>
     \/ /\ resizer[1] = "cols" /\ cols' = resizer[2][1]
        /\ resizer' = <<"rows", resizer[2]>>
        /\ UNCHANGED <<rows, resizePending, resizes>>
     \/ /\ resizer[1] = "rows" /\ rows' = resizer[2][2] /\ resizer' = <<"flag">>
        /\ UNCHANGED <<cols, resizePending, resizes>>
     \/ /\ resizer[1] = "flag" /\ resizePending' = TRUE /\ resizer' = <<"idle">>
        /\ UNCHANGED <<cols, rows, resizes>>
  /\ UNCHANGED <<starter, task, then, loaded, flags, nawsAccepted, rx, sending, world>>

-----------------------------------------------------------------------------
(* The server *)

LinkDrops ==
  /\ link /\ link' = FALSE
  /\ UNCHANGED <<starter, task, then, loaded, flags, window, rx, resizing, sending, sessions,
                 down, up, said, heard, opts, win>>

\* Its program writes a byte; it asks for an option to be changed; or it sends
\* a subnegotiation, with a byte of 255 in it.  `opts' holds what it asked for:
\* <<WILL, o>> for an option of its own, <<DO, o>> for one of the client.
Say(b) ==
  /\ link /\ Len(said) < MaxSaid
  /\ said' = Append(said, b) /\ down' = down \o Escaped(b)
  /\ UNCHANGED <<starter, task, then, loaded, flags, window, rx, resizing, sending, link,
                 sessions, up, heard, opts, win>>

Offer(o) ==
  /\ link /\ o \notin opts /\ opts' = opts \cup {o}
  /\ down' = down \o <<IAC, o[1], o[2]>> \o IF o[1] = SB THEN <<IAC, IAC, IAC, SE>> ELSE <<>>
  /\ UNCHANGED <<starter, task, then, loaded, flags, window, rx, resizing, sending, link,
                 sessions, up, said, heard, win>>

\* Tokens of what the client sends.
Token(s) ==
  IF Head(s) # IAC THEN <<Head(s)>>
  ELSE IF s[2] = IAC THEN SubSeq(s, 1, 2)
  ELSE IF s[2] = SB THEN SubSeq(s, 1, 7) ELSE SubSeq(s, 1, 3)

\* A request that it has not made itself is granted if it is for the window
\* size, and a mode is given up when the client asks.
Read ==
  /\ link /\ up # <<>>
  /\ LET t == Token(up)
         asks == Len(t) = 3 /\ t[2] \in Commands
         mine == IF asks /\ t[2] \in {DO, DONT} THEN <<WILL, t[3]>> ELSE <<DO, t[Len(t)]>>
         new == asks /\ t[2] \in {WILL, DO} /\ mine \notin opts
         ends == asks /\ t[2] \in {WONT, DONT} /\ mine \in opts IN
       /\ up' = SubSeq(up, Len(t) + 1, Len(up))
       /\ heard' = IF Len(t) <= 2 THEN Append(heard, t[1]) ELSE heard
       /\ win' = IF Len(t) = 7 THEN <<t[4], t[5]>> ELSE win
       /\ opts' = IF new /\ t[3] = NAWS THEN opts \cup {mine}
                  ELSE IF ends THEN opts \ {mine} ELSE opts
       /\ down' = down \o IF new THEN <<IAC, IF t[3] = NAWS THEN mine[1] ELSE DONT, t[3]>> ELSE <<>>
  /\ UNCHANGED <<starter, task, then, loaded, flags, window, rx, resizing, sending, link,
                 sessions, said>>

-----------------------------------------------------------------------------
Server == LinkDrops \/ Read \/ (\E b \in Shown : Say(b)) \/ \E o \in Offers : Offer(o)

Next == Call \/ Start \/ Task \/ Resize \/ Server \/ \E b \in Typed : Send(b)

\* Every ready task runs.
Spec == Init /\ [][Next]_vars /\ WF_vars(Task) /\ WF_vars(Start)

-----------------------------------------------------------------------------
(* Properties *)

\* Nothing is under way towards the terminal, or towards the server.
ReadUp == down = <<>> /\ chunk = <<>> /\ data = <<>>
SentUp == up = <<>> /\ tx = <<>>

\* However TCP cuts the stream up, and whatever is negotiated in between: the
\* terminal shows what the server's program wrote, and the program reads what
\* was typed, bytes of 255 included, in order, once, and to the end when
\* nothing is under way.
StreamsIntact ==
  link /\ task # "none" =>
    /\ IsPrefix(shown, said) /\ (ReadUp => shown = said)
    /\ IsPrefix(heard, typed) /\ (SentUp => heard = typed)

\* When all is said the server has the size the terminal was given last, also
\* when the size changed while the option was being negotiated or a size was
\* being sent.
WindowKept ==
  link /\ task \in {"top", "tx"} /\ ReadUp /\ up = <<>> /\ ~resizePending /\ resizer[1] = "idle"
    => win = <<cols, rows>>

\* A telnet session is an IConnection: no session begins before the task of the
\* last one has cleaned up, and it does clean up.
Abstract == INSTANCE Connection WITH session <-
    IF running THEN "open"
    ELSE IF task # "none" \/ starter = "fail" THEN "closing"
    ELSE IF starter # "idle" THEN "opening" ELSE "down"

ImplementsConnection == Abstract!Spec
=============================================================================
