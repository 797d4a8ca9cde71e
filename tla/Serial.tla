------------------------------- MODULE Serial -------------------------------
(***************************************************************************)
(* The USB serial transport: usbserial_connection.cpp over the FTDI driver *)
(* (ftdi_sio_host.c, ftdi_host_protocol.c).                                *)
(*                                                                         *)
(* The supervisor's task runs start().  The driver's own task (client) has *)
(* the callbacks: a completed transfer, a device that is gone.  Any task   *)
(* of the interface may send().  The adapter is plugged in and out, and    *)
(* each time it is plugged in it is another device; an object of the       *)
(* driver has the number of its device.                                    *)
(*                                                                         *)
(* The gone callback runs inside a critical section and far quicker than   *)
(* a bus enumeration: it is one step.  stop() is called by the destructor  *)
(* alone, of an object that lives as long as the program.  A second open   *)
(* of a listed device cannot happen then, nor an uninstall.                *)
(***************************************************************************)
EXTENDS Naturals, Sequences

CONSTANTS Mps,         \* bulk IN packet size: two status bytes and the data
          Packets,     \* packets of a bulk IN transfer
          BaseClock,   \* base clocks of the adapters that may be plugged in
          Baud,        \* rates that may be configured
          Typed,       \* what may be sent
          MaxPlugs, MaxData, MaxSends   \* bounds

ASSUME SizesAssumption == Mps \in Nat /\ Mps > 2 /\ Packets \in Nat \ {0}
ASSUME RatesAssumption == BaseClock \subseteq Nat /\ Baud \subseteq Nat \ {0}
ASSUME BoundsAssumption ==
  MaxPlugs \in Nat /\ MaxData \in Nat /\ MaxSends \in Nat

VARIABLES
  plug, plugs,    \* external: the device that is plugged in, 0 for none
  clock,          \* external: its base clock
  baud,           \* cfg_.baud
  owner,          \* the step start() is at
  dev,            \* ... and the device it has opened
  hdl, serialUp,   \* g_sess
  opened, claimed, list,   \* USB library; ftdi_devices_list
  gone,           \* external: devices whose removal is still to be reported
  missed,         \* history: was a removal reported while start() was at work?
  in,             \* the IN transfer: is it submitted, and what it has
  data,           \* external: data bytes the device has sent
  rcvd,           \* the bytes the sink was given in this session
  out, ctl,       \* out_xfer and ctrl_transfer
  typed, arrived, \* what send() took in this session, and what the device got
  set,            \* external: the requests the device has obeyed
  lost            \* history: did a request of this session not get through?

transfer == <<in, data, rcvd>>
usb == <<opened, claimed, list>>
requests == <<ctl, set, lost>>
outgoing == <<out, typed, arrived, requests>>
world == <<plug, plugs, clock, baud, gone, missed>>
serialVars == <<world, owner, dev, hdl, serialUp, usb, transfer, outgoing>>

Devices == 1 .. MaxPlugs
Still == [flight |-> FALSE, was |-> 0, buf |-> 0]

-----------------------------------------------------------------------------
(* ftdi_calculate_baudrate_divisor: the 16 bits of value and those of index *)
(* above them.                                                              *)

Integral == 16384   \* 2^14: the integral part has 14 bits
Eighths(c, b) == (c * 8) \div b

\* Mutant: the eighths themselves for a code.
PlainFraction == [f \in 0 .. 7 |-> f]

FractionCode == [f \in 0 .. 7 |-> <<0, 3, 2, 4, 1, 5, 6, 7>>[f + 1]]

\* Bitwise or, of three bits.
Or(x, y) ==
  LET bit(w) == IF (x \div w) % 2 = 1 \/ (y \div w) % 2 = 1 THEN w ELSE 0 IN
    bit(1) + bit(2) + bit(4)

\* A wider integral part gets under the code.
Accepted(c, b) == b >= 300 /\ b <= c \div 2
Encoded(c, b) ==
  LET d == Eighths(c, b)
      whole == d \div 8 IN
    (whole % Integral) + Integral * Or(whole \div Integral, FractionCode[d % 8])

\* The divisor of the rate fits into its 14 bits.
Fits(c, b) == Eighths(c, b) < 8 * Integral

\* external: how the chip reads them.
Decoded(e) ==
  LET code == (e \div Integral) % 8 IN
    8 * (e % Integral) + CHOOSE f \in 0 .. 7 : <<0, 3, 2, 4, 1, 5, 6, 7>>[f + 1] = code

-----------------------------------------------------------------------------
SerialInit ==
  /\ plug = 0 /\ plugs = 0 /\ gone = {} /\ missed = FALSE
  /\ clock \in BaseClock /\ baud \in Baud
  /\ owner = "idle" /\ dev = 0 /\ hdl = 0 /\ serialUp = FALSE
  /\ opened = {} /\ claimed = {} /\ list = {}
  /\ in = [flight |-> FALSE, bytes |-> <<>>] /\ data = 0 /\ rcvd = <<>>
  /\ out = Still /\ ctl = Still /\ typed = <<>> /\ arrived = <<>> /\ set = {}
  /\ lost = FALSE

-----------------------------------------------------------------------------
(* The adapter *)

Plug ==
  /\ plug = 0 /\ plugs < MaxPlugs
  /\ plug' = plugs + 1 /\ plugs' = plugs + 1 /\ clock' \in BaseClock
  /\ data' = 0 /\ set' = {}
  /\ UNCHANGED <<baud, gone, missed, owner, dev, hdl, serialUp, usb, in, rcvd, out, ctl,
                 typed, arrived, lost>>

\* Its transfers are over; if the driver has it open, it will be told.
Unplug ==
  /\ plug # 0 /\ plug' = 0
  /\ gone' = gone \cup (opened \cap {plug})
  /\ in' = [flight |-> FALSE, bytes |-> <<>>] /\ out' = Still /\ ctl' = Still
  /\ UNCHANGED <<plugs, clock, baud, missed, owner, dev, hdl, serialUp, usb, data, rcvd,
                 typed, arrived, set, lost>>

\* A transfer ends with its first short packet, or full: the status bytes are
\* zeros here, the data bytes count up.
Transfer(from, length) ==
  [i \in 1 .. length |->
     LET k == (i - 1) % Mps IN
       IF k < 2 THEN 0 ELSE from + ((i - 1) \div Mps) * (Mps - 2) + k - 1]

InDone ==
  /\ in.flight /\ in.bytes = <<>>
  /\ \E full \in 0 .. Packets : \E last \in 0 .. (Mps - 3) :
       LET short == full < Packets
           n == full * (Mps - 2) + IF short THEN last ELSE 0 IN
         /\ data + n <= MaxData /\ data' = data + n
         /\ in' = [in EXCEPT !.bytes =
              Transfer(data, full * Mps + IF short THEN last + 2 ELSE 0)]
  /\ UNCHANGED <<world, owner, dev, hdl, serialUp, usb, rcvd, outgoing>>

\* The host controller reads a buffer that may be rewritten meanwhile.
OutDone ==
  /\ out.flight /\ out' = Still
  /\ \E x \in {out.was, out.buf} : arrived' = Append(arrived, x)
  /\ UNCHANGED <<world, owner, dev, hdl, serialUp, usb, transfer, typed, requests>>

\* A request that fails is logged (out_xfer_cb).
CtlDone ==
  /\ ctl.flight /\ ctl' = Still
  /\ \/ /\ \E r \in {ctl.was, ctl.buf} : set' = {x \in set : x[1] # r[1]} \cup {r}
        /\ UNCHANGED lost
     \/ lost' = TRUE /\ UNCHANGED set
  /\ UNCHANGED <<world, owner, dev, hdl, serialUp, usb, transfer, out, typed, arrived>>

-----------------------------------------------------------------------------
(* The client task *)

\* Mutant: only the first packet of a transfer is taken to have a status.
FirstStatus(b) == SubSeq(b, 3, Len(b))

\* in_xfer_cb: what is left of every packet without its status bytes.
Kept(total) ==
  LET rest == total % Mps IN
    (total \div Mps) * (Mps - 2) + IF rest > 2 THEN rest - 2 ELSE 0
Stripped(b) ==
  [k \in 1 .. Kept(Len(b)) |->
     b[((k - 1) \div (Mps - 2)) * Mps + ((k - 1) % (Mps - 2)) + 3]]

InXferCb ==
  /\ in.bytes # <<>>
  /\ rcvd' = rcvd \o Stripped(in.bytes)
  /\ in' = [in EXCEPT !.bytes = <<>>]
  /\ UNCHANGED <<world, owner, dev, hdl, serialUp, usb, data, outgoing>>

\* ftdi_sio_host_close
Closed(d) ==
  /\ list' = list \ {d} /\ claimed' = claimed \ {d} /\ opened' = opened \ {d}

\* Mutant: the device is closed and the session goes on without it.
JustClosed(d) ==
  /\ d \in gone /\ gone' = gone \ {d} /\ missed' = (missed \/ owner # "idle")
  /\ hdl' = IF d \in list THEN 0 ELSE hdl
  /\ IF d \in list /\ hdl # 0 THEN Closed(hdl) ELSE UNCHANGED usb
  /\ UNCHANGED <<serialUp, plug, plugs, clock, baud, owner, dev, transfer, outgoing>>

\* DEV_GONE: on_event for a listed device, which closes the session's handle.
DeviceGone(d) ==
  /\ d \in gone /\ gone' = gone \ {d} /\ missed' = (missed \/ owner # "idle")
  /\ IF d \in list
     THEN /\ serialUp' = FALSE /\ hdl' = 0
          /\ IF hdl = 0 THEN UNCHANGED usb ELSE Closed(hdl)
     ELSE UNCHANGED <<serialUp, hdl, usb>>
  /\ UNCHANGED <<plug, plugs, clock, baud, owner, dev, transfer, outgoing>>

-----------------------------------------------------------------------------
(* start(), by the boot task and then by the supervisor *)

At(pc) == owner = pc
To(pc) == owner' = pc

\* ftdi_find_and_open_usb_device
Find ==
  /\ At("idle") /\ ~serialUp
  /\ IF plug # 0
     THEN To("open") /\ dev' = plug /\ opened' = opened \cup {plug}
     ELSE UNCHANGED <<owner, dev, opened>>
  /\ UNCHANGED <<world, hdl, serialUp, claimed, list, transfer, outgoing>>

\* The descriptor or the memory is not there: ftdi_device_remove.
OpenFails ==
  /\ At("open") /\ To("idle") /\ dev' = 0 /\ opened' = opened \ {dev}
  /\ UNCHANGED <<world, hdl, serialUp, claimed, list, transfer, outgoing>>

\* ftdi_start, first half; a submission the library refuses restarts the
\* program.
Claim ==
  /\ At("open")
  /\ IF plug = dev
     THEN /\ To("insert") /\ claimed' = claimed \cup {dev}
          /\ in' = [flight |-> TRUE, bytes |-> <<>>] /\ rcvd' = [i \in 1 .. data |-> i]
          /\ typed' = <<>> /\ arrived' = <<>> /\ out' = Still /\ ctl' = Still /\ lost' = FALSE
          /\ UNCHANGED <<dev, hdl, opened, list, gone>>
     ELSE /\ To("idle") /\ dev' = 0 /\ hdl' = 0 /\ gone' = {}
          /\ opened' = {} /\ claimed' = {} /\ list' = {}
          /\ UNCHANGED <<in, rcvd, typed, arrived, out, ctl, lost>>
  /\ UNCHANGED <<plug, plugs, clock, baud, missed, serialUp, data, set>>

Insert ==
  /\ At("insert") /\ To("reset") /\ list' = list \cup {dev}
  /\ UNCHANGED <<world, dev, hdl, serialUp, opened, claimed, transfer, outgoing>>

\* ftdi_sio_host_send_custom_request does not wait: the buffer is written, and
\* the library refuses a transfer that is still in flight, so that one of the
\* two requests is lost.  Nobody looks at what it returns.
Request(d, r) ==
  IF d # plug THEN UNCHANGED <<ctl, lost>>
  ELSE /\ ctl' = IF ctl.flight THEN [ctl EXCEPT !.buf = r]
                 ELSE [flight |-> TRUE, was |-> r, buf |-> r]
       /\ lost' = (lost \/ ctl.flight)

Ask(pc, next, r) ==
  /\ At(pc) /\ To(next) /\ Request(dev, r)
  /\ UNCHANGED <<world, dev, hdl, serialUp, usb, transfer, out, typed, arrived, set>>

Reset == Ask("reset", "latency", <<"reset">>)
Latency == Ask("latency", "modem", <<"latency">>)
ModemCtrl == Ask("modem", "return", <<"modem">>)

Return ==
  /\ At("return") /\ To("baud") /\ hdl' = dev
  /\ UNCHANGED <<world, dev, serialUp, usb, transfer, outgoing>>

BaudRequest == <<"baud", Encoded(clock, baud)>>
LineRequest == <<"line">>

\* A rate the chip cannot have is refused, and the session goes on.
SetBaud ==
  /\ At("baud") /\ To("line")
  /\ IF hdl # 0 /\ Accepted(clock, baud)
     THEN Request(hdl, BaudRequest) ELSE UNCHANGED <<ctl, lost>>
  /\ UNCHANGED <<world, dev, hdl, serialUp, usb, transfer, out, typed, arrived, set>>

SetLine ==
  /\ At("line") /\ To("run")
  /\ IF hdl # 0 THEN Request(hdl, LineRequest) ELSE UNCHANGED <<ctl, lost>>
  /\ UNCHANGED <<world, dev, hdl, serialUp, usb, transfer, out, typed, arrived, set>>

Run ==
  /\ At("run") /\ To("idle") /\ serialUp' = TRUE /\ dev' = 0
  /\ UNCHANGED <<world, hdl, usb, transfer, outgoing>>

Start ==
  \/ Find \/ Claim \/ Insert \/ Reset \/ Latency \/ ModemCtrl
  \/ Return \/ SetBaud \/ SetLine \/ Run

-----------------------------------------------------------------------------
\* send(): ftdi_sio_host_data_tx_blocking, which does not block.
Send(x) ==
  /\ serialUp /\ hdl # 0 /\ hdl = plug /\ Len(typed) < MaxSends
  /\ typed' = Append(typed, x)
  /\ out' = IF out.flight THEN [out EXCEPT !.buf = x]
            ELSE [flight |-> TRUE, was |-> x, buf |-> x]
  /\ UNCHANGED <<world, owner, dev, hdl, serialUp, usb, transfer, arrived, requests>>

-----------------------------------------------------------------------------
Client == InXferCb \/ \E d \in Devices : DeviceGone(d)

SerialNext ==
  \/ Plug \/ Unplug \/ InDone \/ OutDone \/ CtlDone \/ Client \/ Start \/ OpenFails
  \/ \E x \in Typed : Send(x)

\* The tasks run; transfers complete; an adapter does not refuse for ever.
SerialSpec ==
  /\ SerialInit /\ [][SerialNext]_serialVars
  /\ WF_serialVars(Client) /\ WF_serialVars(Find) /\ SF_serialVars(Claim)
  /\ WF_serialVars(Start /\ owner # "idle")
  /\ WF_serialVars(OutDone) /\ WF_serialVars(CtlDone)

-----------------------------------------------------------------------------
(* Properties *)

\* What the terminal is given is what the adapter sent since the session was
\* opened, every byte once and in order, and none of the status bytes that
\* head every packet.
StreamIntact ==
  rcvd = [i \in 1 .. Len(rcvd) |-> i]

\* A transport that is down and not starting has let go of every device: an
\* adapter that was pulled out or that refused leaves nothing behind that would
\* be in the way of the next start().
NothingLeft ==
  owner = "idle" /\ ~serialUp => hdl = 0 /\ opened = {} /\ claimed = {} /\ list = {}

\* A request obeyed is one for the configured rate, to the eighth of the divisor
\* that the chips can express.
RightRate(r) ==
  LET d == Decoded(r[2]) IN d * baud <= 8 * clock /\ (d + 1) * baud > 8 * clock

\* A rate the driver accepts and whose divisor fits is the one the adapter runs
\* at: no other is ever asked for, and once a session is up and its requests are
\* over, this one has been obeyed, whatever was plugged in and out before.  The
\* exceptions are a request that failed, or that another one of the same start()
\* met in the shared transfer.
RateHonoured ==
  Accepted(clock, baud) /\ Fits(clock, baud) =>
    /\ \A r \in set : r[1] = "baud" => RightRate(r)
    /\ serialUp /\ hdl # 0 /\ hdl = plug /\ ~ctl.flight /\ ~lost
         => \E r \in set : r[1] = "baud"

\* An adapter that stays plugged in is a session in the end, however often it
\* or another was pulled out before: the supervisor sees every end and every
\* refusal.  (One reported gone while start() is at work is the exception: the
\* session is then marked as running without a device.)
ComesBack ==
  \A d \in Devices : <>[](plug = d /\ ~missed) => <>[](serialUp /\ hdl = d)

\* data_tx_blocking: "This function blocks until all data is transmitted": once
\* no transfer is in flight, the adapter has got what was sent.
SendsArrive ==
  plug # 0 /\ hdl = plug /\ ~out.flight => arrived = typed
=============================================================================
