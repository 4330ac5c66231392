-------------------------------- MODULE Usb --------------------------------
(***************************************************************************)
(* The USB driver, a user program (user/sl811.c): it sets up a keyboard    *)
(* behind the SL811 host controller by control transfers and then polls it *)
(* for reports, whose characters it writes to the stdin device.            *)
(*   A packet goes in three steps: the driver writes the transfer          *)
(* registers and arms the controller; the controller and the device carry  *)
(* it out; the driver polls IRQ_STATUS, yielding the processor between two *)
(* looks, until the transfer is done or it gives up.  The controller and   *)
(* the keyboard are external: they do what the driver's code expects of    *)
(* them, with the answers that a bus may give.                             *)
(***************************************************************************)
EXTENDS Integers, Sequences, SequencesExt

CONSTANTS Reports,      \* what the keyboard may report: sequences of usage codes
          MaxReports,   \* bounds: reports, answers other than the regular one,
          MaxFaults,    \*   and transfers given up by the driver
          MaxTimeouts

\* PKTSTATREG
ACK == "ACK"
NAK == "NAK"
STALL == "STALL"
TMOUT == "TMOUT"
ERROR == "ERROR"

None == << >>    \* no request pending, no transfer armed; one is a singleton

VARIABLES script,      \* the packets of the command that are still to come
          waits,       \* the driver is in wait_transfer
          a,           \* what the in_packet of usb_int_in returned
          buf,         \* g_buf
          last_status,
          typed,       \* history: the characters written to the stdin device
          hc,          \* controller: the transfer armed, done bit, status, memory
          dev,         \* keyboard: address, configuration, pending request
          reported,    \* history: the reports the keyboard has sent
          count        \* for the bounds; history: a lost packet the driver went past
usbvars == <<script, waits, a, buf, last_status, typed, hc, dev, reported, count>>

-----------------------------------------------------------------------------
(* The packets of each command, in order.  What setup_packet and           *)
(* status_packet return is not looked at.                                  *)
n_max == 120

Setup(req, val, ep, addr) == <<[kind |-> "setup", req |-> req, val |-> val, ep |-> ep, addr |-> addr]>>
In(len, ep, addr, wait_ack) ==
  <<[kind |-> "in", len |-> len, ep |-> ep, addr |-> addr, wait_ack |-> wait_ack]>>
Status(ep, addr) == <<[kind |-> "out", ep |-> ep, addr |-> addr]>>

ControlIn(req, val, len, ep, addr) ==
  Setup(req, val, ep, addr) \o In(len, ep, addr, TRUE) \o Status(ep, addr)
ControlOut(req, val, ep, addr) == Setup(req, val, ep, addr) \o In(0, ep, addr, TRUE)

usb_get_dev_desc(ep, addr) == ControlIn("GET_DESCRIPTOR", "DEVICE", 18, ep, addr)
usb_set_address(ep, addr, new_addr) == ControlOut("SET_ADDRESS", new_addr, ep, addr)
usb_set_conf(ep, addr, idx) == ControlOut("SET_CONF", idx, ep, addr)
usb_get_str_desc(ep, addr, idx) == ControlIn("GET_DESCRIPTOR", "STR", 60, ep, addr)

\* The descriptor is read in pieces of n_max bytes, at least one piece.
PacketLen(len, i) == IF len - i * n_max > n_max THEN n_max ELSE len - i * n_max
Packets(len) == IF len = 0 THEN 1 ELSE (len + n_max - 1) \div n_max
usb_get_conf_desc(len, ep, addr) ==
  Setup("GET_DESCRIPTOR", "CONF", ep, addr)
    \o FlattenSeq([i \in 1..Packets(len) |-> In(PacketLen(len, i - 1), ep, addr, TRUE)])
    \o Status(ep, addr)

usbhub_get_status(ep, addr, port) == ControlIn("GET_STATUS", port, 4, ep, addr)
usbhub_set_feature(ep, addr, feature) == ControlOut("SET_FEATURE", feature, ep, addr)
usbhub_clear_feature(ep, addr, feature) == ControlOut("CLEAR_FEATURE", feature, ep, addr)

\* The command "up", after which a child process polls for ever; the
\* commands that look at the device, or at a hub's port, before it.
SetUp == usb_get_dev_desc(0, 0) \o usb_set_address(0, 0, 1) \o usb_get_conf_desc(9, 0, 1)
           \o usb_set_conf(0, 1, 1)
Commands == {SetUp,
             SetUp \o usb_get_str_desc(0, 1, 1) \o usb_get_conf_desc(n_max + 1, 0, 1),
             SetUp \o usbhub_set_feature(0, 1, "POWER") \o usbhub_get_status(0, 1, 1)
                   \o usbhub_clear_feature(0, 1, "CONNECTION")}
Poll == In(8, 1, 1, FALSE) \o Status(1, 1)
Polling == script \in {Poll, Tail(Poll)}

\* usb_hid_usage_table, for the usage codes that occur
usb_hid_usage_table == [code \in 0..255 |-> IF code \in 4..29 THEN 93 + code ELSE 0]
Characters(report) == SelectSeq([i \in DOMAIN report |-> usb_hid_usage_table[report[i]]], LAMBDA c : c > 0)

-----------------------------------------------------------------------------
(* The driver.  Registers are written with nobody else at the controller.  *)
GoOn(rest) == script' = IF rest = << >> THEN Poll ELSE rest

Packet == Head(script)

\* in_packet clears IRQ_STATUS before it arms; setup_packet and status_packet
\* arm with whatever is there.
ArmPacket ==
  /\ ~waits /\ waits' = TRUE
  /\ hc' = [hc EXCEPT !.armed = <<Packet>>, !.done = @ /\ Packet.kind # "in"]
  /\ UNCHANGED <<script, a, buf, last_status, typed, dev, reported, count>>

\* How in_packet goes on from a status: it returns 0 or -1, or asks again.
\* Any other status, an error on the bus for one, is asked again for ever.
in_packet_naks_ok(st, wait_ack) ==
  IF st = ACK \/ (st = NAK /\ ~wait_ack) THEN 0 ELSE IF st \in {TMOUT, STALL} THEN -1 ELSE 1
in_packet(st, wait_ack) ==
  IF st = ACK THEN 0 ELSE IF st \in {TMOUT, STALL} \/ (st = NAK /\ ~wait_ack) THEN -1 ELSE 1

\* usb_int_in writes after its status_packet, and only a report it got.
WriteReport(kind) ==
  typed' = IF Polling /\ kind = "out" /\ a = 0 THEN typed \o Characters(buf) ELSE typed

\* wait_transfer sees the done bit, clears it and reads the status.
wait_transfer ==
  /\ waits /\ hc.done
  /\ waits' = FALSE
  /\ last_status' = hc.stat
  /\ hc' = [hc EXCEPT !.done = FALSE]
  /\ LET ret == IF Packet.kind = "in" THEN in_packet(hc.stat, Packet.wait_ack) ELSE 0
     IN /\ IF ret = 1 THEN UNCHANGED script ELSE GoOn(Tail(script))
        /\ a' = IF Packet.kind = "in" THEN ret ELSE a
        /\ buf' = IF Packet.kind = "in" /\ ret = 0 THEN hc.mem ELSE buf
        /\ WriteReport(Packet.kind)
  /\ UNCHANGED <<dev, reported, count>>

\* It has looked 1638400 times: -2.  in_packet clears IRQ_STATUS once more and
\* returns -1; the transfer stays armed and may still be carried out.
GiveUp ==
  /\ waits /\ ~hc.done /\ count.timeouts < MaxTimeouts
  /\ waits' = FALSE
  /\ GoOn(Tail(script))
  /\ a' = IF Packet.kind = "in" THEN -1 ELSE a
  /\ WriteReport(Packet.kind)
  /\ count' = [count EXCEPT !.timeouts = @ + 1]
  /\ UNCHANGED <<buf, last_status, hc, dev, reported>>

-----------------------------------------------------------------------------
(* The controller and the keyboard.                                        *)
Answer(st, data) ==
  hc' = [hc EXCEPT !.armed = None, !.done = TRUE, !.stat = st, !.mem = data]
Transfer == hc.armed[1]
Armed == IF hc.armed = None THEN "nothing" ELSE Transfer.kind
Addressed == dev.present /\ Transfer.addr = dev.addr

DriverWaits == UNCHANGED <<script, waits, a, buf, last_status, typed>>

\* The request takes effect in its last stage, for those without data an IN.
ControlStage ==
  /\ hc.armed # None /\ Addressed /\ Transfer.ep = 0
  /\ CASE Armed = "setup" -> dev' = [dev EXCEPT !.pending = hc.armed] /\ Answer(ACK, hc.mem)
       [] Armed = "in" /\ dev.pending = None -> Answer(STALL, hc.mem) /\ UNCHANGED dev
       [] Armed = "in" /\ Transfer.len = 0 /\ dev.pending # None ->
            /\ dev' = [dev EXCEPT !.pending = None,
                                  !.addr = IF dev.pending[1].req = "SET_ADDRESS" THEN dev.pending[1].val ELSE @,
                                  !.conf = IF dev.pending[1].req = "SET_CONF" THEN dev.pending[1].val ELSE @]
            /\ Answer(ACK, hc.mem)
       [] Armed = "in" /\ Transfer.len > 0 /\ dev.pending # None -> Answer(ACK, << >>) /\ UNCHANGED dev
       [] OTHER -> dev' = [dev EXCEPT !.pending = None] /\ Answer(ACK, hc.mem)
  /\ UNCHANGED <<reported, count>> /\ DriverWaits

ReportIn ==
  /\ Armed = "in" /\ Addressed /\ Transfer.ep = dev.conf /\ Transfer.ep = 1
  /\ \/ Answer(NAK, hc.mem) /\ UNCHANGED reported
     \/ /\ Len(reported) < MaxReports
        /\ \E r \in Reports : Answer(ACK, r) /\ reported' = Append(reported, r)
  /\ UNCHANGED <<dev, count>> /\ DriverWaits

\* Nobody is at that address and endpoint.
NoAnswer ==
  /\ hc.armed # None /\ (~Addressed \/ (Transfer.ep = 1 /\ (Armed = "out" \/ dev.conf # 1)))
  /\ Answer(TMOUT, hc.mem)
  /\ UNCHANGED <<dev, reported, count>> /\ DriverWaits

\* The device is not ready, though never for a SETUP, or a packet is damaged on
\* the way: an error in what came, or no answer, and the device does nothing.
Fault ==
  /\ hc.armed # None /\ Addressed /\ count.faults < MaxFaults
  /\ \E st \in {NAK, ERROR, TMOUT} :
       /\ st = NAK => Armed # "setup"
       /\ Answer(st, hc.mem)
       /\ count' = [count EXCEPT !.faults = @ + 1,
                                !.skipped = @ \/ Armed = "setup" \/ (Armed = "in" /\ st = TMOUT)]
  /\ UNCHANGED <<dev, reported>> /\ DriverWaits

UsbInit ==
  /\ script \in Commands /\ waits = FALSE /\ a = -1 /\ buf = << >> /\ last_status = ACK
  /\ typed = << >> /\ reported = << >>
  \* reset_sl811: the done bit is cleared and the bus reset, which resets the
  \* device; no transfer is armed in a controller just powered on.
  /\ hc = [armed |-> None, done |-> FALSE, stat |-> ACK, mem |-> << >>]
  /\ \E present \in BOOLEAN : dev = [present |-> present, addr |-> 0, conf |-> 0, pending |-> None]
  /\ count = [faults |-> 0, timeouts |-> 0, skipped |-> FALSE]

UsbNext == ArmPacket \/ wait_transfer \/ GiveUp \/ ControlStage \/ ReportIn \/ NoAnswer \/ Fault

-----------------------------------------------------------------------------
\* The characters of the reports of the set kept
KeysOf(kept) ==
  FlattenSeq([i \in DOMAIN reported |-> IF i \in kept THEN Characters(reported[i]) ELSE << >>])

\* The last report is in the controller, or read and not yet written.
InHand == \/ Polling /\ Packet.kind = "in" /\ hc.done /\ hc.stat = ACK
          \/ Polling /\ Packet.kind = "out" /\ a = 0

\* The keys of every report are written once, in order: none twice and none
\* out of order even when the driver gives up on a transfer that is answered
\* late, and none lost when it does not.  An answer that is not there yet, or one
\* that comes in damaged, is asked for again, so that the keyboard has its address
\* and its configuration before it is polled; but not a SETUP, whose status
\* setup_packet does not look at, nor an IN to which nothing comes back, after
\* which in_packet returns -1 and the set-up goes on.
KeysExact ==
  /\ \E kept \in SUBSET DOMAIN reported : typed = KeysOf(kept)
  /\ count.timeouts = 0 => typed = KeysOf(DOMAIN reported \ {n \in {Len(reported)} : InHand})
  /\ count.timeouts = 0 /\ ~count.skipped /\ dev.present /\ Polling => dev.addr = 1 /\ dev.conf = 1
=============================================================================
