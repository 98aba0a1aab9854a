------------------------------- MODULE Sl811 -------------------------------
(***************************************************************************)
(* The USB host controller driver of the REX-CFU1 card:                    *)
(* packages/cfu1/files/sl811_hcd.c and sl811.h.                            *)
(*                                                                         *)
(* The chip carries one packet at a time.  A handler that finds no packet  *)
(* under way (active_a is NULL) picks an endpoint from the schedules and   *)
(* writes the packet of its first URB into the chip's A registers; the     *)
(* interrupt DONE_A reads how it went, and may give the URB back, whose    *)
(* completion handler may submit again before the interrupt handler goes   *)
(* on: finish_request drops the lock around it.                            *)
(*                                                                         *)
(* The machine has one processor and a preemptible kernel, as the kernel   *)
(* configurations of packages/linux have it: a handler runs from taking    *)
(* the lock to releasing it with interrupts off, and all that comes in     *)
(* between is the completion handler it calls.  Processes can be preempted *)
(* anywhere else, between usbcore linking an URB to its endpoint's queue   *)
(* and urb_enqueue in particular.                                          *)
(*                                                                         *)
(* The chip goes on while a handler runs.  What it does then can be thought*)
(* of as done after the pass over the interrupts that were read, but for a *)
(* packet that ends just before it is given up as overdue: see Slips.      *)
(*                                                                         *)
(* External, and modelled from what the driver relies on: usbcore (queues, *)
(* unlinking, the hub driver's requests) and the chip with its device.     *)
(* A handler that uses an URB or endpoint that is no longer there is       *)
(* undefined behaviour: it sets `oops`, and nothing is said of what        *)
(* follows.                                                                *)
(***************************************************************************)
EXTENDS Sl811Schedule

CONSTANTS
    Urb,                \* USB request blocks
    MaxPacket,          \* bytes in a full packet of every endpoint
    Devices             \* what may be plugged in, and what may go wrong, see DeviceType

(* ep: the endpoints, with the driver's ep->period and ep->load, and       *)
(* whether the device is a low-speed one; urb: what drivers send to them,  *)
(* one way unless to a control endpoint; env: which of the environment's   *)
(* events happen.  "slip" is a packet that ends while the handler, called  *)
(* for nothing, is about to give it up as overdue.                         *)
DeviceType(d) ==
    /\ d.ep \in [Ep -> [type : {"control", "bulk", "interrupt"}, period : Nat,
                        load : Nat, low : BOOLEAN]]
    /\ \E us \in SUBSET Urb :
        d.urb \in [us -> [ep : Ep, in : BOOLEAN, len : Nat, zlp : BOOLEAN, strict : BOOLEAN]]
    /\ \A e \in Ep : d.ep[e].type = "interrupt" => d.ep[e].period \in 1 .. PeriodicSize
    /\ \A u, v \in DOMAIN d.urb :
        d.urb[u].ep = d.urb[v].ep /\ d.urb[u].in # d.urb[v].in
            => d.ep[d.urb[u].ep].type = "control"
    /\ d.env \subseteq {"unlink", "race", "error", "lost", "slip", "overrun",
                     "overtake", "plug", "suspend", "power"}

ASSUME Sl811Assumption ==
    /\ MaxPacket \in Nat \ {0}
    /\ \A d \in Devices : DeviceType(d)

(* usb_submit_urb rounds the interval of an interrupt URB down to a power  *)
(* of two and urb_enqueue bounds it by PERIODIC_SIZE, a power of two as    *)
(* well: of two periods one divides the other.                             *)
PeriodsNest ==
    \A d \in Devices : \A e, f \in Ep :
        d.ep[e].type = "interrupt" /\ d.ep[f].type = "interrupt" /\ d.ep[e].period <= d.ep[f].period
            => d.ep[f].period % d.ep[e].period = 0

ASSUME Sl811PeriodsAssumption == PeriodsNest

VARIABLES
    dev,        \* the device of this behaviour
    hc,         \* struct sl811 and its endpoints
    core,       \* usbcore: queues, status and actual_length of URBs, calls under way
    chip,       \* registers, packet under way, pending interrupts
    bus,        \* what the device acknowledged of each URB
    oops        \* a handler used what is no longer there

vars == <<dev, hc, core, chip, bus, oops>>

Urbs == DOMAIN dev.urb
EpOf(u) == dev.urb[u].ep
Type(e) == dev.ep[e].type

(* The world one handler works on, and its outcome.                        *)
World == [hc |-> hc, core |-> core, chip |-> chip, bus |-> bus, oops |-> oops]
Becomes(w) == /\ hc' = w.hc /\ core' = w.core /\ chip' = w.chip
              /\ bus' = w.bus /\ oops' = w.oops
              /\ UNCHANGED dev
Oops(w) == [w EXCEPT !.oops = TRUE]

(* Outcomes of one handler run after another; none after an oops.          *)
Then(worlds, Step(_)) == UNION {IF w.oops THEN {w} ELSE Step(w) : w \in worlds}

Bare == [setup |-> FALSE, data |-> 0, status |-> FALSE]
Queued(c, u) == OnList(c.q[EpOf(u)], u)

FirstPid(u) == IF Type(EpOf(u)) = "control" THEN "SETUP"
               ELSE IF dev.urb[u].in THEN "IN" ELSE "OUT"

---------------------------------------------------------------------------
(* Packets.                                                                *)

Least(a, b) == IF a < b THEN a ELSE b

(* ep->length: the bytes the packet may carry.                             *)
Room(w, e, u) ==
    IF w.hc.pid[e] \in {"IN", "OUT"} THEN Least(MaxPacket, dev.urb[u].len - w.core.actual[u])
    ELSE 0

(* setup_packet, in_packet, out_packet, status_packet: the A registers     *)
(* armed with the packet that nextpid calls for.                           *)
Issue(w, e, u) ==
    [w EXCEPT !.hc = [@ EXCEPT !.active = e, !.late = FALSE],
              !.chip = [@ EXCEPT !.armed = TRUE,
                                 !.tok = [pid |-> w.hc.pid[e], urb |-> u, room |-> Room(w, e, u)]]]

(* start, on the endpoint that is first in a schedule: a low-speed packet  *)
(* may find too little of the frame left, and waits for the next.          *)
StartOn(w, e) ==
    IF w.core.q[e] = <<>> THEN {w}
    ELSE {Issue(w, e, Head(w.core.q[e]))}
         \union IF dev.ep[e].low
                THEN {[w EXCEPT !.hc.irqen = @ \union {"SOFINTR"}]}
                ELSE {}

(* start_transfer and the choice of start.                                 *)
StartTransfer(w) ==
    IF "SUSPEND" \in w.hc.port \/ w.hc.active # None THEN {w}
    ELSE IF w.hc.nextp # None
    THEN StartOn([w EXCEPT !.hc.nextp = w.hc.next[@]], w.hc.nextp)
    ELSE IF w.hc.async # <<>>
    THEN LET e == IF w.hc.nexta # None THEN w.hc.nexta ELSE Head(w.hc.async)
         IN  StartOn([w EXCEPT !.hc.nexta = AfterAsync(w.hc, e)], e)
    ELSE {w}

---------------------------------------------------------------------------
(* Taking URBs and giving them back.                                       *)

(* usbcore links an URB before it calls urb_enqueue.                       *)
Link(w, u) ==
    [w EXCEPT !.core = [w.core EXCEPT !.q[EpOf(u)] = Append(@, u), !.status[u] = "busy",
                                      !.actual[u] = 0],
              !.bus[u] = Bare]

(* ... and takes it off the queue when urb_enqueue fails.                  *)
Refuse(w, u) ==
    [w EXCEPT !.core = [w.core EXCEPT !.q[EpOf(u)] = Without(@, u), !.status[u] = "refused"]]

Alive(w) == "ENABLE" \in w.hc.port /\ w.hc.running

(* urb_enqueue makes the driver's endpoint on its first URB.               *)
Allocate(w, u) ==
    LET e == EpOf(u)
    IN  IF w.hc.alloc[e] THEN w
        ELSE [w EXCEPT !.hc = [@ EXCEPT !.alloc[e] = TRUE, !.pid[e] = FirstPid(u), !.errs[e] = 0,
                                        !.branch[e] = PeriodicSize, !.next[e] = None]]

(* ... and schedules it unless it is: no outcome is -ENOSPC.               *)
Schedule(w, e) ==
    IF Type(e) # "interrupt" THEN {[w EXCEPT !.hc = ScheduleAsync(@, e)]}
    ELSE IF w.hc.branch[e] < PeriodicSize THEN {w}
    ELSE {[w EXCEPT !.hc = SchedulePeriodic(@, e, dev.ep, b)] :
            b \in Branches(w.hc, dev.ep[e].period, dev.ep[e].load)}

(* urb_enqueue up to the scheduling of the endpoint: no outcome when the   *)
(* port is dead or the frames are full, and usbcore takes the URB back.    *)
Accept(w, u) == IF Alive(w) THEN Schedule(Allocate(w, u), EpOf(u)) ELSE {}

Reject(w, u) == Refuse(IF Alive(w) THEN Allocate(w, u) ELSE w, u)

(* urb_enqueue of an URB that was not unlinked since it was linked.        *)
Enqueue(w, u) ==
    IF Accept(w, u) = {} THEN {Reject(w, u)} ELSE Then(Accept(w, u), StartTransfer)

(* usb_hcd_giveback_urb: the URB leaves the queue, and its completion      *)
(* handler may submit an URB that no driver has submitted, or the same.    *)
Giveback(w, u) ==
    IF ~Queued(w.core, u) THEN {Oops(w)}
    ELSE LET left == [w EXCEPT !.core.q[EpOf(u)] = Without(@, u)]
             idle == {x \in Urbs : ~Queued(left.core, x) /\ (x = u \/ x \notin w.core.calls)
                                   /\ EpOf(x) \notin w.core.closed}
         IN  {left} \union UNION {Enqueue(Link(left, x), x) : x \in idle}

(* Mutant: the endpoint goes though the completion handler submitted to it.*)
DescheduleBusy(w, e) ==
    IF InAsync(w.hc, e) THEN [w EXCEPT !.hc = DescheduleAsync(@, e)]
    ELSE [w EXCEPT !.hc = DeschedulePeriodic(@, e, dev.ep)]

(* finish_request after the lock is taken again.  Its loop over the slots  *)
(* does not end for an endpoint of period 0: a control or bulk one that is *)
(* not in the list.                                                        *)
Deschedule(w, e) ==
    IF w.core.q[e] # <<>> THEN w
    ELSE IF InAsync(w.hc, e) THEN [w EXCEPT !.hc = DescheduleAsync(@, e)]
    ELSE IF Type(e) = "interrupt" THEN [w EXCEPT !.hc = DeschedulePeriodic(@, e, dev.ep)]
    ELSE Oops(w)

FinishRequest(w, e, u, status) ==
    LET finished ==
            [w EXCEPT !.hc.pid[e] = IF Type(e) = "control" THEN "SETUP" ELSE @,
                      !.core.status[u] = IF @ = "busy" THEN status ELSE @]
    IN  Then(Giveback(finished, u), LAMBDA x : {Deschedule(x, e)})

(* The call of urb_enqueue for an URB linked earlier: refused, or scheduled*)
(* and then found unlinked ("unlink-during-submit"), or served.            *)
EnqueueLinked(w, u) ==
    IF w.core.status[u] = "busy" \/ Accept(w, u) = {} THEN Enqueue(w, u)
    ELSE Then(Accept(w, u), LAMBDA x : FinishRequest(x, EpOf(u), u, "ok"))

---------------------------------------------------------------------------
(* done: what a finished packet means for the first URB of its endpoint.   *)
(* `verdict` is urbstat, and `keep` that the URB is not to be given back   *)
(* whatever its status (the IN stage of a control URB, which sets it).     *)

(* Mutant: a control write ends with its data, without a STATUS packet.    *)
AckedOutAtOnce(w, e, u) ==
    LET sent == w.core.actual[u] + w.chip.tok.room
        ends == sent = dev.urb[u].len /\ (w.chip.tok.room < MaxPacket \/ ~dev.urb[u].zlp)
    IN  [w |-> [w EXCEPT !.core.actual[u] = sent], keep |-> FALSE,
         verdict |-> IF ends THEN "ok" ELSE "busy"]

(* An acknowledged OUT packet moves the transfer on; bulk ends on a short  *)
(* packet, which the flag URB_ZERO_PACKET may require to be an empty one.  *)
AckedOut(w, e, u) ==
    LET sent == w.core.actual[u] + w.chip.tok.room
        moved == [w EXCEPT !.core.actual[u] = sent]
    IN  IF sent # dev.urb[u].len THEN [w |-> moved, verdict |-> "busy", keep |-> FALSE]
        ELSE IF Type(e) = "control"
        THEN [w |-> [moved EXCEPT !.hc.pid[e] = "ACK"], verdict |-> "busy", keep |-> FALSE]
        ELSE [w |-> moved, keep |-> FALSE,
              verdict |-> IF w.chip.tok.room < MaxPacket \/ ~dev.urb[u].zlp THEN "ok" ELSE "busy"]

(* An acknowledged IN packet: bytes beyond the URB's length are dropped and*)
(* are an error; a short packet ends the transfer.                         *)
AckedIn(w, e, u) ==
    LET tooMuch == w.chip.res.n > w.chip.tok.room
        got == Least(w.chip.res.n, w.chip.tok.room)
        moved == [w EXCEPT !.core = [w.core EXCEPT
                    !.actual[u] = @ + got, !.status[u] = IF tooMuch THEN "overflow" ELSE @]]
        verdict == IF moved.core.actual[u] = dev.urb[u].len THEN "ok"
                   ELSE IF got = MaxPacket THEN "busy"
                   ELSE IF dev.urb[u].strict THEN "short" ELSE "ok"
    IN  IF Type(e) = "control" /\ verdict # "busy"
        THEN [w |-> [moved EXCEPT !.core.status[u] = IF @ = "busy" THEN verdict ELSE @,
                                  !.hc.pid[e] = "ACK"],
              verdict |-> verdict, keep |-> TRUE]
        ELSE [w |-> moved, verdict |-> verdict, keep |-> FALSE]

AckedSetup(w, e, u) ==
    [w |-> [w EXCEPT !.hc.pid[e] = IF dev.urb[u].len = w.core.actual[u] THEN "ACK"
                                   ELSE IF dev.urb[u].in THEN "IN" ELSE "OUT"],
     verdict |-> "busy", keep |-> FALSE]

Judge(w, e, u) ==
    LET calm == [w EXCEPT !.hc.errs[e] = 0]
        struck == w.hc.errs[e] + 1
    IN  CASE w.chip.res.st = "nak" -> [w |-> calm, verdict |-> "busy", keep |-> FALSE]
          [] w.chip.res.st = "ack" ->
                (CASE w.hc.pid[e] = "OUT" -> AckedOut(calm, e, u)
                   [] w.hc.pid[e] = "IN" -> AckedIn(calm, e, u)
                   [] w.hc.pid[e] = "SETUP" -> AckedSetup(calm, e, u)
                   [] w.hc.pid[e] = "ACK" -> [w |-> calm, verdict |-> "ok", keep |-> FALSE])
          [] w.chip.res.st = "stall" -> [w |-> calm, verdict |-> "stall", keep |-> FALSE]
          [] w.chip.res.st = "error" ->
                IF struck >= 3 THEN [w |-> calm, verdict |-> "error", keep |-> FALSE]
                ELSE [w |-> [w EXCEPT !.hc.errs[e] = struck], verdict |-> "busy", keep |-> FALSE]

Done(w, e) ==
    IF e = None THEN {w}
    ELSE IF w.core.q[e] = <<>> THEN {Oops(w)}
    ELSE LET u == Head(w.core.q[e])
             j == Judge(w, e, u)
         IN  IF ~j.keep /\ (j.verdict # "busy" \/ j.w.core.status[u] # "busy")
             THEN FinishRequest(j.w, e, u, j.verdict)
             ELSE {j.w}

---------------------------------------------------------------------------
(* The device, and how a packet ends.                                      *)

(* What a device may answer: a SETUP packet is always taken, an IN packet  *)
(* brings any number of bytes up to a full packet.                         *)
Answers(pid) ==
    IF ~chip.attached THEN {[st |-> "error", n |-> 0]}
    ELSE [st : {"ack"}, n : IF pid = "IN" THEN 0 .. MaxPacket ELSE {0}]
         \union [st : (IF pid = "SETUP" THEN {} ELSE {"nak"})
                      \union (IF "error" \in dev.env THEN {"error"} ELSE {})
                      \union (IF "error" \in dev.env /\ pid # "SETUP" THEN {"stall"} ELSE {}),
                 n : {0}]

(* What the device knows of an URB after acknowledging the packet; bytes   *)
(* beyond the URB's length are counted as one.                             *)
Acknowledge(tok, n) ==
    LET known == bus[tok.urb]
        More(k) == [known EXCEPT !.data = Least(@ + k, dev.urb[tok.urb].len + 1)]
    IN  CASE tok.pid = "SETUP" -> [Bare EXCEPT !.setup = TRUE]
          [] tok.pid = "IN" -> More(n)
          [] tok.pid = "OUT" -> More(tok.room)
          [] tok.pid = "ACK" -> [known EXCEPT !.status = TRUE]

(* The packet under way ends, and its interrupt is pending.                *)
Ends(w, r) ==
    [w EXCEPT
        !.chip = [w.chip EXCEPT !.armed = FALSE, !.res = r, !.pend = @ \union {"DONE_A"}],
        !.bus = IF r.st = "ack"
                THEN [w.bus EXCEPT ![w.chip.tok.urb] = Acknowledge(w.chip.tok, r.n)] ELSE @]

---------------------------------------------------------------------------
(* sl811h_irq.                                                             *)

(* Mutant: the overdue packet stays armed.                                 *)
CheckDoneArmed(w) ==
    IF w.hc.active # None /\ w.hc.late /\ w.chip.armed
    THEN [w EXCEPT !.chip.res = [st |-> "error", n |-> 0]] ELSE w

(* checkdone: nothing is pending, the packet under way is overdue: disarm  *)
(* it and take it for done.  One that was still armed has no status.       *)
CheckDone(w) ==
    IF w.hc.active # None /\ w.hc.late
    THEN [w EXCEPT !.chip = [w.chip EXCEPT
            !.armed = FALSE,
            !.res = IF w.chip.armed THEN [st |-> "error", n |-> 0] ELSE @]]
    ELSE w

(* Mutant: the endpoint stays the active one after its packet.             *)
IrqDoneStaysActive(w) == Done(w, w.hc.active)

IrqDone(w) == Then(Done(w, w.hc.active), LAMBDA x : {[x EXCEPT !.hc.active = None]})

(* Mutant: the frame index is not wrapped.                                 *)
IrqSofForever(w) ==
    LET first == w.hc.periodic[w.hc.frame]
    IN  [w EXCEPT !.hc = [w.hc EXCEPT !.frame = @ + 1,
                                      !.nextp = IF first # None THEN first ELSE @]]

(* The next frame's chain, if it has one; the index runs over one slot     *)
(* less than there are.                                                    *)
IrqSof(w) ==
    LET first == w.hc.periodic[w.hc.frame]
    IN  [w EXCEPT !.hc = [w.hc EXCEPT !.frame = (@ + 1) % (PeriodicSize - 1),
                                      !.nextp = IF first # None THEN first ELSE @]]

(* Something was plugged or unplugged: only that is interesting now, and   *)
(* the URB under way is finished.                                          *)
IrqInsRmv(w) ==
    LET quiet == [w EXCEPT !.hc = [@ EXCEPT !.ctrl1 = {}, !.irqen = {"INSRMV"}]]
        e == w.hc.active
        Changed(x) == {[x EXCEPT !.hc = [x.hc EXCEPT
                            !.active = None, !.port = @ \union {"C_CONNECTION", "CONNECTION"}]]}
    IN  IF e = None THEN Changed(quiet)
        ELSE IF w.core.q[e] = <<>> THEN {Oops(w)}
        ELSE Then(FinishRequest([quiet EXCEPT !.chip.armed = FALSE], e, Head(w.core.q[e]), "shutdown"),
                  Changed)

IrqWakeup(w) ==
    IF "SUSPEND" \in w.hc.port THEN [w EXCEPT !.hc.port = @ \union {"C_SUSPEND"}] ELSE w

(* Mutant: frames are counted for interrupt endpoints alone.               *)
IrqExitQuiet(w) ==
    LET off == IF w.hc.count = 0 THEN [w EXCEPT !.hc.irqen = @ \ {"SOFINTR"}] ELSE w
    IN  {[off EXCEPT !.chip.pend = IF @ \cap w.hc.irqen = {} THEN {} ELSE @]}

(* A last read acknowledges what is pending but disabled, and frames are   *)
(* no longer counted when no endpoint is scheduled.                        *)
IrqExit(w) ==
    LET off == IF w.hc.count = 0 /\ w.hc.async = <<>>
               THEN [w EXCEPT !.hc.irqen = @ \ {"SOFINTR"}] ELSE w
    IN  {[off EXCEPT !.chip.pend = IF @ \cap w.hc.irqen = {} THEN {} ELSE @]}

(* One pass of the handler for the interrupts irqstat.  A further pass of  *)
(* its retry loop is another interrupt.                                    *)
IrqPass(w, irqstat) ==
    LET a(x) == IF "DONE_A" \in irqstat THEN IrqDone(x) ELSE {x}
        b(x) == {IF "SOFINTR" \in irqstat THEN IrqSof(x) ELSE x}
        c(x) == IF "INSRMV" \in irqstat THEN IrqInsRmv(x)
                ELSE {IF "RD" \in irqstat THEN IrqWakeup(x) ELSE x}
        taken(x) == irqstat \ (IF "INSRMV" \notin irqstat /\ "SUSPEND" \notin x.hc.port
                               THEN {"RD"} ELSE {})
        s(x) == IF taken(x) # {} /\ "ENABLE" \in x.hc.port THEN StartTransfer(x) ELSE {x}
    IN  Then(Then(Then(Then(Then({w}, a), b), c), s), IrqExit)

(* checkdone reads HOSTCTLREG after sl811h_irq read IRQ_STATUS: a packet   *)
(* that ends in between is taken for one whose interrupt was lost, but its *)
(* interrupt is still to come, and the handler's next pass will take it for*)
(* that of the packet start_transfer has armed meanwhile.                  *)
Slips(w) ==
    {w} \union IF "slip" \in dev.env /\ w.chip.armed /\ w.chip.tok.pid # "SOF"
               THEN {Ends(w, r) : r \in Answers(w.chip.tok.pid)}
               ELSE {}

(* An interrupt, for what is pending and enabled; the `lost` devices may   *)
(* also call the handler for nothing, and it looks for an overdue packet.  *)
(* All that was pending is acknowledged.                                   *)
Irq ==
    LET irqstat == chip.pend \cap hc.irqen
        read == [World EXCEPT !.chip.pend = {}]
        overdue == hc.active # None /\ hc.late
    IN  /\ irqstat # {} \/ "lost" \in dev.env
        /\ \E w \in IF irqstat # {} THEN IrqPass(read, irqstat)
                    ELSE UNION {IrqPass(CheckDone(x), IF overdue THEN {"DONE_A"} ELSE {}) :
                                    x \in Slips(read)} :
            Becomes(w)

---------------------------------------------------------------------------
(* The port: what the hub driver asks of the root hub, and the timer that  *)
(* ends reset and resume signaling.                                        *)

(* sl811h_timer: port1 and the interrupts after a reset (SE0) or a resume  *)
(* (K), by whether there is a device.                                      *)
Timer ==
    LET status == chip.pend \union (IF chip.attached THEN {} ELSE {"RD"})
        reset == "SE0" \in hc.ctrl1
        gone == "RD" \in status /\ ~(reset /\ "INSRMV" \in status)
        port == IF reset THEN {"C_RESET", "POWER"}
                ELSE IF "K" \in hc.ctrl1 THEN hc.port \ {"SUSPEND"} ELSE hc.port
        mask == {"CONNECTION", "ENABLE"}
        ctrl == IF reset THEN {} ELSE hc.ctrl1 \ {"K"}
        off == [hc EXCEPT !.timer = FALSE]
    IN  /\ hc.timer
        /\ Becomes(
            IF gone
            THEN LET lost == IF "CONNECTION" \in port THEN {"C_CONNECTION", "C_ENABLE"} ELSE {}
                 IN  [World EXCEPT
                        !.hc = [off EXCEPT !.port = (port \union lost) \ mask,
                                           !.irqen = {"INSRMV"}, !.ctrl1 = {}],
                        !.chip.pend = {}]
            ELSE [World EXCEPT
                    !.hc = [off EXCEPT !.port = port \union mask,
                                       !.irqen = {"INSRMV", "RD", "DONE_A"},
                                       !.ctrl1 = ctrl \union {"SOF_ENA"}],
                    !.chip = [@ EXCEPT !.pend = {}, !.armed = TRUE,
                                       !.tok = [pid |-> "SOF", urb |-> None, room |-> 0]]])

(* port_power; only sl811h_start makes a halted controller run.            *)
PortPower(h, on) ==
    IF on THEN [h EXCEPT !.port = {"POWER"}, !.irqen = {"INSRMV"}, !.ctrl1 = {}]
    ELSE [h EXCEPT !.port = {}, !.irqen = {}, !.ctrl1 = {}, !.running = FALSE]

Hub(h) == /\ hc' = h
          /\ UNCHANGED <<dev, core, chip, bus, oops>>

ClearPortEnable ==
    Hub([hc EXCEPT !.port = @ \cap {"POWER"}, !.ctrl1 = {}, !.irqen = {"INSRMV"}])

(* SUSPEND is cleared at once, though the port resumes for 20 ms.          *)
ClearPortSuspend ==
    /\ "SUSPEND" \in hc.port
    /\ Hub([hc EXCEPT !.irqen = {}, !.ctrl1 = @ \union {"K"}, !.timer = TRUE,
                      !.port = @ \ {"SUSPEND"}])

SetPortSuspend ==
    /\ "RESET" \notin hc.port /\ "ENABLE" \in hc.port
    /\ Hub([hc EXCEPT !.ctrl1 = @ \ {"SOF_ENA"}, !.port = @ \union {"SUSPEND"}])

SetPortReset ==
    /\ "SUSPEND" \notin hc.port
    /\ Hub(IF "POWER" \in hc.port
           THEN [hc EXCEPT !.irqen = {}, !.ctrl1 = {"SE0"}, !.timer = TRUE,
                           !.port = @ \union {"RESET"}]
           ELSE [hc EXCEPT !.port = @ \union {"RESET"}])

(* Pending interrupts are acknowledged when the power is switched.         *)
Powered(h) == /\ hc' = h
              /\ chip' = [chip EXCEPT !.pend = {}]
              /\ UNCHANGED <<dev, core, bus, oops>>

(* A port that is to be powered and is already is left alone.              *)
SetPortPower(on) ==
    /\ ~on \/ "POWER" \notin hc.port
    /\ Powered(PortPower(hc, on))

(* sl811h_resume of a host that was suspended without a wakeup.            *)
Resume == Powered(PortPower([hc EXCEPT !.port = {}], TRUE))

Changes == {"C_CONNECTION", "C_ENABLE", "C_RESET", "C_SUSPEND"}

ClearPortChange ==
    /\ hc.port \cap Changes # {}
    /\ Hub([hc EXCEPT !.port = @ \ Changes])

(* The hub driver waits reset and resume signaling out and clears the      *)
(* changes it is told of before it asks for more.  It resets a port that   *)
(* reports a device until it is enabled; dev.env says what else it may do. *)
HubDriver ==
    /\ ~hc.timer
    /\ \/ ClearPortChange
       \/ /\ hc.port \cap Changes = {}
          /\ \/ /\ "CONNECTION" \in hc.port
                /\ "plug" \in dev.env \/ "ENABLE" \notin hc.port
                /\ SetPortReset
             \/ "plug" \in dev.env /\ ClearPortEnable
             \/ "suspend" \in dev.env /\ (SetPortSuspend \/ ClearPortSuspend)
             \/ "power" \in dev.env /\ (Resume \/ \E on \in BOOLEAN : SetPortPower(on))

---------------------------------------------------------------------------
(* usbcore and the drivers of the device.                                  *)

(* A process submits: the URB is on the queue, urb_enqueue still to come.  *)
(* A driver is there once the port was enabled and the frames started (the *)
(* hub driver's debounce delay).                                           *)
Submit(u) ==
    /\ chip.tok.pid # "none"
    /\ ~Queued(core, u) /\ u \notin core.calls /\ EpOf(u) \notin core.closed
    /\ chip.tok.pid = "SOF" => ~chip.armed /\ "DONE_A" \notin chip.pend
    /\ core.calls = {}
    /\ Becomes([Link(World, u) EXCEPT !.core.calls = {u}])

UrbEnqueue(u) ==
    /\ u \in core.calls
    /\ \E w \in EnqueueLinked([World EXCEPT !.core.calls = {}], u) : Becomes(w)

(* usb_unlink_urb: the URB's status is all that changes, for nothing sets  *)
(* urb->hcpriv and urb_dequeue returns -EINVAL without it.                 *)
Unlink(u) ==
    /\ (IF u \in core.calls THEN "race" ELSE "unlink") \in dev.env
    /\ Queued(core, u) /\ core.status[u] = "busy"
    /\ core' = [core EXCEPT !.status[u] = "unlinked"]
    /\ UNCHANGED <<dev, hc, chip, bus, oops>>

(* usbcore disables an endpoint: no more submissions, and every URB is     *)
(* unlinked ...                                                            *)
Close(e) ==
    /\ "plug" \in dev.env
    /\ hc.alloc[e] /\ e \notin core.closed
    /\ core' = [core EXCEPT !.closed = @ \union {e},
                            !.status = [u \in Urbs |->
                                IF EpOf(u) = e /\ Queued(core, u) /\ @[u] = "busy"
                                THEN "unlinked" ELSE @[u]]]
    /\ UNCHANGED <<dev, hc, chip, bus, oops>>

(* ... and sl811h_endpoint_disable, which waits 3 ms if there are any left,*)
(* frees the driver's endpoint, whether a schedule still names it or not.  *)
EndpointDisable(e) ==
    /\ e \in core.closed
    /\ Becomes([World EXCEPT !.core.closed = @ \ {e},
                             !.hc.alloc[e] = FALSE,
                             !.oops = Scheduled(hc, e) \/ hc.active = e])

Driver ==
    \/ \E u \in Urbs : Submit(u) \/ UrbEnqueue(u) \/ Unlink(u)
    \/ \E e \in Ep : Close(e) \/ EndpointDisable(e)

---------------------------------------------------------------------------
(* The chip and the device.                                                *)

Answered(r) ==
    /\ chip.armed /\ chip.tok.pid # "SOF"
    /\ Becomes(Ends(World, r))

Answer == \E r \in Answers(chip.tok.pid) : Answered(r)

(* The SOF packet that kickstarts the frames ends like any other.          *)
Kicked ==
    /\ chip.armed /\ chip.tok.pid = "SOF"
    /\ chip' = [chip EXCEPT !.armed = FALSE, !.res = [st |-> "ack", n |-> 0],
                            !.pend = @ \union {"DONE_A"}]
    /\ UNCHANGED <<dev, hc, core, bus, oops>>

Pends(bit) ==
    /\ chip' = [chip EXCEPT !.pend = @ \union {bit}]
    /\ UNCHANGED <<dev, hc, core, bus, oops>>

(* A frame begins, after the packets of the last one unless it overruns.   *)
Counting ==
    /\ "SOF_ENA" \in hc.ctrl1 /\ "SOFINTR" \in hc.irqen
    /\ hc.nextp = None \/ "overrun" \in dev.env

Frame == Counting /\ Pends("SOFINTR")

RemoteWakeup == chip.attached /\ "SUSPEND" \in hc.port /\ Pends("RD")

(* The device is plugged in; where `plug` is in dev.env, also unplugged.   *)
Plug ==
    /\ chip.attached => "plug" \in dev.env
    /\ chip' = [chip EXCEPT !.attached = ~@, !.pend = @ \union {"INSRMV"}]
    /\ UNCHANGED <<dev, hc, core, bus, oops>>

(* An interrupt of the chip is lost, and a packet becomes overdue.         *)
LoseDone ==
    /\ "lost" \in dev.env /\ "DONE_A" \in chip.pend
    /\ chip' = [chip EXCEPT !.pend = @ \ {"DONE_A"}]
    /\ UNCHANGED <<dev, hc, core, bus, oops>>

Overdue ==
    /\ "lost" \in dev.env /\ hc.active # None /\ ~hc.late
    /\ hc' = [hc EXCEPT !.late = TRUE]
    /\ UNCHANGED <<dev, core, chip, bus, oops>>

Chip == Answer \/ Kicked \/ Frame \/ RemoteWakeup \/ Plug \/ LoseDone \/ Overdue

---------------------------------------------------------------------------
NoToken == [pid |-> "none", urb |-> None, room |-> 0]

(* sl811h_start after sl811h_probe: the port is powered, nothing plugged.  *)
Init ==
    /\ dev \in Devices
    /\ hc = [port |-> {"POWER"}, irqen |-> {"INSRMV"}, ctrl1 |-> {}, running |-> TRUE,
             timer |-> FALSE, active |-> None, late |-> FALSE,
             async |-> <<>>, nexta |-> None,
             periodic |-> [i \in Slots |-> None], load |-> [i \in Slots |-> 0],
             nextp |-> None, frame |-> 0, count |-> 0,
             alloc |-> [e \in Ep |-> FALSE], pid |-> [e \in Ep |-> "none"],
             errs |-> [e \in Ep |-> 0], branch |-> [e \in Ep |-> PeriodicSize],
             next |-> [e \in Ep |-> None]]
    /\ core = [q |-> [e \in Ep |-> <<>>], status |-> [u \in Urbs |-> "new"],
               actual |-> [u \in Urbs |-> 0], calls |-> {}, closed |-> {}]
    /\ chip = [armed |-> FALSE, tok |-> NoToken, res |-> [st |-> "ack", n |-> 0],
               pend |-> {}, attached |-> FALSE]
    /\ bus = [u \in Urbs |-> Bare]
    /\ oops = FALSE

(* Where processes are not overtaken, urb_enqueue follows the linking at   *)
(* once, but for an unlink in between.                                     *)
Next ==
    /\ ~oops
    /\ \/ Driver
       \/ /\ core.calls = {} \/ "overtake" \in dev.env
          /\ Irq \/ Timer \/ HubDriver \/ Chip

(* Weak fairness of the interrupt, the timer, the preempted process and    *)
(* the chip's packet, each of which ends what enables it, so that it comes *)
(* to saying that what enables it does not last; and strong fairness of the*)
(* frames, which the chip counts whatever else happens.  Nobody has to     *)
(* submit, unlink or plug, and a device may answer nothing but NAK.        *)
Fairness ==
    /\ []<>(oops \/ chip.pend \cap hc.irqen = {})
    /\ []<>(oops \/ ~hc.timer)
    /\ []<>(oops \/ core.calls = {})
    /\ []<>(oops \/ ~chip.armed)
    /\ []<>(Counting /\ "SOFINTR" \notin chip.pend) => []<>("SOFINTR" \in chip.pend)

Spec == Init /\ [][Next]_vars /\ Fairness

---------------------------------------------------------------------------
(* Properties.                                                             *)

Elements(c) == {c[i] : i \in DOMAIN c}
Statuses == {"new", "busy", "ok", "short", "stall", "error", "overflow", "shutdown",
             "unlinked", "refused"}
Pids == {"SETUP", "IN", "OUT", "ACK"}
Ports == {"POWER", "CONNECTION", "ENABLE", "SUSPEND", "RESET"} \union Changes
Interrupts == {"INSRMV", "RD", "DONE_A", "SOFINTR"}
Pointer == Ep \union {None}

HcTypes ==
    [port : SUBSET Ports, irqen : SUBSET Interrupts, ctrl1 : SUBSET {"SE0", "K", "SOF_ENA"},
     running : BOOLEAN, timer : BOOLEAN, active : Pointer, late : BOOLEAN,
     async : Seq(Ep), nexta : Pointer, periodic : [Slots -> Pointer], load : [Slots -> Int],
     nextp : Pointer, frame : 0 .. PeriodicSize - 2, count : Int, alloc : [Ep -> BOOLEAN],
     pid : [Ep -> Pids \union {"none"}], errs : [Ep -> 0 .. 2],
     branch : [Ep -> 0 .. PeriodicSize], next : [Ep -> Pointer]]
CoreTypes ==
    [q : [Ep -> Seq(Urbs)], status : [Urbs -> Statuses], actual : [Urbs -> Int],
     calls : SUBSET Urbs, closed : SUBSET Ep]
ChipTypes ==
    [armed : BOOLEAN, attached : BOOLEAN, pend : SUBSET Interrupts,
     tok : [pid : Pids \union {"SOF", "none"}, urb : Urbs \union {None}, room : Int],
     res : [st : {"ack", "nak", "stall", "error"}, n : 0 .. MaxPacket]]
BusTypes == [Urbs -> [setup : BOOLEAN, data : Int, status : BOOLEAN]]

(* Types of the driver's state and of its surroundings.                    *)
TypeOK ==
    /\ dev \in Devices
    /\ World \in [hc : HcTypes, core : CoreTypes, chip : ChipTypes, bus : BusTypes,
                  oops : BOOLEAN]

(* What the endpoints of a chain need of a frame.                          *)
Reserved(c) ==
    LET first[n \in 0 .. Len(c)] == IF n = 0 THEN 0 ELSE first[n - 1] + dev.ep[c[n]].load
    IN  first[Len(c)]

(* The chain of every frame has the endpoints due in it, each once and slow*)
(* ones first, though they share one `next` pointer and come and go in any *)
(* order; what is reserved of a frame is what they need and no more than   *)
(* may be; and what the next packet is picked from is scheduled            *)
(* (urb_enqueue, balance and finish_request).  Not so when the packet of an*)
(* overtaken submission ends after it was unlinked: the endpoint is taken  *)
(* out twice, and the count of endpoints is wrong.                         *)
PeriodicTreeSound ==
    ~oops /\ ~({"race", "overtake"} \subseteq dev.env) =>
    /\ \A i \in Slots :
        LET c == Chain(hc, i)
            due == {e \in Ep : hc.branch[e] < PeriodicSize
                               /\ i \in DueSlots(dev.ep[e].period, hc.branch[e])}
        IN  /\ Elements(c) = due /\ Len(c) = Cardinality(due)
            /\ \A m, n \in DOMAIN c : m < n => dev.ep[c[m]].period >= dev.ep[c[n]].period
            /\ hc.load[i] = Reserved(c)
            /\ hc.load[i] <= MaxPeriodicLoad
    /\ hc.count = Cardinality({e \in Ep : hc.branch[e] < PeriodicSize})
    /\ hc.nextp # None => hc.branch[hc.nextp] < PeriodicSize
    /\ hc.nexta # None => InAsync(hc, hc.nexta)

(* An overtaken submission found the port gone.                           *)
Stranded == "overtake" \in dev.env /\ ("plug" \in dev.env \/ ~Alive(World))

(* No URB is forgotten: an endpoint is in a schedule while it has an URB   *)
(* the driver accepted, and not after the last was given back; and frames  *)
(* are counted while the interrupts run and an endpoint waits for them.    *)
(* The completion handler may have submitted to the endpoint that          *)
(* finish_request is about to take out.  An URB that is taken back because *)
(* the port went away since it was linked leaves its endpoint where it is, *)
(* and a port that is enabled or resumed with endpoints waiting for frames *)
(* does not count them until another comes.                                *)
SchedulesMatchQueues ==
    ~oops => /\ \A e \in Ep :
                    /\ Elements(core.q[e]) \ core.calls # {} => Scheduled(hc, e)
                    /\ Scheduled(hc, e) /\ ~Stranded => core.q[e] # <<>>
             /\ hc.count > 0 /\ "DONE_A" \in hc.irqen
                  => "SOFINTR" \in hc.irqen \/ dev.env \cap {"plug", "suspend"} # {}

(* What done() judges is the packet it thinks: the one under way is of the *)
(* first URB of active_a and of the kind of its nextpid, and no packet is  *)
(* under way that nobody waits for.  Not so when an URB is unlinked while  *)
(* it is submitted, for finish_request resets nextpid behind another URB's *)
(* back, nor across a reset, a resume or an overtaken submission; nor, with*)
(* interrupts lost, where a packet slips by checkdone: done() takes its    *)
(* status, start_transfer arms the next one, and the retry of sl811h_irq   *)
(* takes the DONE_A it left for that of the packet now under way.          *)
Orderly == dev.env \subseteq {"unlink", "error", "lost", "overrun"}

PacketIsTheActiveOne ==
    Orderly =>
        IF hc.active = None THEN chip.armed => chip.tok.pid = "SOF"
        ELSE /\ core.q[hc.active] # <<>>
             /\ chip.tok.urb = Head(core.q[hc.active])
             /\ chip.tok.pid = hc.pid[hc.active]

(* What the device acknowledged of u is what the driver says of it.        *)
Delivered(u) ==
    LET control == Type(EpOf(u)) = "control"
    IN  /\ core.actual[u] = bus[u].data
        /\ control => bus[u].setup
        /\ dev.urb[u].in \/ bus[u].data = dev.urb[u].len
        /\ control /\ ~dev.urb[u].in => bus[u].status

(* An URB that comes back with status 0 was acknowledged by the device:    *)
(* its SETUP, as many bytes as actual_length says (all of them if they go  *)
(* out), and, unless it reads, its STATUS packet.  No URB ever gets more   *)
(* than it has room for.  Where a packet slips by checkdone it is not so:  *)
(* the ACK it left in PKTSTATREG counts for the packet armed after it.     *)
OkMeansDelivered ==
    Orderly =>
        \A u \in Urbs :
            /\ core.actual[u] \in 0 .. dev.urb[u].len
            /\ core.status[u] = "ok" /\ ~Queued(core, u) => Delivered(u)

(* Work does not wait for an interrupt that cannot come: with an endpoint  *)
(* scheduled on a running port, a packet is under way or was, or the next  *)
(* frame interrupts.                                                       *)
NoStall ==
    Alive(World) /\ "SUSPEND" \notin hc.port /\ ~oops /\ (\E e \in Ep : Scheduled(hc, e))
        => \/ hc.active # None \/ chip.armed \/ "DONE_A" \in chip.pend
           \/ "SOFINTR" \in hc.irqen

(* NoStall, but for an URB unlinked while it is submitted and a port that  *)
(* is unplugged, disabled or resumed.                                      *)
NoStallUnlessRaced == dev.env \cap {"race", "plug", "suspend"} = {} => NoStall

(* Nothing is used after it is gone: done() never finds an empty queue, no *)
(* URB is given back twice, and no endpoint is freed while a schedule or   *)
(* active_a names it; unless an interrupt overtakes a submission, or       *)
(* usbcore disables an endpoint whose URBs urb_dequeue left alone.         *)
NoUseAfterGone == dev.env \cap {"overtake", "plug"} = {} => ~oops

(* Round robin and the frames serve everybody: a scheduled endpoint becomes*)
(* the active one, unless its URBs are finished first.  An endpoint whose  *)
(* only frame is the last is never served: the index of sl811h_irq runs    *)
(* over PERIODIC_SIZE - 1 slots.                                           *)
Fair(e) == /\ dev.env \subseteq {"unlink", "error"}
           /\ ~dev.ep[e].low
           /\ Type(e) = "interrupt" => DueSlots(dev.ep[e].period, hc.branch[e]) # {PeriodicSize - 1}

EndpointsAreServed ==
    \A e \in Ep : (Scheduled(hc, e) /\ Fair(e)) ~> (hc.active = e \/ ~Scheduled(hc, e))
=============================================================================
