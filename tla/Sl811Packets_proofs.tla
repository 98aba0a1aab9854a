------------------------ MODULE Sl811Packets_proofs ------------------------
(* That the bookkeeping of the host controller driver is exact: at every   *)
(* moment nextpid, actual_length and the status of an URB agree with what  *)
(* the device acknowledged of it (DataInv), and the packet under way is    *)
(* that of the first URB of active_a (PacketInv). An acknowledged packet is*)
(* known to the device before done() has judged it; Untold names its       *)
(* endpoint, and WillAgree says what done() will find. Both rest on the    *)
(* invariant of Sl811_proofs, for an URB that leaves its queue under the   *)
(* driver's feet is the end of them; and both are about the devices of     *)
(* Orderly.                                                                *)
EXTENDS Sl811_proofs

(* The URB came back with status 0, and the device acknowledged it.        *)
DeliveredOf(w, u) ==
    /\ w.core.actual[u] = w.bus[u].data
    /\ Type(EpOf(u)) = "control" => w.bus[u].setup
    /\ dev.urb[u].in \/ w.bus[u].data = dev.urb[u].len
    /\ Type(EpOf(u)) = "control" /\ ~dev.urb[u].in => w.bus[u].status

(* Nothing of the URB was sent yet.                                        *)
Fresh(w, u) == w.core.actual[u] = 0 /\ w.bus[u] = Bare /\ w.core.status[u] # "ok"

(* Only the STATUS packet of a control URB is missing.                     *)
AckAgrees(w, u) ==
    /\ Type(EpOf(u)) = "control" /\ w.bus[u].setup
    /\ dev.urb[u].in => (w.core.status[u] \in {"ok", "busy"} => w.bus[u].data = w.core.actual[u])
    /\ ~dev.urb[u].in => w.bus[u].data = w.core.actual[u] /\ w.core.actual[u] = dev.urb[u].len

(* nextpid and actual_length say what the device acknowledged of the URB ... *)
Agree(w, u) ==
    LET pid == w.hc.pid[EpOf(u)]
        n == w.core.actual[u]
        control == Type(EpOf(u)) = "control"
    IN  /\ pid = "SETUP" => control /\ n = 0
        /\ pid = "IN" => dev.urb[u].in
        /\ pid = "OUT" => ~dev.urb[u].in
        /\ pid \in {"IN", "OUT"} => w.bus[u].data = n /\ (control => w.bus[u].setup)
        /\ pid = "ACK" => AckAgrees(w, u)
        /\ w.core.status[u] = "ok" => pid = "ACK" /\ dev.urb[u].in

(* ... or will, when done() has judged the packet that was acknowledged.   *)
WillAgree(w, u) ==
    LET pid == w.hc.pid[EpOf(u)]
        n == w.core.actual[u]
        control == Type(EpOf(u)) = "control"
    IN  /\ pid = "SETUP" => control /\ n = 0 /\ w.bus[u].data = 0
        /\ pid = "IN" => /\ dev.urb[u].in
                         /\ w.bus[u].data = Least(n + w.chip.res.n, dev.urb[u].len + 1)
        /\ pid = "OUT" => ~dev.urb[u].in /\ w.bus[u].data = n + w.chip.tok.room
        /\ pid = "ACK" => AckAgrees(w, u) /\ w.bus[u].status
        /\ control => w.bus[u].setup
        /\ w.core.status[u] = "ok" => pid = "ACK" /\ dev.urb[u].in

(* u is the first of its endpoint's queue: the one start sends packets of. *)
First(w, u) == w.core.q[EpOf(u)] # <<>> /\ u = Head(w.core.q[EpOf(u)])

(* What is known of one URB, where `told` is the endpoint whose packet was *)
(* acknowledged and not judged yet.                                        *)
UrbData(w, open, told, u) ==
    /\ w.core.actual[u] \in 0 .. dev.urb[u].len
    /\ ~Queued(w.core, u) /\ w.core.status[u] = "ok" => DeliveredOf(w, u)
    /\ Queued(w.core, u) /\ (~First(w, u) \/ u \in open) => Fresh(w, u)
    /\ First(w, u) /\ u \notin open => IF EpOf(u) = told THEN WillAgree(w, u) ELSE Agree(w, u)

(* The next packet of the endpoint is the first one of an URB.             *)
Begins(w, open, e) == Type(e) # "control" \/ w.core.q[e] = <<>> \/ Head(w.core.q[e]) \in open

(* An endpoint whose next packet is an URB's first has the nextpid         *)
(* urb_enqueue or finish_request set.                                      *)
PidData(w, open) ==
    \A u \in Urbs : w.hc.alloc[EpOf(u)] /\ Begins(w, open, EpOf(u))
                        => w.hc.pid[EpOf(u)] = FirstPid(u)

(* All that is known of nextpid, actual_length and the device.             *)
DataInv(w, open, told) == PidData(w, open) /\ \A u \in Urbs : UrbData(w, open, told, u)

(* The properties about packets and data leave these events out.           *)
LEMMA OrderlyFacts ==
    ASSUME Orderly
    PROVE  ~Happens("plug") /\ ~Happens("overtake") /\ ~Happens("race") /\ ~Happens("suspend")
           /\ ~Happens("power") /\ ~Happens("slip")
BY DEF Orderly, Happens

(* What is known of an URB stays while what it is about does.              *)
LEMMA UrbStays ==
    ASSUME NEW w, NEW y, NEW open, NEW calls, NEW told, NEW u \in Urbs, UrbData(w, open, told, u),
           y.core.actual[u] = w.core.actual[u], y.core.status[u] = w.core.status[u],
           y.bus[u] = w.bus[u], Queued(y.core, u) <=> Queued(w.core, u),
           First(y, u) <=> First(w, u), u \in calls <=> u \in open,
           First(w, u) /\ u \notin open => y.hc.pid[EpOf(u)] = w.hc.pid[EpOf(u)],
           EpOf(u) = told => y.chip.res.n = w.chip.res.n /\ y.chip.tok.room = w.chip.tok.room
    PROVE  UrbData(y, calls, told, u)
<1>1. ~Queued(y.core, u) /\ y.core.status[u] = "ok" => DeliveredOf(y, u)
  BY DEF UrbData, DeliveredOf
<1>2. Queued(y.core, u) /\ (~First(y, u) \/ u \in calls) => Fresh(y, u)
  BY DEF UrbData, Fresh
<1>3. ASSUME First(y, u), u \notin calls
      PROVE  IF EpOf(u) = told THEN WillAgree(y, u) ELSE Agree(y, u)
  <2>1. y.hc.pid[EpOf(u)] = w.hc.pid[EpOf(u)]
    BY <1>3
  <2>2. AckAgrees(y, u) <=> AckAgrees(w, u)
    BY DEF AckAgrees
  <2>3. CASE EpOf(u) = told
    <3>1. WillAgree(w, u)
      BY <1>3, <2>3 DEF UrbData
    <3>2. y.chip.res.n = w.chip.res.n /\ y.chip.tok.room = w.chip.tok.room
      BY <2>3
    <3> QED
      BY <2>1, <2>2, <2>3, <3>1, <3>2 DEF WillAgree
  <2>4. CASE EpOf(u) # told
    <3>1. Agree(w, u)
      BY <1>3, <2>4 DEF UrbData
    <3> QED
      BY <2>1, <2>2, <2>4, <3>1 DEF Agree
  <2> QED
    BY <2>3, <2>4
<1> QED
  BY <1>1, <1>2, <1>3 DEF UrbData

(* The first packet of a fresh URB is the next one.                        *)
LEMMA FreshAgrees ==
    ASSUME DevOK, NEW w, NEW u \in Urbs, Fresh(w, u), w.hc.pid[EpOf(u)] = FirstPid(u)
    PROVE  Agree(w, u)
<1>1. w.core.actual[u] = 0 /\ w.bus[u].data = 0 /\ w.core.status[u] # "ok"
  BY DEF Fresh, Bare
<1>2. Type(EpOf(u)) = "control" => w.hc.pid[EpOf(u)] = "SETUP"
  BY DEF FirstPid
<1>3. Type(EpOf(u)) # "control" => w.hc.pid[EpOf(u)] = IF dev.urb[u].in THEN "IN" ELSE "OUT"
  BY DEF FirstPid
<1> QED
  BY <1>1, <1>2, <1>3 DEF Agree

(* An URB with status 0 was acknowledged.                                  *)
LEMMA AgreeDelivers ==
    ASSUME NEW w, NEW u, Agree(w, u) \/ WillAgree(w, u), w.core.status[u] = "ok"
    PROVE  DeliveredOf(w, u)
<1>1. AckAgrees(w, u) /\ dev.urb[u].in
  BY DEF Agree, WillAgree
<1> QED
  BY <1>1 DEF AckAgrees, DeliveredOf

(* Where URBs are when one is linked, ...                                  *)
LEMMA LinkQueues ==
    ASSUME DevOK, NEW w, Sane(w), QueuesInv(w.core), NEW u \in Urbs, ~Queued(w.core, u),
           NEW y, y = Link(w, u), NEW x \in Urbs, x # u
    PROVE  (Queued(y.core, x) <=> Queued(w.core, x)) /\ (First(y, x) <=> First(w, x))
<1> DEFINE e == EpOf(u)
           q == w.core.q[e]
           r == y.core.q[e]
<1>1. e \in Ep /\ EpOf(x) \in Ep /\ w \in Worlds
  BY UrbEp DEF Sane
<1>2. r = Append(q, u) /\ \A f \in Ep : f # e => y.core.q[f] = w.core.q[f]
  BY LinkFacts
<1>3. q \in Seq(Urbs)
  BY <1>1, QueueTypes
<1> HIDE DEF q, r
<1>4. /\ \A z : OnList(r, z) <=> OnList(q, z) \/ z = u
      /\ r # <<>>
      /\ q # <<>> => Head(r) = Head(q)
      /\ q = <<>> => Head(r) = u
  BY <1>2, <1>3, AppendFacts
<1>5. CASE EpOf(x) = e
  BY <1>4, <1>5 DEF q, r, Queued, First
<1>6. CASE EpOf(x) # e
  BY <1>1, <1>2, <1>6 DEF Queued, First
<1> QED
  BY <1>5, <1>6

(* usbcore's linking starts no packet of an URB that was not first.        *)
LEMMA LinkBegins ==
    ASSUME DevOK, NEW w, Sane(w), QueuesInv(w.core), NEW u \in Urbs, ~Queued(w.core, u),
           NEW open, NEW y, y = Link(w, u), NEW e \in Ep, Begins(y, open \union {u}, e)
    PROVE  Begins(w, open, e)
<1>1. EpOf(u) \in Ep /\ w \in Worlds /\ w.core.q[e] \in Seq(Urbs)
      /\ (w.core.q[e] # <<>> => OnList(w.core.q[e], Head(w.core.q[e])))
  BY UrbEp, QueueTypes DEF Sane
<1>2. /\ y.core.q[EpOf(u)] = Append(w.core.q[EpOf(u)], u)
      /\ \A f \in Ep : f # EpOf(u) => y.core.q[f] = w.core.q[f]
  BY LinkFacts
<1>3. w.core.q[e] # <<>> => y.core.q[e] # <<>> /\ Head(y.core.q[e]) = Head(w.core.q[e])
  <2>1. CASE e = EpOf(u)
    BY <1>1, <1>2, <2>1, AppendFacts
  <2>2. CASE e # EpOf(u)
    BY <1>2, <2>2
  <2> QED
    BY <2>1, <2>2
<1>4. w.core.q[e] # <<>> => Head(w.core.q[e]) # u
  BY <1>1 DEF QueuesInv, Queued
<1> QED
  BY <1>3, <1>4 DEF Begins

(* ... and what is known of them.                                          *)
LEMMA LinkData ==
    ASSUME DevOK, NEW w, Sane(w), QueuesInv(w.core), NEW u \in Urbs, ~Queued(w.core, u),
           NEW open, u \notin open, NEW told, DataInv(w, open, told),
           NEW y, y = Link(w, u)
    PROVE  DataInv(y, open \union {u}, told)
<1>1. /\ y.hc = w.hc /\ y.chip = w.chip
      /\ y.core.q[EpOf(u)] = Append(w.core.q[EpOf(u)], u)
      /\ y.core.status[u] = "busy" /\ y.core.actual[u] = 0 /\ y.bus[u] = Bare
      /\ \A x \in Urbs : x # u => /\ y.core.status[x] = w.core.status[x]
                                  /\ y.core.actual[x] = w.core.actual[x]
                                  /\ y.bus[x] = w.bus[x]
  BY SMTT(30), LinkFacts
<1>2. ASSUME NEW x \in Urbs PROVE UrbData(y, open \union {u}, told, x)
  <2>1. CASE x = u
    <3>1. y.core.actual[u] \in 0 .. dev.urb[u].len
      BY <1>1, DeviceFacts
    <3>2. Fresh(y, u)
      BY <1>1 DEF Fresh
    <3> QED
      BY <1>1, <2>1, <3>1, <3>2 DEF UrbData
  <2>2. CASE x # u
    <3>1. (Queued(y.core, x) <=> Queued(w.core, x)) /\ (First(y, x) <=> First(w, x))
      BY <2>2, LinkQueues
    <3>2. UrbData(w, open, told, x)
      BY DEF DataInv
    <3>3. x \in open \union {u} <=> x \in open
      BY <2>2
    <3> DEFINE calls == open \union {u}
    <3> HIDE DEF calls
    <3>4. UrbData(y, calls, told, x)
      BY <1>1, <2>2, <3>1, <3>2, <3>3, UrbStays DEF calls
    <3> QED
      BY <3>4 DEF calls
  <2> QED
    BY <2>1, <2>2
<1>3. PidData(y, open \union {u})
  <2> SUFFICES ASSUME NEW x \in Urbs, y.hc.alloc[EpOf(x)], Begins(y, open \union {u}, EpOf(x))
               PROVE  y.hc.pid[EpOf(x)] = FirstPid(x)
    BY DEF PidData
  <2>1. Begins(w, open, EpOf(x))
    BY UrbEp, LinkBegins
  <2> QED
    BY <1>1, <2>1 DEF DataInv, PidData
<1> QED
  BY <1>2, <1>3 DEF DataInv

-----------------------------------------------------------------------------
(* What is known of all but u, which finish_request gives back.            *)
DataBut(w, open, told, u) == PidData(w, open) /\ \A x \in Urbs \ {u} : UrbData(w, open, told, x)

(* u can be given back: status 0 says that the device acknowledged it.     *)
Ready(w, u) ==
    /\ w.core.actual[u] \in 0 .. dev.urb[u].len
    /\ w.core.status[u] = "ok" => DeliveredOf(w, u)

(* finish_request before the lock is released: nextpid is SETUP again for a*)
(* control endpoint, and nothing else is forgotten.                        *)
LEMMA FinishedData ==
    ASSUME DevOK, NEW w, Sane(w), NEW u \in Urbs, NEW e \in Made(w.hc), e = EpOf(u),
           First(w, u), NEW none, none = {}, NEW told, DataBut(w, none, told, u),
           w.core.actual[u] \in 0 .. dev.urb[u].len,
           NEW st \in Statuses,
           (IF w.core.status[u] = "busy" THEN st ELSE w.core.status[u]) = "ok" => DeliveredOf(w, u),
           NEW y, y = Finished(w, e, u, st)
    PROVE  /\ DataBut(y, none, told, u) /\ Ready(y, u)
           /\ Type(e) = "control" => y.hc.pid[e] = "SETUP"
<1>1. FinishedAs(y, w, e, u, st)
  BY FinishedFacts
<1>2. /\ y.chip = w.chip /\ y.bus = w.bus
      /\ y.core.q = w.core.q /\ y.core.actual = w.core.actual
      /\ y.core.status[u] = IF w.core.status[u] = "busy" THEN st ELSE w.core.status[u]
      /\ \A x \in Urbs : x # u => y.core.status[x] = w.core.status[x]
      /\ y.hc.pid[e] = IF Type(e) = "control" THEN "SETUP" ELSE w.hc.pid[e]
      /\ \A x \in Ep : x # e => y.hc.pid[x] = w.hc.pid[x]
      /\ y.hc.alloc = w.hc.alloc
  BY <1>1 DEF FinishedAs
<1>3. \A x : (Queued(y.core, x) <=> Queued(w.core, x)) /\ (First(y, x) <=> First(w, x))
  BY <1>2 DEF Queued, First
<1>4. ASSUME NEW x \in Urbs \ {u} PROVE UrbData(y, none, told, x)
  <2>1. UrbData(w, none, told, x) /\ x \in Urbs
    BY DEF DataBut
  <2>2. First(w, x) => y.hc.pid[EpOf(x)] = w.hc.pid[EpOf(x)]
    <3>1. First(w, x) => EpOf(x) # e
      BY DEF First
    <3> QED
      BY <1>2, <3>1, UrbEp
  <2> QED
    BY <1>2, <1>3, <2>1, <2>2, UrbStays
<1>5. Ready(y, u)
  BY <1>2 DEF Ready, DeliveredOf
<1>6. PidData(y, none)
  <2> SUFFICES ASSUME NEW x \in Urbs, y.hc.alloc[EpOf(x)], Begins(y, none, EpOf(x))
               PROVE  y.hc.pid[EpOf(x)] = FirstPid(x)
    BY DEF PidData
  <2>1. w.hc.pid[EpOf(x)] = FirstPid(x)
    BY <1>2 DEF DataBut, PidData, Begins
  <2>2. Type(EpOf(x)) = "control" => FirstPid(x) = "SETUP"
    BY DEF FirstPid
  <2> QED
    BY <1>2, <2>1, <2>2, UrbEp
<1> QED
  BY <1>2, <1>4, <1>5, <1>6 DEF DataBut

(* What is left of the queue of an URB that is given back, ...             *)
LEMMA LeftQueue ==
    ASSUME DevOK, NEW w, Sane(w), QueuesInv(w.core), NEW u \in Urbs, NEW y, y = Left(w, u)
    PROVE  \A z : OnList(y.core.q[EpOf(u)], z) <=> OnList(w.core.q[EpOf(u)], z) /\ z # u
<1> DEFINE e == EpOf(u)
           r == y.core.q[e]
<1>1. e \in Ep /\ w \in Worlds /\ QueuesInv(w.core)
  BY UrbEp DEF Sane
<1>2. r = Without(w.core.q[e], u)
  BY LeftFacts
<1> HIDE DEF e, r
<1>3. \A s : s = Without(w.core.q[e], u) =>
        /\ Distinct(s)
        /\ \A z : OnList(s, z) <=> OnList(w.core.q[e], z) /\ z # u
        /\ w.core.q[e] # <<>> /\ Head(w.core.q[e]) # u => s # <<>> /\ Head(s) = Head(w.core.q[e])
  BY <1>1, WithoutInQueue
<1>4. \A z : OnList(r, z) <=> OnList(w.core.q[e], z) /\ z # u
  BY <1>2, <1>3
<1> QED
  BY <1>4 DEF e, r

(* ... whose successor, if any, begins with its first packet.              *)
LEMMA LeftData ==
    ASSUME DevOK, NEW w, Sane(w), QueuesInv(w.core), NEW u \in Urbs, First(w, u),
           w.hc.alloc[EpOf(u)], Type(EpOf(u)) = "control" => w.hc.pid[EpOf(u)] = "SETUP",
           NEW none, none = {}, NEW told, told \notin Ep, DataBut(w, none, told, u), Ready(w, u),
           NEW y, y = Left(w, u)
    PROVE  DataInv(y, none, told)
<1> DEFINE e == EpOf(u)
           q == w.core.q[e]
           r == y.core.q[e]
<1>1. e \in Ep /\ w \in Worlds
  BY UrbEp DEF Sane
<1>2. /\ y.hc = w.hc /\ y.chip = w.chip /\ y.bus = w.bus
      /\ r = Without(q, u)
      /\ \A x \in Ep : x # e => y.core.q[x] = w.core.q[x]
      /\ y.core.status = w.core.status /\ y.core.actual = w.core.actual
  BY LeftFacts
<1>3. \A z : OnList(r, z) <=> OnList(q, z) /\ z # u
  BY LeftQueue
<1>4. \A x \in Urbs : w.hc.alloc[EpOf(x)] /\ EpOf(x) = e => w.hc.pid[e] = FirstPid(x)
  <2> SUFFICES ASSUME NEW x \in Urbs, w.hc.alloc[EpOf(x)], EpOf(x) = e
               PROVE  w.hc.pid[e] = FirstPid(x)
    OBVIOUS
  <2>1. CASE Type(e) = "control"
    BY <2>1 DEF FirstPid
  <2>2. CASE Type(e) # "control"
    BY <2>2 DEF DataBut, PidData, Begins
  <2> QED
    BY <2>1, <2>2
<1>5. ASSUME NEW x \in Urbs PROVE UrbData(y, none, told, x)
  <2>1. CASE x = u
    <3>1. ~Queued(y.core, u)
      BY <1>3 DEF Queued
    <3>2. ~First(y, u)
      <4>1. r # <<>> => OnList(r, Head(r))
        <5>1. y \in Worlds
          BY LeftFacts DEF Sane
        <5> QED
          BY <1>1, <5>1, QueueTypes
      <4> QED
        BY <3>1, <4>1 DEF First, Queued
    <3> QED
      BY <1>2, <2>1, <3>1, <3>2 DEF UrbData, Ready, DeliveredOf
  <2>2. CASE x # u /\ EpOf(x) # e
    <3>1. UrbData(w, none, told, x) /\ y.core.q[EpOf(x)] = w.core.q[EpOf(x)]
      BY <1>2, <2>2, UrbEp DEF DataBut
    <3>2. (Queued(y.core, x) <=> Queued(w.core, x)) /\ (First(y, x) <=> First(w, x))
      BY <3>1 DEF Queued, First
    <3> QED
      BY <1>2, <3>1, <3>2, UrbStays
  <2>3. CASE x # u /\ EpOf(x) = e
    <3>1. UrbData(w, none, told, x)
      BY <2>3 DEF DataBut
    <3>2. (Queued(y.core, x) <=> Queued(w.core, x)) /\ ~First(w, x)
      BY <1>3, <2>3 DEF Queued, First
    <3>3. First(y, x) => Queued(y.core, x)
      <4>1. y \in Worlds
        BY LeftFacts DEF Sane
      <4> QED
        BY <1>1, <2>3, <4>1, QueueTypes DEF First, Queued
    <3>4. y.core.actual[x] \in 0 .. dev.urb[x].len
          /\ (~Queued(y.core, x) /\ y.core.status[x] = "ok" => DeliveredOf(y, x))
      BY <1>2, <3>1, <3>2 DEF UrbData, DeliveredOf
    <3>5. Queued(y.core, x) => Fresh(y, x)
      BY <1>2, <3>1, <3>2 DEF UrbData, Fresh
    <3>6. First(y, x) => Agree(y, x)
      BY <1>2, <1>4, <2>3, <3>3, <3>5, FreshAgrees
    <3>7. EpOf(x) # told
      BY <1>1, <2>3
    <3> QED
      BY <3>4, <3>5, <3>6, <3>7 DEF UrbData
  <2> QED
    BY <2>1, <2>2, <2>3
<1>6. PidData(y, none)
  <2> SUFFICES ASSUME NEW x \in Urbs, y.hc.alloc[EpOf(x)], Begins(y, none, EpOf(x))
               PROVE  y.hc.pid[EpOf(x)] = FirstPid(x)
    BY DEF PidData
  <2>1. CASE EpOf(x) = e
    BY <1>2, <1>4, <2>1
  <2>2. CASE EpOf(x) # e
    BY <1>2, <2>2, UrbEp DEF DataBut, PidData, Begins
  <2> QED
    BY <2>1, <2>2
<1> QED
  BY <1>5, <1>6 DEF DataInv

(* Why the packet under way, if any, is that of the driver's active_a.     *)
PacketInv(w) ==
    IF w.hc.active = None
    THEN w.chip.armed \/ "DONE_A" \in w.chip.pend
            => w.chip.tok.pid = "SOF" /\ \A e \in Ep : w.core.q[e] = <<>>
    ELSE LET e == w.hc.active
             u == Head(w.core.q[e])
         IN  /\ w.chip.tok = [pid |-> w.hc.pid[e], urb |-> u, room |-> Room(w, e, u)]
             /\ w.chip.armed => "DONE_A" \notin w.chip.pend

(* urb_enqueue did not take u, and it leaves its queue.                    *)
Refused(y, w, u) ==
    /\ y.core.q[EpOf(u)] = Without(w.core.q[EpOf(u)], u)
    /\ \A e \in Ep : e # EpOf(u) => y.core.q[e] = w.core.q[e]
    /\ y.core.status[u] = "refused"
    /\ \A x \in Urbs : x # u => y.core.status[x] = w.core.status[x]

(* The first URB of a queue is on it.                                      *)
LEMMA FirstQueued ==
    ASSUME DevOK, NEW w, Sane(w), NEW x \in Urbs, First(w, x)
    PROVE  Queued(w.core, x)
<1>1. w \in Worlds /\ EpOf(x) \in Ep
  BY UrbEp DEF Sane
<1>2. w.core.q[EpOf(x)] # <<>> => OnList(w.core.q[EpOf(x)], Head(w.core.q[EpOf(x)]))
  BY <1>1, QueueTypes
<1> QED
  BY <1>2 DEF First, Queued

(* Where URBs are when urb_enqueue did not take one.                       *)
LEMMA RefusedQueues ==
    ASSUME DevOK, NEW w, Sane(w), QueuesInv(w.core), NEW u \in Urbs, NEW y, Refused(y, w, u)
    PROVE  /\ ~Queued(y.core, u)
           /\ \A x \in Urbs : x # u =>
                /\ Queued(y.core, x) <=> Queued(w.core, x)
                /\ First(w, x) => First(y, x)
                /\ First(y, x) /\ ~First(w, x) => First(w, u) /\ EpOf(x) = EpOf(u)
           /\ y.core.q[EpOf(u)] = <<>> /\ w.core.q[EpOf(u)] # <<>> => First(w, u)
<1> DEFINE e == EpOf(u)
           q == w.core.q[e]
           r == y.core.q[e]
<1>1. e \in Ep /\ w \in Worlds /\ QueuesInv(w.core)
  BY UrbEp DEF Sane
<1>2. r = Without(q, u) /\ \A f \in Ep : f # e => y.core.q[f] = w.core.q[f]
  BY DEF Refused
<1>3. /\ \A z : OnList(r, z) <=> OnList(q, z) /\ z # u
      /\ q # <<>> /\ Head(q) # u => r # <<>> /\ Head(r) = Head(q)
  <2> HIDE DEF e, r
  <2>1. \A s : s = Without(w.core.q[e], u) =>
        /\ Distinct(s)
        /\ \A z : OnList(s, z) <=> OnList(w.core.q[e], z) /\ z # u
        /\ w.core.q[e] # <<>> /\ Head(w.core.q[e]) # u => s # <<>> /\ Head(s) = Head(w.core.q[e])
    BY <1>1, WithoutInQueue
  <2> QED
    BY <1>2, <2>1
<1>4. ~Queued(y.core, u)
  BY <1>3 DEF Queued
<1>5. ASSUME NEW x \in Urbs, x # u
      PROVE  /\ Queued(y.core, x) <=> Queued(w.core, x)
             /\ First(w, x) => First(y, x)
             /\ First(y, x) /\ ~First(w, x) => First(w, u) /\ EpOf(x) = EpOf(u)
  <2>1. CASE EpOf(x) # e
    <3>1. y.core.q[EpOf(x)] = w.core.q[EpOf(x)]
      BY <1>2, <2>1, UrbEp
    <3> QED
      BY <3>1 DEF Queued, First
  <2>2. CASE EpOf(x) = e
    <3>1. r # <<>> => q # <<>>
      <4>1. ASSUME q = <<>> PROVE r = <<>>
        <5>1. \A z : ~OnList(q, z)
          BY <4>1, EmptyLists
        <5>2. r = q
          <6> HIDE DEF q, r
          <6> QED
            BY <1>2, <5>1 DEF Without
        <5> QED
          BY <4>1, <5>2
      <4> QED
        BY <4>1
    <3> QED
      BY <1>3, <1>5, <2>2, <3>1 DEF Queued, First
  <2> QED
    BY <2>1, <2>2
<1>6. r = <<>> /\ q # <<>> => First(w, u)
  BY <1>3 DEF First
<1> QED
  BY <1>4, <1>5, <1>6

(* The URBs that were taken belong to endpoints the driver has.            *)
LEMMA TakenMade ==
    ASSUME DevOK, NEW w, NEW open, NEW except, KeptInv(w, open, except), NEW x \in Urbs, x \notin open,
           Queued(w.core, x)
    PROVE  w.hc.alloc[EpOf(x)]
<1>1. HasTaken(w.core, EpOf(x), open) /\ EpOf(x) \in Ep
  BY UrbEp DEF HasTaken, Queued
<1> QED
  BY <1>1 DEF KeptInv, ServedInv, AllocInv

(* What urb_enqueue leaves as it is.                                       *)
LEMMA EnqueuedFacts ==
    ASSUME NEW w, NEW y, NEW u, NEW open, NEW except, Enqueued(y, w, u, open, except)
    PROVE  /\ Sane(y) /\ KeptInv(y, open, except) /\ SamePids(y, w)
           /\ y.bus = w.bus /\ y.core.actual = w.core.actual
           /\ y.core.closed = w.core.closed /\ y.core.calls = w.core.calls
           /\ (y.core = w.core /\ EpOf(u) \in Sched(y.hc)) \/ Refused(y, w, u)
           /\ \/ y.chip = w.chip /\ y.hc.active = w.hc.active
              \/ w.hc.active = None /\ \E e \in Made(y.hc) : Issued(y, e)
           /\ y.chip.pend = w.chip.pend
           /\ \A e \in Ep : y.hc.alloc[e] /\ ~w.hc.alloc[e] => e = EpOf(u) /\ y.hc.pid[e] = FirstPid(u)
BY DEF Enqueued, Refused

(* The URBs of an endpoint begin with the same packet, for only a control  *)
(* endpoint goes both ways.                                                *)
LEMMA FirstPidSame ==
    ASSUME DevOK, NEW u \in Urbs, NEW x \in Urbs, EpOf(x) = EpOf(u)
    PROVE  FirstPid(x) = FirstPid(u)
<1>1. dev.urb[u].in # dev.urb[x].in => Type(EpOf(u)) = "control"
  BY DeviceFacts DEF EpOf, Type
<1> QED
  BY <1>1 DEF FirstPid

(* urb_enqueue keeps what is known of URBs, and u is one like the others.  *)
LEMMA EnqueuePid ==
    ASSUME DevOK, NEW w, Sane(w), QueuesInv(w.core), NEW u \in Urbs, NEW one, one = {u},
           NEW none, none = {}, PidData(w, one), NEW y, NEW except, Enqueued(y, w, u, none, except)
    PROVE  PidData(y, none)
<1> SUFFICES ASSUME NEW x \in Urbs, y.hc.alloc[EpOf(x)], Begins(y, none, EpOf(x))
             PROVE  y.hc.pid[EpOf(x)] = FirstPid(x)
  BY DEF PidData
<1>0. EpOf(x) \in Ep
  BY UrbEp
<1>1. /\ SamePids(y, w)
      /\ (y.core = w.core /\ EpOf(u) \in Sched(y.hc)) \/ Refused(y, w, u)
      /\ \A e \in Ep : y.hc.alloc[e] /\ ~w.hc.alloc[e] => e = EpOf(u) /\ y.hc.pid[e] = FirstPid(u)
  BY EnqueuedFacts
<1>2. CASE ~w.hc.alloc[EpOf(x)]
  BY <1>0, <1>1, <1>2, FirstPidSame
<1>3. CASE w.hc.alloc[EpOf(x)]
  <2>1. y.hc.pid[EpOf(x)] = w.hc.pid[EpOf(x)]
    BY <1>0, <1>1, <1>3 DEF SamePids
  <2>2. Begins(w, one, EpOf(x))
    <3>1. CASE Type(EpOf(x)) # "control"
      BY <3>1 DEF Begins
    <3>2. CASE y.core.q[EpOf(x)] = <<>> /\ y.core = w.core
      BY <3>2 DEF Begins
    <3>3. CASE y.core.q[EpOf(x)] = <<>> /\ Refused(y, w, u)
      <4>1. CASE EpOf(x) = EpOf(u)
        <5>1. w.core.q[EpOf(u)] = <<>> \/ First(w, u)
          BY <3>3, <4>1, RefusedQueues
        <5> QED
          BY <4>1, <5>1 DEF First, Begins
      <4>2. CASE EpOf(x) # EpOf(u)
        BY <1>0, <3>3, <4>2 DEF Refused, Begins
      <4> QED
        BY <4>1, <4>2
    <3> QED
      BY <1>1, <3>1, <3>2, <3>3 DEF Begins
  <2> QED
    BY <1>3, <2>1, <2>2 DEF PidData
<1> QED
  BY <1>2, <1>3

(* What is known of URBs when urb_enqueue returns.                         *)
LEMMA EnqueueData ==
    ASSUME DevOK, Orderly, NEW w, Sane(w), NEW u \in Urbs, NEW one, one = {u}, NEW none, none = {},
           NEW told, NEW except, KeptInv(w, one, except), DataInv(w, one, told), Queued(w.core, u),
           told # None => told = w.hc.active /\ ActiveInv(w.hc, w.core, one),
           NEW y, Enqueued(y, w, u, none, except)
    PROVE  DataInv(y, none, told)
<1>1. /\ Sane(y) /\ KeptInv(y, none, except) /\ SamePids(y, w)
      /\ y.bus = w.bus /\ y.core.actual = w.core.actual
      /\ (y.core = w.core /\ EpOf(u) \in Sched(y.hc)) \/ Refused(y, w, u)
      /\ \/ y.chip = w.chip /\ y.hc.active = w.hc.active
         \/ w.hc.active = None /\ \E e \in Made(y.hc) : Issued(y, e)
      /\ \A e \in Ep : y.hc.alloc[e] /\ ~w.hc.alloc[e] => e = EpOf(u) /\ y.hc.pid[e] = FirstPid(u)
  BY EnqueuedFacts
<1>2. QueuesInv(w.core) /\ EpOf(u) \in Ep
  BY UrbEp DEF KeptInv
<1>3. PidData(y, none)
  BY <1>2, EnqueuePid DEF DataInv
<1>4. \A x \in Urbs : EpOf(x) = told => y.chip = w.chip
  BY <1>1, UrbEp, Sl811ScheduleAssumption
<1>5. First(w, u) => EpOf(u) # told
  BY <1>2, OrderlyFacts, Sl811ScheduleAssumption DEF ActiveInv, First
<1>6. \A x \in Urbs \ {u} : Queued(w.core, x) => w.hc.alloc[EpOf(x)]
                                                 /\ y.hc.pid[EpOf(x)] = w.hc.pid[EpOf(x)]
  <2> SUFFICES ASSUME NEW x \in Urbs \ {u}, Queued(w.core, x)
               PROVE  w.hc.alloc[EpOf(x)] /\ y.hc.pid[EpOf(x)] = w.hc.pid[EpOf(x)]
    OBVIOUS
  <2>1. w.hc.alloc[EpOf(x)]
    BY TakenMade
  <2> QED
    BY <1>1, <2>1, UrbEp DEF SamePids
<1>7. \A x \in Urbs : EpOf(x) = EpOf(u) /\ First(w, u) /\ y.hc.alloc[EpOf(u)]
                        => y.hc.pid[EpOf(u)] = FirstPid(x)
  <2> SUFFICES ASSUME First(w, u), y.hc.alloc[EpOf(u)] PROVE y.hc.pid[EpOf(u)] = FirstPid(u)
    BY FirstPidSame
  <2>1. CASE w.hc.alloc[EpOf(u)]
    <3>1. Begins(w, one, EpOf(u))
      BY DEF Begins, First
    <3> QED
      BY <1>1, <1>2, <2>1, <3>1 DEF DataInv, PidData, SamePids
  <2>2. CASE ~w.hc.alloc[EpOf(u)]
    BY <1>1, <1>2, <2>2
  <2> QED
    BY <2>1, <2>2
<1>8. ASSUME NEW x \in Urbs, x # u PROVE UrbData(y, none, told, x)
  <2>0. /\ UrbData(w, one, told, x) /\ x \notin one /\ x \notin none
        /\ EpOf(x) = told => y.chip.res.n = w.chip.res.n /\ y.chip.tok.room = w.chip.tok.room
    BY <1>4, <1>8 DEF DataInv
  <2>1. /\ Queued(y.core, x) <=> Queued(w.core, x)
        /\ First(w, x) => First(y, x)
        /\ First(y, x) /\ ~First(w, x) => First(w, u) /\ EpOf(x) = EpOf(u)
        /\ y.core.status[x] = w.core.status[x]
    BY <1>1, <1>2, <1>8, RefusedQueues DEF Queued, First, Refused
  <2>2. First(y, x) => Queued(w.core, x)
    BY <1>1, <2>1, FirstQueued
  <2>3. CASE First(y, x) => First(w, x)
    BY <1>1, <1>6, <1>8, <2>0, <2>1, <2>2, <2>3, UrbStays
  <2>4. CASE First(y, x) /\ ~First(w, x)
    <3>1. Fresh(w, x) /\ First(w, u) /\ EpOf(x) = EpOf(u) /\ Queued(w.core, x)
      BY <2>0, <2>1, <2>2, <2>4 DEF UrbData
    <3>2. Fresh(y, x)
      BY <1>1, <2>1, <3>1 DEF Fresh
    <3>3. y.hc.pid[EpOf(x)] = FirstPid(x)
      <4>1. w.hc.alloc[EpOf(x)]
        BY <1>6, <1>8, <3>1
      <4>2. y.hc.alloc[EpOf(u)]
        BY <1>1, <1>2, <3>1, <4>1 DEF SamePids
      <4> QED
        BY <1>7, <3>1, <4>2
    <3>4. Agree(y, x)
      BY <3>2, <3>3, FreshAgrees
    <3>5. y.core.actual[x] \in 0 .. dev.urb[x].len
      BY <1>1, <2>0 DEF UrbData
    <3> QED
      BY <1>5, <2>1, <3>1, <3>2, <3>4, <3>5 DEF UrbData
  <2> QED
    BY <2>3, <2>4
<1>9. UrbData(y, none, told, u)
  <2>1. UrbData(w, one, told, u) /\ Fresh(w, u)
    BY DEF DataInv, UrbData
  <2>2. y.core.actual[u] \in 0 .. dev.urb[u].len
    BY <1>1, <2>1 DEF UrbData
  <2>3. CASE Refused(y, w, u)
    <3>1. ~Queued(y.core, u) /\ ~First(y, u) /\ y.core.status[u] # "ok"
      BY <1>1, <1>2, <2>3, RefusedQueues, FirstQueued DEF Refused
    <3> QED
      BY <2>2, <3>1 DEF UrbData
  <2>4. CASE y.core = w.core /\ EpOf(u) \in Sched(y.hc)
    <3>1. Fresh(y, u) /\ Queued(y.core, u) /\ (First(y, u) <=> First(w, u))
      BY <1>1, <2>1, <2>4 DEF Fresh, First
    <3>2. y.hc.alloc[EpOf(u)]
      BY <1>1, <2>4 DEF KeptInv, AllocInv
    <3>3. First(y, u) => Agree(y, u) /\ EpOf(u) # told
      BY <1>5, <1>7, <3>1, <3>2, FreshAgrees
    <3> QED
      BY <2>2, <3>1, <3>3 DEF UrbData
  <2> QED
    BY <1>1, <2>3, <2>4
<1> QED
  BY <1>3, <1>8, <1>9 DEF DataInv

(* A packet that was just issued.                                          *)
LEMMA IssuedPacket ==
    ASSUME NEW y, NEW e, Issued(y, e), "DONE_A" \notin y.chip.pend
    PROVE  PacketInv(y)
<1>1. e \in Ep /\ e # None /\ y.hc.active = e
  BY SMTT(30), Sl811ScheduleAssumption DEF Issued
<1> QED
  BY <1>1 DEF Issued, PacketInv

(* The packet under way is no other while its URB and endpoint are as they *)
(* were.                                                                   *)
LEMMA PacketStays ==
    ASSUME NEW w, NEW y, PacketInv(w), NEW e, e = w.hc.active, e # None, y.hc.active = e,
           y.chip.tok = w.chip.tok, y.chip.armed => "DONE_A" \notin y.chip.pend,
           Head(y.core.q[e]) = Head(w.core.q[e]), y.hc.pid[e] = w.hc.pid[e],
           NEW u, u = Head(w.core.q[e]), y.core.actual[u] = w.core.actual[u]
    PROVE  PacketInv(y)
<1>1. Room(y, e, u) = Room(w, e, u)
  BY SMTT(30) DEF Room
<1>2. w.chip.tok = [pid |-> w.hc.pid[e], urb |-> u, room |-> Room(w, e, u)]
  BY DEF PacketInv
<1> QED
  BY <1>1, <1>2 DEF PacketInv

(* urb_enqueue starts a packet of the first URB or leaves the one under way*)
(* alone.                                                                  *)
LEMMA EnqueuePacket ==
    ASSUME DevOK, Orderly, NEW w, Sane(w), NEW u \in Urbs, NEW one, one = {u}, NEW none, none = {},
           NEW except, KeptInv(w, one, except), ActiveInv(w.hc, w.core, one), Queued(w.core, u),
           PacketInv(w), NEW y, Enqueued(y, w, u, none, except)
    PROVE  PacketInv(y)
<1>1. /\ Sane(y) /\ SamePids(y, w) /\ y.core.actual = w.core.actual
      /\ (y.core = w.core /\ EpOf(u) \in Sched(y.hc)) \/ Refused(y, w, u)
      /\ \/ y.chip = w.chip /\ y.hc.active = w.hc.active
         \/ w.hc.active = None /\ \E e \in Made(y.hc) : Issued(y, e)
      /\ y.chip.pend = w.chip.pend
  BY EnqueuedFacts
<1>2. CASE w.hc.active = None
  <2>1. w.core.q[EpOf(u)] # <<>> /\ EpOf(u) \in Ep
    BY UrbEp, EmptyLists DEF Queued
  <2>2. ~w.chip.armed /\ "DONE_A" \notin w.chip.pend
    BY <1>2, <2>1 DEF PacketInv
  <2>3. CASE y.chip = w.chip /\ y.hc.active = w.hc.active
    BY <1>2, <2>2, <2>3 DEF PacketInv
  <2>4. CASE \E e \in Made(y.hc) : Issued(y, e)
    BY <1>1, <2>2, <2>4, IssuedPacket
  <2> QED
    BY <1>1, <2>3, <2>4
<1>3. CASE w.hc.active # None
  <2> DEFINE e == w.hc.active
  <2>1. e \in Ep /\ w.hc.alloc[e]
    BY <1>3, OrderlyFacts DEF KeptInv, AllocInv, Sane, MadeInv, Made
  <2>2. w.core.q[e] # <<>> /\ Head(w.core.q[e]) # u
    BY <1>3, OrderlyFacts DEF ActiveInv
  <2>3. y.chip = w.chip /\ y.hc.active = e /\ y.hc.pid[e] = w.hc.pid[e]
    BY <1>1, <1>3, <2>1 DEF SamePids
  <2>4. Head(y.core.q[e]) = Head(w.core.q[e])
    <3>1. CASE y.core = w.core
      BY <3>1
    <3>2. CASE Refused(y, w, u)
      <4>1. CASE e # EpOf(u)
        BY <2>1, <3>2, <4>1 DEF Refused
      <4>2. CASE e = EpOf(u)
        <5>1. w \in Worlds /\ QueuesInv(w.core)
          BY DEF Sane, KeptInv
        <5>2. \A s : s = Without(w.core.q[e], u) =>
            /\ Distinct(s)
            /\ \A z : OnList(s, z) <=> OnList(w.core.q[e], z) /\ z # u
            /\ w.core.q[e] # <<>> /\ Head(w.core.q[e]) # u
                => s # <<>> /\ Head(s) = Head(w.core.q[e])
          BY <2>1, <5>1, WithoutInQueue
        <5> QED
          BY <2>2, <3>2, <4>2, <5>2 DEF Refused
      <4> QED
        BY <4>1, <4>2
    <3> QED
      BY <1>1, <3>1, <3>2
  <2>5. y.chip.armed => "DONE_A" \notin y.chip.pend
    BY <1>3, <2>3 DEF PacketInv
  <2> QED
    BY <1>1, <1>3, <2>3, <2>4, <2>5, PacketStays
<1> QED
  BY <1>2, <1>3

(* start_transfer is the same as far as URBs go.                           *)
LEMMA StartExact ==
    ASSUME DevOK, NEW w, Sane(w), NEW open, NEW told, told \in {None, w.hc.active},
           DataInv(w, open, told), PacketInv(w), "DONE_A" \notin w.chip.pend,
           NEW y \in StartTransfer(w)
    PROVE  DataInv(y, open, told) /\ PacketInv(y)
<1>1. /\ y.core = w.core /\ y.bus = w.bus /\ y.hc.alloc = w.hc.alloc /\ y.hc.pid = w.hc.pid
      /\ y.chip.pend = w.chip.pend
      /\ \/ y.chip = w.chip /\ y.hc.active = w.hc.active
         \/ w.hc.active = None /\ \E e \in Made(w.hc) : Issued(y, e)
  BY StartTransferFacts DEF Started
<1>2. PacketInv(y)
  <2>1. CASE y.chip = w.chip /\ y.hc.active = w.hc.active
    <3>1. CASE w.hc.active = None
      BY <1>1, <2>1, <3>1 DEF PacketInv
    <3>2. CASE w.hc.active # None
      <4>1. y.chip.armed => "DONE_A" \notin y.chip.pend
        BY <1>1
      <4> QED
        BY <1>1, <2>1, <3>2, <4>1, PacketStays
    <3> QED
      BY <3>1, <3>2
  <2>2. CASE \E e \in Made(w.hc) : Issued(y, e)
    BY <1>1, <2>2, IssuedPacket
  <2> QED
    BY <1>1, <2>1, <2>2
<1>3. ASSUME NEW x \in Urbs PROVE UrbData(y, open, told, x)
  <2>1. UrbData(w, open, told, x)
    BY DEF DataInv
  <2>2. EpOf(x) = told => y.chip = w.chip
    BY <1>1, UrbEp, Sl811ScheduleAssumption
  <2>3. (Queued(y.core, x) <=> Queued(w.core, x)) /\ (First(y, x) <=> First(w, x))
    BY <1>1 DEF First
  <2> QED
    BY <1>1, <2>1, <2>2, <2>3, UrbStays
<1>4. PidData(y, open)
  BY <1>1 DEF DataInv, PidData, Begins
<1> QED
  BY <1>2, <1>3, <1>4 DEF DataInv

(* Nothing of what is known of URBs changes.                               *)
LEMMA DataSame ==
    ASSUME NEW w, NEW y, NEW open, NEW told, DataInv(w, open, told),
           y.core.q = w.core.q, y.core.status = w.core.status, y.core.actual = w.core.actual,
           y.bus = w.bus, y.hc.alloc = w.hc.alloc, y.hc.pid = w.hc.pid,
           y.chip.res = w.chip.res, y.chip.tok = w.chip.tok
    PROVE  DataInv(y, open, told)
<1>1. PidData(y, open)
  BY DEF DataInv, PidData, Begins
<1>2. ASSUME NEW x \in Urbs PROVE UrbData(y, open, told, x)
  <2>1. UrbData(w, open, told, x)
    BY DEF DataInv
  <2>2. (Queued(y.core, x) <=> Queued(w.core, x)) /\ (First(y, x) <=> First(w, x))
    BY DEF First, Queued
  <2> QED
    BY <2>1, <2>2, UrbStays
<1> QED
  BY <1>1, <1>2 DEF DataInv

(* An URB given back, and maybe one submitted by the completion handler.   *)
LEMMA GivebackData ==
    ASSUME DevOK, Orderly, NEW w, Sane(w), ~w.oops, NEW none, none = {}, KeptInv(w, none, {}),
           w.core.calls = none, NEW u \in Urbs, Queued(w.core, u), w.core.status[u] # "busy",
           First(w, u), w.hc.alloc[EpOf(u)],
           Type(EpOf(u)) = "control" => w.hc.pid[EpOf(u)] = "SETUP",
           DataBut(w, none, None, u), Ready(w, u), NEW y \in Giveback(w, u)
    PROVE  DataInv(y, none, None)
<1> DEFINE left == Left(w, u)
           idle == {x \in Urbs : ~Queued(left.core, x) /\ (x = u \/ x \notin w.core.calls)
                                 /\ EpOf(x) \notin w.core.closed}
<1>1. y \in {left} \union UNION {Enqueue(Link(left, x), x) : x \in idle}
  BY DEF Giveback, Left
<1>n. none \in SUBSET Urbs /\ (Happens("overtake") \/ none = {})
  OBVIOUS
<1>2. Sane(left) /\ left.oops = w.oops
  BY LeftFacts
<1>3. /\ KeptInv(left, none, {EpOf(u)})
      /\ Happens("plug") \/ left.chip.tok.pid # "none"
  BY <1>n, LeftKeeps
<1>4. DataInv(left, none, None)
  <2>1. QueuesInv(w.core) /\ None \notin Ep
    BY Sl811ScheduleAssumption DEF KeptInv
  <2> QED
    BY <2>1, LeftData
<1> HIDE DEF left
<1>5. ASSUME NEW x \in idle, y \in Enqueue(Link(left, x), x)
      PROVE  DataInv(y, none, None)
  <2> DEFINE l == Link(left, x)
             one == {x}
  <2>1. x \in Urbs /\ ~Queued(left.core, x) /\ x \notin none /\ none \union {x} = one /\ one = {x}
    OBVIOUS
  <2>l. l = Link(left, x)
    OBVIOUS
  <2> HIDE DEF l, one
  <2>2. Sane(l) /\ l.oops = left.oops
    BY <1>2, <2>1, <2>l, LinkFacts
  <2>3. KeptInv(l, none \union {x}, {EpOf(u)}) /\ Queued(l.core, x)
    BY <1>n, <1>2, <1>3, <2>1, <2>l, LinkKeeps
  <2>4. DataInv(l, none \union {x}, None)
    <3>1. QueuesInv(left.core)
      BY <1>3 DEF KeptInv
    <3> QED
      BY <1>2, <1>4, <2>1, <2>l, <3>1, LinkData
  <2>5. Enqueued(y, l, x, none, {EpOf(u)})
    BY <1>n, <1>2, <1>5, <2>1, <2>l, <2>2, <2>3, EnqueueKeeps
  <2>6. KeptInv(l, one, {EpOf(u)}) /\ DataInv(l, one, None)
    BY <2>1, <2>3, <2>4
  <2> QED
    BY <2>1, <2>2, <2>3, <2>5, <2>6, EnqueueData
<1> QED
  BY <1>1, <1>4, <1>5

(* finish_request.                                                         *)
LEMMA FinishData ==
    ASSUME DevOK, Orderly, NEW w, Sane(w), ~w.oops, NEW none, none = {}, KeptInv(w, none, {}),
           w.core.calls = none, NEW u \in Urbs, NEW e \in Made(w.hc), e = EpOf(u), First(w, u),
           NEW st \in Statuses, st # "busy" \/ w.core.status[u] # "busy",
           DataBut(w, none, None, u), w.core.actual[u] \in 0 .. dev.urb[u].len,
           (IF w.core.status[u] = "busy" THEN st ELSE w.core.status[u]) = "ok" => DeliveredOf(w, u),
           NEW y \in FinishRequest(w, e, u, st)
    PROVE  DataInv(y, none, None)
<1> DEFINE z == Finished(w, e, u, st)
<1>1. y \in UNION {IF x.oops THEN {x} ELSE {Deschedule(x, e)} : x \in Giveback(z, u)}
  BY Zenon DEF FinishRequest, Finished, Then
<1>z. z = Finished(w, e, u, st)
  OBVIOUS
<1> HIDE DEF z
<1>n. none \in SUBSET Urbs /\ (Happens("overtake") \/ none = {})
  OBVIOUS
<1>2. Queued(w.core, u) /\ w.hc.alloc[e]
  BY <1>n, FirstQueued, TakenMade
<1>3. FinishedAs(z, w, e, u, st)
  BY <1>z, FinishedFacts
<1>4. /\ z.core.q = w.core.q /\ z.core.calls = w.core.calls /\ z.oops = w.oops
      /\ z.hc.alloc = w.hc.alloc /\ Made(z.hc) = Made(w.hc)
  BY <1>3 DEF FinishedAs
<1>5. Sane(z) /\ KeptInv(z, none, {}) /\ z.core.status[u] # "busy"
  BY <1>n, <1>2, <1>z, FinishedKeeps
<1>6. /\ DataBut(z, none, None, u) /\ Ready(z, u)
      /\ Type(e) = "control" => z.hc.pid[e] = "SETUP"
  BY <1>z, FinishedData
<1>7. Queued(z.core, u) /\ First(z, u)
  BY <1>2, <1>4 DEF Queued, First
<1>8. PICK x \in Giveback(z, u) : y \in IF x.oops THEN {x} ELSE {Deschedule(x, e)}
  BY <1>1
<1>9. DataInv(x, none, None)
  BY <1>2, <1>4, <1>5, <1>6, <1>7, GivebackData
<1>10. GivenBack(x, z, u, none, {e}) /\ ~x.oops
  BY <1>n, <1>4, <1>5, <1>7, GivebackKeeps
<1>11. /\ Sane(x) /\ KeptInv(x, none, {e}) /\ SamePids(x, z)
       /\ Happens("plug") \/ x.chip.tok.pid # "none"
  BY <1>10 DEF GivenBack
<1>12. e \in Made(x.hc)
  BY <1>2, <1>4, <1>11 DEF SamePids, Made
<1>13. y = Deschedule(x, e)
  BY <1>8, <1>10
<1>14. /\ y.core = x.core /\ y.chip = x.chip /\ y.bus = x.bus
       /\ y.hc.alloc = x.hc.alloc /\ y.hc.pid = x.hc.pid
  <2>1. none \in SUBSET Urbs
    BY <1>n
  <2>2. Happens("overtake") \/ none = {}
    BY <1>n
  <2>3. Happens("plug") \/ x.chip.tok.pid # "none"
    BY <1>11
  <2>4. Sane(x) /\ ~x.oops /\ KeptInv(x, none, {e})
    BY <1>10, <1>11
  <2> QED
    BY <1>12, <1>13, <2>1, <2>2, <2>3, <2>4, DescheduleKeeps
<1> QED
  BY <1>9, <1>14, DataSame

(* How far the URB u of endpoint e is in y, where it was in w.             *)
Moved(y, w, e, u, n, s, p) ==
    /\ y.core.actual[u] = n /\ y.core.status[u] = s /\ y.hc.pid[e] = p
    /\ \A x \in Urbs \ {u} : /\ y.core.actual[x] = w.core.actual[x]
                            /\ y.core.status[x] = w.core.status[x]
    /\ \A f \in Ep \ {e} : y.hc.pid[f] = w.hc.pid[f]

(* A packet that was not acknowledged moves nothing.                       *)
LEMMA SameMoved ==
    ASSUME NEW w, Sane(w), NEW u \in Urbs, NEW e \in Ep, NEW y,
           y.core = w.core, y.hc.pid = w.hc.pid
    PROVE  Moved(y, w, e, u, w.core.actual[u], w.core.status[u], w.hc.pid[e])
<1>1. w.core \in CoreTypes /\ w.hc \in HcTypes
  BY DEF Sane, Worlds
<1> QED
  BY <1>1 DEF Moved, CoreTypes, HcTypes

(* A change of nextpid alone.                                              *)
LEMMA PidMoved ==
    ASSUME NEW w, Sane(w), NEW u \in Urbs, NEW e \in Ep, NEW p,
           NEW y, y = [w EXCEPT !.hc.pid[e] = p]
    PROVE  Moved(y, w, e, u, w.core.actual[u], w.core.status[u], p)
<1> DEFINE g == [w.hc EXCEPT !.pid[e] = p]
<1>1. w \in Worlds /\ w.core \in CoreTypes /\ w.hc \in HcTypes
  BY DEF Sane, Worlds
<1>2. y.hc = g /\ y.core = w.core
  <2>1. y = HcCoreChanged(w, g, w.core)
    BY <1>1 DEF Worlds, HcCoreChanged
  <2> HIDE DEF g
  <2> QED
    BY <1>1, <2>1 DEF Worlds, HcCoreChanged
<1>3. g.pid[e] = p /\ \A f \in Ep \ {e} : g.pid[f] = w.hc.pid[f]
  BY <1>1 DEF HcTypes
<1> HIDE DEF g
<1> QED
  BY <1>2, <1>3 DEF Moved

(* A change of actual_length, of the status and maybe of nextpid.          *)
LEMMA DataMoved ==
    ASSUME NEW w, Sane(w), NEW u \in Urbs, NEW e \in Ep, NEW n, NEW s,
           NEW y, y = Progress(w, u, n, s)
    PROVE  Moved(y, w, e, u, n, s, w.hc.pid[e]) /\ y.hc = w.hc
<1> DEFINE c == [w.core EXCEPT !.actual[u] = n, !.status[u] = s]
<1>1. w \in Worlds /\ w.core \in CoreTypes /\ w.hc \in HcTypes
  BY DEF Sane, Worlds
<1>2. y.hc = w.hc /\ y.core = c
  BY <1>1 DEF Worlds, Progress
<1>3. /\ c.actual[u] = n /\ \A x \in Urbs \ {u} : c.actual[x] = w.core.actual[x]
      /\ c.status[u] = s /\ \A x \in Urbs \ {u} : c.status[x] = w.core.status[x]
  BY <1>1 DEF CoreTypes
<1> HIDE DEF c
<1> QED
  BY <1>2, <1>3 DEF Moved

(* done() of an acknowledged OUT packet, ...                               *)
LEMMA AckedOutMoved ==
    ASSUME DevOK, NEW w, Sane(w), NEW u \in Urbs, NEW e \in Made(w.hc), NEW j, j = AckedOut(w, e, u),
           NEW n, n = w.core.actual[u] + w.chip.tok.room
    PROVE  /\ n # dev.urb[u].len \/ Type(e) # "control"
                => Moved(j.w, w, e, u, n, w.core.status[u], w.hc.pid[e])
           /\ n = dev.urb[u].len /\ Type(e) = "control"
                => Moved(j.w, w, e, u, n, w.core.status[u], "ACK")
           /\ ~j.keep /\ j.verdict \in {"busy", "ok"}
           /\ j.verdict = "ok" => n = dev.urb[u].len /\ Type(e) # "control"
<1> DEFINE moved == [w EXCEPT !.core.actual[u] = n]
<1>1. w \in Worlds /\ w.core \in CoreTypes /\ n \in Int /\ w.core.status[u] \in Statuses /\ e \in Ep
  BY PacketTypes DEF Sane, Worlds, Made
<1>2. moved = Progress(w, u, n, w.core.status[u])
  <2>1. [w.core EXCEPT !.actual[u] = n]
            = [w.core EXCEPT !.actual[u] = n, !.status[u] = w.core.status[u]]
    BY <1>1 DEF CoreTypes
  <2> QED
    BY <1>1, <2>1 DEF Worlds, Progress
<1> DEFINE ended == [moved EXCEPT !.hc.pid[e] = "ACK"]
<1>3. /\ j.w = IF n = dev.urb[u].len /\ Type(e) = "control" THEN ended ELSE moved
      /\ ~j.keep /\ j.verdict \in {"busy", "ok"}
      /\ j.verdict = "ok" => n = dev.urb[u].len /\ Type(e) # "control"
  BY DEF AckedOut
<1> HIDE DEF moved
<1>4. Moved(moved, w, e, u, n, w.core.status[u], w.hc.pid[e]) /\ moved.hc = w.hc
  BY <1>1, <1>2, DataMoved
<1>5. Sane(moved)
  BY <1>1, <1>2, ActualSet DEF Judged
<1>6. Moved(ended, moved, e, u, moved.core.actual[u], moved.core.status[u], "ACK")
  <2>1. ended = [moved EXCEPT !.hc.pid[e] = "ACK"]
    OBVIOUS
  <2> HIDE DEF ended
  <2> QED
    BY <1>1, <1>5, <2>1, PidMoved
<1> HIDE DEF ended
<1>7. Moved(ended, w, e, u, n, w.core.status[u], "ACK")
  <2>1. moved.core \in CoreTypes
    BY <1>5 DEF Sane, Worlds
  <2> QED
    BY <1>1, <1>4, <1>6, <2>1 DEF Moved, CoreTypes
<1> QED
  BY <1>3, <1>4, <1>7

(* ... a SETUP packet, ...                                                 *)
LEMMA AckedSetupMoved ==
    ASSUME DevOK, NEW w, Sane(w), NEW u \in Urbs, NEW e \in Made(w.hc), NEW j, j = AckedSetup(w, e, u)
    PROVE  /\ ~j.keep /\ j.verdict = "busy"
           /\ \E p : /\ p = IF dev.urb[u].len = w.core.actual[u] THEN "ACK"
                            ELSE IF dev.urb[u].in THEN "IN" ELSE "OUT"
                     /\ Moved(j.w, w, e, u, w.core.actual[u], w.core.status[u], p)
<1> DEFINE p == IF dev.urb[u].len = w.core.actual[u] THEN "ACK"
                ELSE IF dev.urb[u].in THEN "IN" ELSE "OUT"
<1>1. j.w = [w EXCEPT !.hc.pid[e] = p] /\ j.verdict = "busy" /\ ~j.keep /\ e \in Ep
  BY DEF AckedSetup, Made
<1>2. Moved(j.w, w, e, u, w.core.actual[u], w.core.status[u], p)
  <2> HIDE DEF p
  <2> QED
    BY SMTT(30), <1>1, PidMoved
<1> QED
  BY <1>1, <1>2

(* ... and an IN packet.                                                   *)
InVerdict(u, n, got) ==
    IF n = dev.urb[u].len THEN "ok"
    ELSE IF got = MaxPacket THEN "busy"
    ELSE IF dev.urb[u].strict THEN "short" ELSE "ok"

(* What an acknowledged IN packet changes: bytes beyond the buffer are     *)
(* dropped and make the status an overflow.                                *)
LEMMA AckedInMoved ==
    ASSUME DevOK, NEW w, Sane(w), NEW u \in Urbs, NEW e \in Made(w.hc), NEW j, j = AckedIn(w, e, u),
           NEW got, got = Least(w.chip.res.n, w.chip.tok.room),
           NEW n, n = w.core.actual[u] + got,
           NEW s, s = IF w.chip.res.n > w.chip.tok.room THEN "overflow" ELSE w.core.status[u],
           NEW v, v = InVerdict(u, n, got)
    PROVE  /\ j.verdict = v
           /\ j.keep <=> Type(e) = "control" /\ v # "busy"
           /\ j.keep => Moved(j.w, w, e, u, n, IF s = "busy" THEN v ELSE s, "ACK")
           /\ ~j.keep => Moved(j.w, w, e, u, n, s, w.hc.pid[e])
<1> DEFINE was == [w EXCEPT !.core = [w.core EXCEPT !.actual[u] = @ + got,
                    !.status[u] = IF w.chip.res.n > w.chip.tok.room THEN "overflow" ELSE @]]
           moved == [w EXCEPT !.core = [w.core EXCEPT !.actual[u] = n, !.status[u] = s]]
           t == IF s = "busy" THEN v ELSE s
           ended == [moved EXCEPT !.core.status[u] = t, !.hc.pid[e] = "ACK"]
<1>0. w \in Worlds /\ w.core \in CoreTypes /\ e \in Ep
  BY DEF Sane, Worlds, Made
<1>1. n \in Int /\ s \in Statuses /\ (s = w.core.status[u] \/ s # "busy")
  <2>1. got \in Int
    BY PacketTypes DEF Least
  <2> QED
    BY <2>1, PacketTypes DEF Statuses
<1>2. moved = was /\ moved = Progress(w, u, n, s)
  BY DEF Progress
<1>3. v \in {"ok", "busy", "short"}
  BY DEF InVerdict
<1>4. /\ Moved(moved, w, e, u, n, s, w.hc.pid[e]) /\ moved.hc = w.hc
      /\ moved.core.actual[u] = n /\ moved.core.status[u] = s /\ Sane(moved)
  <2> HIDE DEF moved
  <2>1. Moved(moved, w, e, u, n, s, w.hc.pid[e]) /\ moved.hc = w.hc
    BY SMTT(30), <1>0, <1>2, DataMoved
  <2>2. Sane(moved)
    BY <1>1, <1>2, ActualSet DEF Judged
  <2> QED
    BY <1>0, <2>1, <2>2 DEF Moved, CoreTypes
<1>5. /\ j.verdict = InVerdict(u, was.core.actual[u], got)
      /\ j.keep <=> Type(e) = "control" /\ j.verdict # "busy"
      /\ j.w = IF j.keep THEN [was EXCEPT !.core.status[u] = IF @ = "busy" THEN j.verdict ELSE @,
                                          !.hc.pid[e] = "ACK"]
               ELSE was
  <2> DEFINE verdict == IF was.core.actual[u] = dev.urb[u].len THEN "ok"
                        ELSE IF got = MaxPacket THEN "busy"
                        ELSE IF dev.urb[u].strict THEN "short" ELSE "ok"
  <2>1. /\ j.verdict = verdict /\ (j.keep <=> Type(e) = "control" /\ verdict # "busy")
        /\ j.w = IF Type(e) = "control" /\ verdict # "busy"
                 THEN [was EXCEPT !.core.status[u] = IF @ = "busy" THEN verdict ELSE @,
                                  !.hc.pid[e] = "ACK"]
                 ELSE was
    <3> HIDE DEF moved, t, ended
    <3> DEFINE g == Least(w.chip.res.n, w.chip.tok.room)
               after == [w EXCEPT !.core = [w.core EXCEPT !.actual[u] = @ + g,
                           !.status[u] = IF w.chip.res.n > w.chip.tok.room THEN "overflow" ELSE @]]
               judged == IF after.core.actual[u] = dev.urb[u].len THEN "ok"
                         ELSE IF g = MaxPacket THEN "busy"
                         ELSE IF dev.urb[u].strict THEN "short" ELSE "ok"
    <3>1. AckedIn(w, e, u) =
            IF Type(e) = "control" /\ judged # "busy"
            THEN [w |-> [after EXCEPT !.core.status[u] = IF @ = "busy" THEN judged ELSE @,
                                      !.hc.pid[e] = "ACK"],
                  verdict |-> judged, keep |-> TRUE]
            ELSE [w |-> after, verdict |-> judged, keep |-> FALSE]
      BY DEF AckedIn
    <3>2. got = g
      OBVIOUS
    <3> HIDE DEF g
    <3>3. after = was /\ judged = verdict
      BY <3>2
    <3> HIDE DEF was, verdict, after, judged
    <3>4. j = AckedIn(w, e, u)
      OBVIOUS
    <3> QED
      BY SMTT(30), <3>1, <3>3, <3>4
  <2>2. verdict = InVerdict(u, was.core.actual[u], got)
    BY SMTT(30) DEF InVerdict
  <2> HIDE DEF was, verdict
  <2> QED
    BY <2>1, <2>2
<1>6. j.verdict = v /\ j.w = IF j.keep THEN ended ELSE moved
  <2> HIDE DEF was, moved
  <2>1. j.verdict = v
    BY <1>2, <1>4, <1>5
  <2> HIDE DEF t
  <2>2. t = IF moved.core.status[u] = "busy" THEN v ELSE moved.core.status[u]
    BY <1>4 DEF t
  <2> QED
    BY ZenonT(60), <1>2, <1>5, <2>1, <2>2
<1>7. Moved(ended, w, e, u, n, t, "ACK")
  <2> HIDE DEF moved, t
  <2>1. moved \in Worlds /\ moved.core \in CoreTypes /\ moved.hc \in HcTypes
    BY <1>4 DEF Sane, Worlds
  <2>2. /\ ended.core = [moved.core EXCEPT !.status[u] = t]
        /\ ended.hc = [moved.hc EXCEPT !.pid[e] = "ACK"]
    <3> DEFINE c == [moved.core EXCEPT !.status[u] = t]
               g == [moved.hc EXCEPT !.pid[e] = "ACK"]
    <3>1. ended = HcCoreChanged(moved, g, c)
      BY <2>1 DEF Worlds, HcCoreChanged
    <3> HIDE DEF c, g, ended
    <3>2. ended.core = c /\ ended.hc = g
      BY <2>1, <3>1 DEF Worlds, HcCoreChanged
    <3> QED
      BY <3>2 DEF c, g
  <2> HIDE DEF ended
  <2>3. Moved(ended, moved, e, u, n, t, "ACK")
    BY <1>0, <1>4, <2>1, <2>2 DEF Moved, CoreTypes, HcTypes
  <2> QED
    BY <1>4, <2>3 DEF Moved
<1> QED
  <2> HIDE DEF was, moved, ended
  <2> QED
    BY <1>4, <1>5, <1>6, <1>7

(* What done() says of u is what the device knows of it.                   *)
Concluded(y, u, verdict, keep) ==
    /\ y.core.actual[u] \in 0 .. dev.urb[u].len
    /\ IF ~keep /\ (verdict # "busy" \/ y.core.status[u] # "busy")
       THEN (IF y.core.status[u] = "busy" THEN verdict ELSE y.core.status[u]) = "ok"
                => DeliveredOf(y, u)
       ELSE Agree(y, u)

(* The types of what is known of one URB.                                  *)
LEMMA UrbTypes ==
    ASSUME DevOK, NEW u \in Urbs
    PROVE  dev.urb[u].len \in Nat /\ dev.urb[u].in \in BOOLEAN /\ EpOf(u) \in Ep
BY DeviceFacts DEF EpOf

(* Not acknowledged: nothing is new.                                       *)
LEMMA NothingConcluded ==
    ASSUME NEW w, NEW u \in Urbs, Agree(w, u), w.core.actual[u] \in 0 .. dev.urb[u].len,
           NEW y, y.core = w.core, y.bus = w.bus, y.hc.pid = w.hc.pid, NEW v, v # "ok"
    PROVE  Concluded(y, u, v, FALSE)
<1>1. Agree(y, u)
  BY DEF Agree, AckAgrees
<1>2. y.core.status[u] = "ok" => DeliveredOf(y, u)
  BY <1>1, AgreeDelivers
<1> QED
  BY <1>1, <1>2 DEF Concluded

(* The device got as many bytes as an OUT transfer says it sent, ...       *)
LEMMA OutConcluded ==
    ASSUME DevOK, NEW w, Sane(w), NEW u \in Urbs, NEW e, e = EpOf(u), WillAgree(w, u),
           w.core.actual[u] \in 0 .. dev.urb[u].len, w.chip.tok.room = Room(w, e, u),
           w.hc.pid[e] = "OUT",
           NEW n, n = w.core.actual[u] + w.chip.tok.room, NEW y, y.bus = w.bus,
           n # dev.urb[u].len \/ Type(e) # "control"
               => Moved(y, w, e, u, n, w.core.status[u], w.hc.pid[e]),
           n = dev.urb[u].len /\ Type(e) = "control"
               => Moved(y, w, e, u, n, w.core.status[u], "ACK"),
           NEW v \in {"busy", "ok"}, v = "ok" => n = dev.urb[u].len /\ Type(e) # "control"
    PROVE  Concluded(y, u, v, FALSE)
<1>1. /\ dev.urb[u].len \in Nat /\ MaxPacket \in Nat
      /\ w.chip.tok.room = Least(MaxPacket, dev.urb[u].len - w.core.actual[u])
  BY UrbTypes, Sl811Assumption DEF Room
<1>2. n \in 0 .. dev.urb[u].len
  BY <1>1 DEF Least
<1>3. /\ ~dev.urb[u].in /\ w.bus[u].data = n /\ w.core.status[u] # "ok"
      /\ Type(e) = "control" => w.bus[u].setup
  BY DEF WillAgree
<1>4. /\ y.core.actual[u] = n /\ y.core.status[u] = w.core.status[u] /\ y.bus[u] = w.bus[u]
      /\ y.hc.pid[e] = IF n = dev.urb[u].len /\ Type(e) = "control" THEN "ACK" ELSE "OUT"
  BY DEF Moved
<1>5. Agree(y, u)
  BY <1>3, <1>4 DEF Agree, AckAgrees
<1>6. v = "ok" => DeliveredOf(y, u)
  BY <1>3, <1>4 DEF DeliveredOf
<1> QED
  BY <1>2, <1>3, <1>4, <1>5, <1>6 DEF Concluded

(* ... an IN transfer says it received what the device sent, unless it says*)
(* overflow, ...                                                           *)
LEMMA InConcluded ==
    ASSUME DevOK, NEW w, Sane(w), NEW u \in Urbs, NEW e, e = EpOf(u), WillAgree(w, u),
           w.core.actual[u] \in 0 .. dev.urb[u].len, w.chip.tok.room = Room(w, e, u),
           w.hc.pid[e] = "IN",
           NEW got, got = Least(w.chip.res.n, w.chip.tok.room),
           NEW n, n = w.core.actual[u] + got,
           NEW s, s = IF w.chip.res.n > w.chip.tok.room THEN "overflow" ELSE w.core.status[u],
           NEW v, v = InVerdict(u, n, got), NEW y, y.bus = w.bus,
           NEW keep \in BOOLEAN, keep <=> Type(e) = "control" /\ v # "busy",
           keep => Moved(y, w, e, u, n, IF s = "busy" THEN v ELSE s, "ACK"),
           ~keep => Moved(y, w, e, u, n, s, w.hc.pid[e])
    PROVE  Concluded(y, u, v, keep)
<1> DEFINE k == w.chip.res.n
           room == w.chip.tok.room
           a == w.core.actual[u]
           len == dev.urb[u].len
<1>1. len \in Nat /\ MaxPacket \in Nat /\ room = Least(MaxPacket, len - a) /\ k \in 0 .. MaxPacket
  BY UrbTypes, Sl811Assumption DEF Room, Sane, Worlds, ChipTypes
<1>2. /\ dev.urb[u].in /\ w.bus[u].data = Least(a + k, len + 1)
      /\ w.core.status[u] # "ok"
      /\ Type(e) = "control" => w.bus[u].setup
  BY DEF WillAgree
<1>3. n \in 0 .. len /\ (k <= room => w.bus[u].data = n)
  <2> HIDE DEF k, room, a, len
  <2>1. a \in 0 .. len /\ n = a + got /\ got = Least(k, room) /\ w.bus[u].data = Least(a + k, len + 1)
    BY <1>2 DEF k, room, a, len
  <2> QED
    BY <1>1, <2>1 DEF Least
<1>4. s \notin {"ok", "busy"} \/ (w.bus[u].data = n /\ s # "ok")
  <2>1. k \in Int /\ room \in Int
    <3>1. a \in Int
      BY <1>1
    <3> HIDE DEF k, room, a, len
    <3> QED
      BY <1>1, <3>1 DEF Least
  <2>2. CASE k <= room
    BY <1>2, <1>3, <2>1, <2>2
  <2>3. CASE k > room
    BY <2>3
  <2> QED
    BY <2>1, <2>2, <2>3
<1>5. v \in {"ok", "busy", "short"}
  BY DEF InVerdict
<1>6. y.core.actual[u] = n /\ y.bus[u] = w.bus[u]
  BY DEF Moved
<1>7. CASE keep
  <2>1. y.core.status[u] = (IF s = "busy" THEN v ELSE s) /\ y.hc.pid[e] = "ACK"
        /\ Type(e) = "control"
    BY <1>7 DEF Moved
  <2>2. Agree(y, u)
    BY <1>2, <1>4, <1>6, <2>1 DEF Agree, AckAgrees
  <2> QED
    BY <1>3, <1>6, <1>7, <2>2 DEF Concluded
<1>8. CASE ~keep
  <2>1. y.core.status[u] = s /\ y.hc.pid[e] = "IN"
    BY <1>8 DEF Moved
  <2>2. CASE v # "busy" \/ s # "busy"
    <3>1. ASSUME (IF s = "busy" THEN v ELSE s) = "ok" PROVE DeliveredOf(y, u)
      <4>1. s = "busy" /\ v = "ok" /\ Type(e) # "control" /\ w.bus[u].data = n
        BY <1>4, <1>8, <3>1
      <4> QED
        BY <1>2, <1>6, <4>1 DEF DeliveredOf
    <3> QED
      BY <1>3, <1>6, <1>8, <2>1, <2>2, <3>1 DEF Concluded
  <2>3. CASE v = "busy" /\ s = "busy"
    <3>1. Agree(y, u)
      BY <1>2, <1>4, <1>6, <2>1, <2>3 DEF Agree
    <3> QED
      BY <1>3, <1>6, <1>8, <2>1, <2>3, <3>1 DEF Concluded
  <2> QED
    BY <2>2, <2>3
<1> QED
  BY <1>7, <1>8

(* ... the data stage begins with nothing transferred, ...                 *)
LEMMA SetupConcluded ==
    ASSUME DevOK, NEW w, NEW u \in Urbs, NEW e, e = EpOf(u), WillAgree(w, u),
           w.core.actual[u] \in 0 .. dev.urb[u].len, w.hc.pid[e] = "SETUP",
           NEW p, p = IF dev.urb[u].len = w.core.actual[u] THEN "ACK"
                      ELSE IF dev.urb[u].in THEN "IN" ELSE "OUT",
           NEW y, y.bus = w.bus, Moved(y, w, e, u, w.core.actual[u], w.core.status[u], p)
    PROVE  Concluded(y, u, "busy", FALSE)
<1>1. /\ Type(e) = "control" /\ w.core.actual[u] = 0 /\ w.bus[u].data = 0 /\ w.bus[u].setup
      /\ w.core.status[u] # "ok" /\ dev.urb[u].in \in BOOLEAN
  BY UrbTypes DEF WillAgree
<1>2. /\ y.core.actual[u] = 0 /\ y.core.status[u] = w.core.status[u] /\ y.bus[u] = w.bus[u]
      /\ y.hc.pid[e] = p
  BY <1>1 DEF Moved
<1>3. Agree(y, u)
  BY <1>1, <1>2 DEF Agree, AckAgrees
<1> QED
  BY <1>1, <1>2, <1>3, UrbTypes DEF Concluded

(* ... and the status stage ends an URB that the device acknowledged as a  *)
(* whole.                                                                  *)
LEMMA AckConcluded ==
    ASSUME NEW w, NEW u \in Urbs, NEW e, e = EpOf(u), WillAgree(w, u),
           w.core.actual[u] \in 0 .. dev.urb[u].len, w.hc.pid[e] = "ACK",
           NEW y, y.bus = w.bus, y.core = w.core
    PROVE  Concluded(y, u, "ok", FALSE)
<1>1. AckAgrees(w, u) /\ w.bus[u].status /\ (w.core.status[u] = "ok" => dev.urb[u].in)
  BY DEF WillAgree
<1>2. w.core.status[u] \in {"busy", "ok"} => DeliveredOf(y, u)
  BY <1>1 DEF AckAgrees, DeliveredOf
<1> QED
  BY <1>2 DEF Concluded

(* Nobody but u, and nobody's nextpid but that of the control endpoint e,  *)
(* moved on.                                                               *)
OthersSame(y, w, e, u) ==
    /\ \A x \in Urbs \ {u} : y.core.actual[x] = w.core.actual[x]
    /\ \A f \in Ep : f # e \/ Type(f) # "control" => y.hc.pid[f] = w.hc.pid[f]

(* done() changes the endpoint and the URB of the packet alone.            *)
LEMMA MovedOthers ==
    ASSUME NEW w, NEW y, NEW e, NEW u, NEW n, NEW s, NEW p, Moved(y, w, e, u, n, s, p),
           p = w.hc.pid[e] \/ Type(e) = "control"
    PROVE  OthersSame(y, w, e, u)
BY DEF Moved, OthersSame

(* done: an acknowledged packet is an OUT packet, ...                      *)
LEMMA OutJudged ==
    ASSUME DevOK, NEW w, Sane(w), NEW u \in Urbs, NEW e \in Made(w.hc), e = EpOf(u),
           WillAgree(w, u), w.core.actual[u] \in 0 .. dev.urb[u].len,
           w.chip.tok.room = Room(w, e, u), w.hc.pid[e] = "OUT", NEW j, j = AckedOut(w, e, u)
    PROVE  Concluded(j.w, u, j.verdict, j.keep) /\ OthersSame(j.w, w, e, u)
<1> DEFINE n == w.core.actual[u] + w.chip.tok.room
           y == j.w
           v == j.verdict
<1>2. y.bus = w.bus
  <2>1. Judged(j.w, w, u)
    BY AckedOutFacts
  <2> QED
    BY <2>1 DEF Judged
<1>n. n = w.core.actual[u] + w.chip.tok.room
  OBVIOUS
<1> HIDE DEF n
<1>3. /\ n # dev.urb[u].len \/ Type(e) # "control"
            => Moved(y, w, e, u, n, w.core.status[u], w.hc.pid[e])
      /\ n = dev.urb[u].len /\ Type(e) = "control"
            => Moved(y, w, e, u, n, w.core.status[u], "ACK")
      /\ ~j.keep /\ v \in {"busy", "ok"}
      /\ v = "ok" => n = dev.urb[u].len /\ Type(e) # "control"
  BY <1>n, AckedOutMoved
<1>4. OthersSame(y, w, e, u)
  <2>1. CASE n # dev.urb[u].len \/ Type(e) # "control"
    BY <1>3, <2>1, MovedOthers
  <2>2. CASE n = dev.urb[u].len /\ Type(e) = "control"
    BY <1>3, <2>2, MovedOthers
  <2> QED
    BY <2>1, <2>2
<1> HIDE DEF y, v
<1>5. Concluded(y, u, v, FALSE)
  BY <1>2, <1>n, <1>3, OutConcluded
<1> QED
  BY <1>3, <1>4, <1>5 DEF Concluded, y, v

(* ... an IN packet, ...                                                   *)
LEMMA InJudged ==
    ASSUME DevOK, NEW w, Sane(w), NEW u \in Urbs, NEW e \in Made(w.hc), e = EpOf(u),
           WillAgree(w, u), w.core.actual[u] \in 0 .. dev.urb[u].len,
           w.chip.tok.room = Room(w, e, u), w.hc.pid[e] = "IN", NEW j, j = AckedIn(w, e, u)
    PROVE  Concluded(j.w, u, j.verdict, j.keep) /\ OthersSame(j.w, w, e, u)
<1> DEFINE got == Least(w.chip.res.n, w.chip.tok.room)
           n == w.core.actual[u] + got
           s == IF w.chip.res.n > w.chip.tok.room THEN "overflow" ELSE w.core.status[u]
           v == InVerdict(u, n, got)
           keep == Type(e) = "control" /\ v # "busy"
           y == j.w
<1>2. y.bus = w.bus
  <2>1. Judged(j.w, w, u)
    BY AckedInFacts
  <2> QED
    BY <2>1 DEF Judged
<1>n. /\ got = Least(w.chip.res.n, w.chip.tok.room) /\ n = w.core.actual[u] + got
      /\ s = (IF w.chip.res.n > w.chip.tok.room THEN "overflow" ELSE w.core.status[u])
      /\ v = InVerdict(u, n, got)
      /\ (keep <=> Type(e) = "control" /\ v # "busy") /\ keep \in BOOLEAN
  OBVIOUS
<1> HIDE DEF got, n, s, v, keep
<1>3. /\ j.verdict = v
      /\ j.keep <=> Type(e) = "control" /\ v # "busy"
      /\ j.keep => Moved(y, w, e, u, n, IF s = "busy" THEN v ELSE s, "ACK")
      /\ ~j.keep => Moved(y, w, e, u, n, s, w.hc.pid[e])
  BY <1>n, AckedInMoved
<1>4. j.keep <=> keep
  BY <1>3, <1>n
<1> HIDE DEF y
<1>5. /\ keep => Moved(y, w, e, u, n, IF s = "busy" THEN v ELSE s, "ACK")
      /\ ~keep => Moved(y, w, e, u, n, s, w.hc.pid[e])
  BY <1>3, <1>4
<1>6. Concluded(y, u, v, keep)
  BY <1>2, <1>n, <1>5, InConcluded
<1>7. OthersSame(y, w, e, u)
  <2>1. CASE keep
    BY <1>5, <1>n, <2>1, MovedOthers
  <2>2. CASE ~keep
    BY <1>5, <2>2, MovedOthers
  <2> QED
    BY <2>1, <2>2
<1> QED
  BY <1>3, <1>4, <1>6, <1>7 DEF Concluded, y

(* ... a SETUP packet ...                                                  *)
LEMMA SetupJudged ==
    ASSUME DevOK, NEW w, Sane(w), NEW u \in Urbs, NEW e \in Made(w.hc), e = EpOf(u),
           WillAgree(w, u), w.core.actual[u] \in 0 .. dev.urb[u].len,
           w.hc.pid[e] = "SETUP", NEW j, j = AckedSetup(w, e, u)
    PROVE  Concluded(j.w, u, j.verdict, j.keep) /\ OthersSame(j.w, w, e, u)
<1> DEFINE y == j.w
<1>2. y.bus = w.bus
  <2>1. Judged(j.w, w, u)
    BY AckedSetupFacts
  <2> QED
    BY <2>1 DEF Judged
<1>3. PICK p : /\ p = IF dev.urb[u].len = w.core.actual[u] THEN "ACK"
                      ELSE IF dev.urb[u].in THEN "IN" ELSE "OUT"
               /\ Moved(y, w, e, u, w.core.actual[u], w.core.status[u], p)
               /\ ~j.keep /\ j.verdict = "busy"
  BY AckedSetupMoved
<1> HIDE DEF y
<1>4. Concluded(y, u, "busy", FALSE)
  BY <1>2, <1>3, SetupConcluded
<1>5. OthersSame(y, w, e, u)
  <2>1. Type(e) = "control"
    BY DEF WillAgree
  <2> QED
    BY <1>3, <2>1, MovedOthers
<1> QED
  BY <1>3, <1>4, <1>5 DEF Concluded, y

(* ... or a STATUS packet.                                                 *)
LEMMA AckedConcluded ==
    ASSUME DevOK, NEW w, Sane(w), NEW u \in Urbs, NEW e \in Made(w.hc), e = EpOf(u),
           WillAgree(w, u), w.core.actual[u] \in 0 .. dev.urb[u].len,
           w.chip.tok.room = Room(w, e, u), NEW j, NEW pid, pid = w.hc.pid[e],
           pid = "OUT" => j = AckedOut(w, e, u), pid = "IN" => j = AckedIn(w, e, u),
           pid = "SETUP" => j = AckedSetup(w, e, u),
           pid = "ACK" => j = [w |-> w, verdict |-> "ok", keep |-> FALSE]
    PROVE  Concluded(j.w, u, j.verdict, j.keep) /\ OthersSame(j.w, w, e, u)
<1>1. pid \in Pids
  BY DEF Sane, Worlds, Made, HcTypes, Pids
<1>2. CASE pid = "OUT"
  BY <1>2, OutJudged
<1>3. CASE pid = "IN"
  BY <1>3, InJudged
<1>4. CASE pid = "SETUP"
  BY <1>4, SetupJudged
<1>5. CASE pid = "ACK"
  <2>1. j.w = w /\ j.verdict = "ok" /\ j.keep = FALSE
    BY <1>5
  <2>2. Concluded(w, u, "ok", FALSE)
    BY <1>5, AckConcluded
  <2>3. OthersSame(w, w, e, u)
    BY DEF OthersSame
  <2> QED
    BY <2>1, <2>2, <2>3
<1> QED
  BY <1>1, <1>2, <1>3, <1>4, <1>5 DEF Pids

(* ... and any.                                                            *)
LEMMA JudgeConcluded ==
    ASSUME DevOK, NEW w, Sane(w), NEW u \in Urbs, NEW e \in Made(w.hc), e = EpOf(u),
           w.chip.res.st = "ack" => WillAgree(w, u), w.chip.res.st # "ack" => Agree(w, u),
           w.core.actual[u] \in 0 .. dev.urb[u].len, w.chip.tok.room = Room(w, e, u),
           NEW j, j = Judge(w, e, u)
    PROVE  Concluded(j.w, u, j.verdict, j.keep) /\ OthersSame(j.w, w, e, u)
<1> DEFINE calm == ErrsAs(w, e, 0)
           struck == w.hc.errs[e] + 1
           hit == ErrsAs(w, e, struck)
           st == w.chip.res.st
           pid == w.hc.pid[e]
<1>1. /\ e \in Ep /\ st \in {"ack", "nak", "stall", "error"} /\ w.hc.errs[e] \in 0 .. 2
  BY DEF Sane, Worlds, Made, HcTypes, ChipTypes
<1>2. Judged(calm, w, u) /\ calm.core = w.core /\ calm.hc.pid = w.hc.pid
  <2>1. \A y : y = calm => Judged(y, w, u) /\ y.core = w.core /\ y.hc.pid = w.hc.pid
    BY <1>1, ErrsSet
  <2> HIDE DEF calm
  <2> QED
    BY <2>1
<1>3. ASSUME struck < 3 PROVE Judged(hit, w, u) /\ hit.core = w.core /\ hit.hc.pid = w.hc.pid
  <2>1. struck \in 0 .. 2
    BY <1>1, <1>3
  <2> HIDE DEF struck
  <2>2. \A y : y = hit => Judged(y, w, u) /\ y.core = w.core /\ y.hc.pid = w.hc.pid
    BY <1>1, <2>1, ErrsSet
  <2> HIDE DEF hit
  <2> QED
    BY <2>2
<1>4. ASSUME NEW y, y.core = w.core, y.hc.pid = w.hc.pid PROVE OthersSame(y, w, e, u)
  BY <1>4 DEF OthersSame
<1> HIDE DEF hit, calm
<1>5. Sane(calm) /\ e \in Made(calm.hc) /\ calm.chip = w.chip /\ calm.bus = w.bus
  BY <1>2 DEF Judged
<1>6. CASE st = "ack"
  <2>2. /\ pid = "OUT" => j = AckedOut(calm, e, u)
        /\ pid = "IN" => j = AckedIn(calm, e, u)
        /\ pid = "SETUP" => j = AckedSetup(calm, e, u)
        /\ pid = "ACK" => j = [w |-> calm, verdict |-> "ok", keep |-> FALSE]
    <3>1. j = CASE pid = "OUT" -> AckedOut(calm, e, u)
                [] pid = "IN" -> AckedIn(calm, e, u)
                [] pid = "SETUP" -> AckedSetup(calm, e, u)
                [] pid = "ACK" -> [w |-> calm, verdict |-> "ok", keep |-> FALSE]
      BY <1>6 DEF Judge, ErrsAs, calm
    <3> HIDE DEF pid
    <3> QED
      BY <3>1
  <2>3. WillAgree(calm, u) /\ Room(calm, e, u) = Room(w, e, u)
    BY <1>2, <1>5, <1>6 DEF WillAgree, AckAgrees, Room
  <2>4. calm.core.actual[u] \in 0 .. dev.urb[u].len /\ calm.chip.tok.room = Room(calm, e, u)
        /\ pid = calm.hc.pid[e]
    BY <1>2, <1>5, <2>3
  <2>5. Concluded(j.w, u, j.verdict, j.keep) /\ OthersSame(j.w, calm, e, u)
    <3> HIDE DEF pid
    <3> QED
      BY <1>5, <2>2, <2>3, <2>4, AckedConcluded
  <2> QED
    BY <1>2, <2>5 DEF OthersSame
<1>7. CASE st # "ack"
  <2>1. \/ j = [w |-> calm, verdict |-> "busy", keep |-> FALSE]
        \/ j = [w |-> calm, verdict |-> "stall", keep |-> FALSE]
        \/ j = [w |-> calm, verdict |-> "error", keep |-> FALSE]
        \/ struck < 3 /\ j = [w |-> hit, verdict |-> "busy", keep |-> FALSE]
    <3>1. CASE st = "nak"
      BY <3>1 DEF Judge, ErrsAs, calm
    <3>2. CASE st = "stall"
      BY <3>2 DEF Judge, ErrsAs, calm
    <3>3. CASE st = "error"
      <4>1. j = IF struck >= 3 THEN [w |-> calm, verdict |-> "error", keep |-> FALSE]
                ELSE [w |-> hit, verdict |-> "busy", keep |-> FALSE]
        BY <3>3 DEF Judge, ErrsAs, calm, hit
      <4> QED
        BY <1>1, <4>1
    <3> QED
      BY <1>1, <1>7, <3>1, <3>2, <3>3
  <2>2. ASSUME NEW y, NEW v, Judged(y, w, u), y.core = w.core, y.hc.pid = w.hc.pid, v # "ok"
        PROVE  Concluded(y, u, v, FALSE) /\ OthersSame(y, w, e, u)
    <3>1. y.bus = w.bus
      BY <2>2 DEF Judged
    <3> QED
      BY <1>4, <1>7, <2>2, <3>1, NothingConcluded
  <2> DEFINE Goal == Concluded(j.w, u, j.verdict, j.keep) /\ OthersSame(j.w, w, e, u)
  <2>3. ASSUME NEW v, v # "ok", j = [w |-> calm, verdict |-> v, keep |-> FALSE] PROVE Goal
    <3>1. j.w = calm /\ j.verdict = v /\ j.keep = FALSE
      BY <2>3
    <3>2. Concluded(calm, u, v, FALSE) /\ OthersSame(calm, w, e, u)
      BY <1>2, <2>2, <2>3
    <3> QED
      BY <3>1, <3>2
  <2>4. ASSUME struck < 3, j = [w |-> hit, verdict |-> "busy", keep |-> FALSE] PROVE Goal
    <3>1. j.w = hit /\ j.verdict = "busy" /\ j.keep = FALSE
      BY <2>4
    <3>2. Judged(hit, w, u) /\ hit.core = w.core /\ hit.hc.pid = w.hc.pid
      BY <1>3, <2>4
    <3>3. \A v : v = "busy" => Concluded(hit, u, v, FALSE) /\ OthersSame(hit, w, e, u)
      BY <2>2, <3>2
    <3> QED
      BY <3>1, <3>3
  <2> HIDE DEF Goal
  <2>5. Goal
    BY <2>1, <2>3, <2>4
  <2> QED
    BY <2>5 DEF Goal
<1> QED
  BY <1>6, <1>7

(* The head of an endpoint's queue is an URB of that endpoint.             *)
LEMMA FirstOf ==
    ASSUME NEW w \in Worlds, QueuesInv(w.core), NEW e \in Ep, w.core.q[e] # <<>>,
           NEW u, u = Head(w.core.q[e])
    PROVE  u \in Urbs /\ EpOf(u) = e /\ First(w, u) /\ Queued(w.core, u)
<1>1. u \in Urbs /\ OnList(w.core.q[e], u)
  BY HeadIsUrb, QueueTypes
<1>2. EpOf(u) = e
  BY <1>1 DEF QueuesInv
<1> QED
  BY <1>1, <1>2 DEF First, Queued

(* done() keeps what is known of all URBs but the one it judges, ...       *)
LEMMA JudgedBut ==
    ASSUME DevOK, NEW w, Sane(w), NEW u \in Urbs, NEW e \in Ep, e = EpOf(u), First(w, u),
           NEW none, none = {}, NEW told \in {e, None}, DataInv(w, none, told),
           NEW y, Judged(y, w, u), OthersSame(y, w, e, u)
    PROVE  DataBut(y, none, None, u)
<1>1. /\ y.chip = w.chip /\ y.bus = w.bus /\ y.core.q = w.core.q /\ y.hc.alloc = w.hc.alloc
      /\ \A x \in Urbs : x # u => y.core.status[x] = w.core.status[x]
  BY DEF Judged
<1>2. PidData(y, none)
  <2> SUFFICES ASSUME NEW x \in Urbs, y.hc.alloc[EpOf(x)], Begins(y, none, EpOf(x))
               PROVE  y.hc.pid[EpOf(x)] = FirstPid(x)
    BY DEF PidData
  <2>1. w.hc.alloc[EpOf(x)] /\ Begins(w, none, EpOf(x))
    BY <1>1 DEF Begins
  <2>2. w.hc.pid[EpOf(x)] = FirstPid(x)
    BY <2>1 DEF DataInv, PidData
  <2>3. EpOf(x) # e \/ Type(EpOf(x)) # "control"
    BY <2>1 DEF Begins, First
  <2> QED
    BY <2>2, <2>3, UrbEp DEF OthersSame
<1>3. ASSUME NEW x \in Urbs \ {u} PROVE UrbData(y, none, None, x)
  <2>1. UrbData(w, none, told, x) /\ EpOf(x) # None /\ EpOf(x) \in Ep
    BY UrbEp, Sl811ScheduleAssumption DEF DataInv
  <2>2. First(w, x) => EpOf(x) # e
    BY DEF First
  <2>3. UrbData(w, none, None, x)
    BY <2>1, <2>2 DEF UrbData
  <2>4. (Queued(y.core, x) <=> Queued(w.core, x)) /\ (First(y, x) <=> First(w, x))
    BY <1>1 DEF First, Queued
  <2>5. /\ y.core.actual[x] = w.core.actual[x]
        /\ First(w, x) => y.hc.pid[EpOf(x)] = w.hc.pid[EpOf(x)]
    BY <2>1, <2>2 DEF OthersSame
  <2> QED
    BY <1>1, <2>1, <2>3, <2>4, <2>5, UrbStays
<1> QED
  BY <1>2, <1>3 DEF DataBut

(* ... and knows of that one what the device knows.                        *)
LEMMA DoneData ==
    ASSUME DevOK, Orderly, NEW w, NEW none, none = {}, Good(w, none), ~w.oops, PacketInv(w),
           NEW e \in Ep, e = w.hc.active,
           NEW told, told = (IF w.chip.res.st = "ack" THEN e ELSE None), DataInv(w, none, told),
           NEW y \in Done(w, e)
    PROVE  DataInv(y, none, None) /\ y.chip = w.chip /\ ~y.oops
<1> DEFINE u == Head(w.core.q[e])
           j == Judge(w, e, u)
<1>n. none \in SUBSET Urbs /\ (Happens("overtake") \/ none = {}) /\ e # None
  BY Sl811ScheduleAssumption
<1>1. /\ Sane(w) /\ w \in Worlds /\ w.core.calls = none /\ KeptInv(w, none, {})
      /\ w.core.q[e] # <<>> /\ e \in Made(w.hc) /\ QueuesInv(w.core)
  BY <1>n, OrderlyFacts DEF Good, Sane, MadeInv, ActiveInv, KeptInv
<1>2. u \in Urbs /\ EpOf(u) = e /\ First(w, u) /\ Queued(w.core, u)
  <2>1. \A x : x = u => x \in Urbs /\ EpOf(x) = e /\ First(w, x) /\ Queued(w.core, x)
    BY <1>1, FirstOf
  <2> QED
    BY <2>1
<1>3. w.chip.tok.room = Room(w, e, u)
  BY SMTT(30), <1>n DEF PacketInv
<1>4. y \in IF ~j.keep /\ (j.verdict # "busy" \/ j.w.core.status[u] # "busy")
            THEN FinishRequest(j.w, e, u, j.verdict)
            ELSE {j.w}
  BY <1>n, <1>1 DEF Done
<1>j. j = Judge(w, e, u)
  OBVIOUS
<1> HIDE DEF j, u
<1>5. UrbData(w, none, told, u)
  BY <1>2 DEF DataInv
<1>6. /\ w.core.actual[u] \in 0 .. dev.urb[u].len
      /\ w.chip.res.st = "ack" => WillAgree(w, u)
      /\ w.chip.res.st # "ack" => Agree(w, u)
  BY <1>n, <1>2, <1>5 DEF UrbData
<1>7. Judged(j.w, w, u) /\ j.verdict \in Statuses
  BY <1>1, <1>2, <1>j, JudgeFacts
<1>8. Concluded(j.w, u, j.verdict, j.keep) /\ OthersSame(j.w, w, e, u)
  BY <1>1, <1>2, <1>3, <1>6, <1>j, JudgeConcluded
<1>9. DataBut(j.w, none, None, u)
  BY <1>1, <1>2, <1>7, <1>8, JudgedBut
<1>10. /\ Sane(j.w) /\ KeptInv(j.w, none, {}) /\ ActiveInv(j.w.hc, j.w.core, none)
       /\ j.w.core.calls = none /\ ~j.w.oops
  BY <1>n, <1>2, <1>7, JudgedKeeps
<1>11. /\ j.w.chip = w.chip /\ j.w.core.q = w.core.q /\ j.w.hc.active = e
       /\ Made(j.w.hc) = Made(w.hc)
  BY <1>7 DEF Judged
<1>12. First(j.w, u) /\ Queued(j.w.core, u)
  BY <1>2, <1>11 DEF First, Queued
<1>13. CASE ~j.keep /\ (j.verdict # "busy" \/ j.w.core.status[u] # "busy")
  <2> DEFINE x == j.w
             st == j.verdict
  <2>1. /\ st \in Statuses /\ (st # "busy" \/ x.core.status[u] # "busy")
        /\ x.core.actual[u] \in 0 .. dev.urb[u].len
        /\ (IF x.core.status[u] = "busy" THEN st ELSE x.core.status[u]) = "ok" => DeliveredOf(x, u)
        /\ y \in FinishRequest(x, e, u, st)
    BY <1>4, <1>7, <1>8, <1>13 DEF Concluded
  <2>2. /\ Sane(x) /\ KeptInv(x, none, {}) /\ ActiveInv(x.hc, x.core, none)
        /\ x.core.calls = none /\ ~x.oops /\ DataBut(x, none, None, u) /\ First(x, u)
        /\ Queued(x.core, u) /\ x.hc.active = e /\ x.chip = w.chip /\ e \in Made(x.hc)
    BY <1>1, <1>9, <1>10, <1>11, <1>12
  <2> HIDE DEF x, st
  <2>3. DataInv(y, none, None)
    BY <1>2, <2>1, <2>2, FinishData
  <2>4. Finishing(y, x, u, none)
    <3>1. EpOf(u) \in Made(x.hc) /\ y \in FinishRequest(x, EpOf(u), u, st)
      BY <1>2, <2>1, <2>2
    <3> QED
      BY <1>n, <1>2, <2>1, <2>2, <3>1, FinishKeeps
  <2>5. y.chip = x.chip /\ ~y.oops
    BY <1>n, <2>2, <2>4, OrderlyFacts DEF Finishing
  <2> QED
    BY <2>2, <2>3, <2>5
<1>14. CASE ~(~j.keep /\ (j.verdict # "busy" \/ j.w.core.status[u] # "busy"))
  <2>1. y = j.w
    BY <1>4, <1>14
  <2>2. Agree(j.w, u) /\ j.w.core.actual[u] \in 0 .. dev.urb[u].len
    BY <1>8, <1>14 DEF Concluded
  <2>3. UrbData(j.w, none, None, u)
    BY <1>2, <1>12, <1>n, <2>2 DEF UrbData
  <2> QED
    BY <1>9, <1>10, <1>11, <2>1, <2>3 DEF DataInv, DataBut
<1> QED
  BY <1>13, <1>14

(* The endpoint whose packet was acknowledged and not judged yet, if any.  *)
Untold(w) ==
    IF w.hc.active # None /\ ~w.chip.armed /\ w.chip.res.st = "ack" THEN w.hc.active ELSE None

(* What the driver says of URBs is exactly what the device knows.          *)
Exact(w, open) == DataInv(w, open, Untold(w)) /\ PacketInv(w)

(* Nothing changes that is spoken of there.                                *)
Undisturbed(y, w) ==
    /\ y.core.q = w.core.q /\ y.core.status = w.core.status /\ y.core.actual = w.core.actual
    /\ y.bus = w.bus
    /\ y.chip.armed = w.chip.armed /\ y.chip.tok = w.chip.tok /\ y.chip.res = w.chip.res
    /\ "DONE_A" \in y.chip.pend => "DONE_A" \in w.chip.pend
    /\ y.hc.alloc = w.hc.alloc /\ y.hc.pid = w.hc.pid /\ y.hc.active = w.hc.active

(* The packet under way is the same while nothing of it changes.           *)
LEMMA PacketSame ==
    ASSUME NEW w, NEW y, PacketInv(w),
           y.core.q = w.core.q, y.core.actual = w.core.actual, y.chip.tok = w.chip.tok,
           y.chip.armed => w.chip.armed, "DONE_A" \in y.chip.pend => "DONE_A" \in w.chip.pend,
           y.hc.pid = w.hc.pid, y.hc.active = w.hc.active
    PROVE  PacketInv(y)
<1>1. CASE w.hc.active = None
  BY <1>1 DEF PacketInv
<1>2. CASE w.hc.active # None
  <2>1. y.chip.armed => "DONE_A" \notin y.chip.pend
    BY <1>2 DEF PacketInv
  <2> QED
    BY <1>2, <2>1, PacketStays
<1> QED
  BY <1>1, <1>2

(* Such a change keeps all that is known.                                  *)
LEMMA UndisturbedExact ==
    ASSUME NEW w, NEW open, Exact(w, open), NEW y, Undisturbed(y, w)
    PROVE  Exact(y, open)
<1>1. Untold(y) = Untold(w)
  BY DEF Untold, Undisturbed
<1>2. DataInv(w, open, Untold(w)) /\ PacketInv(w)
  BY DEF Exact
<1> DEFINE told == Untold(w)
<1> HIDE DEF told
<1>3. DataInv(w, open, told)
  BY <1>2 DEF told
<1>4. DataInv(y, open, told)
  BY <1>3, DataSame DEF Undisturbed
<1>5. PacketInv(y)
  BY <1>2, PacketSame DEF Undisturbed
<1> QED
  BY <1>1, <1>4, <1>5 DEF Exact, told

(* A change of the driver's schedules and port is one.                     *)
LEMMA UndisturbedHc ==
    ASSUME NEW w, NEW y, SameBut(y, w), SameLists(y.hc, w.hc), y.hc.active = w.hc.active
    PROVE  Undisturbed(y, w)
BY DEF SameBut, SameLists, Undisturbed

(* DONE_A.                                                                 *)
LEMMA IrqDoneExact ==
    ASSUME DevOK, Orderly, NEW w, NEW none, none = {}, Good(w, none), ~w.oops, Exact(w, none),
           w.hc.active # None => ~w.chip.armed, "DONE_A" \notin w.chip.pend, NEW y \in IrqDone(w)
    PROVE  Exact(y, none) /\ ~y.oops /\ y.hc.active = None /\ "DONE_A" \notin y.chip.pend
<1>1. PICK x \in Done(w, w.hc.active) :
          y \in (IF x.oops THEN {x} ELSE {[x EXCEPT !.hc.active = None]})
  BY DEF IrqDone, Then
<1>2. /\ x.core = w.core \/ w.hc.active # None
      /\ x.chip = w.chip /\ ~x.oops /\ DataInv(x, none, None) /\ Sane(x)
  <2>1. DoneAs(x, w, none)
    BY DoneKeeps
  <2>2. Sane(x)
    BY <2>1 DEF DoneAs
  <2>3. CASE w.hc.active = None
    <3>1. x = w /\ Untold(w) = None
      BY <2>3 DEF Done, Untold
    <3> QED
      BY <2>2, <3>1 DEF Exact
  <2>4. CASE w.hc.active # None
    <3> DEFINE e == w.hc.active
               told == IF w.chip.res.st = "ack" THEN e ELSE None
    <3>1. e \in Ep
      BY <2>4 DEF Good, Sane, MadeInv, Made
    <3>2. DataInv(w, none, told) /\ PacketInv(w)
      <4>1. Untold(w) = told
        BY <2>4 DEF Untold
      <4> QED
        BY <4>1 DEF Exact
    <3>3. x \in Done(w, e) /\ e = w.hc.active /\ told = (IF w.chip.res.st = "ack" THEN e ELSE None)
      OBVIOUS
    <3> HIDE DEF e, told
    <3>4. DataInv(x, none, None) /\ x.chip = w.chip /\ ~x.oops
      BY <3>1, <3>2, <3>3, DoneData
    <3> QED
      BY <2>2, <2>4, <3>4
  <2> QED
    BY <2>3, <2>4
<1> DEFINE g == [x.hc EXCEPT !.active = None]
<1>3. x \in Worlds /\ x.hc \in HcTypes
  BY <1>2 DEF Sane, Worlds
<1>4. g \in HcTypes /\ g.alloc = x.hc.alloc /\ g.pid = x.hc.pid /\ g.active = None
  BY <1>3 DEF HcTypes, Pointer
<1>5. y = [x EXCEPT !.hc = g]
  BY <1>1, <1>2
<1> HIDE DEF g
<1>6. y.hc = g /\ SameBut(y, x)
  BY <1>3, <1>4, <1>5, HcChange
<1>7. DataInv(y, none, None)
  BY <1>2, <1>4, <1>6, DataSame DEF SameBut
<1>8. PacketInv(y)
  <2>1. CASE w.hc.active # None
    BY <1>2, <1>4, <1>6, <2>1 DEF PacketInv, SameBut
  <2>2. CASE w.hc.active = None
    BY <1>2, <1>4, <1>6, <2>2 DEF Exact, PacketInv, SameBut
  <2> QED
    BY <2>1, <2>2
<1>9. Untold(y) = None
  BY <1>4, <1>6 DEF Untold
<1> QED
  BY <1>2, <1>4, <1>6, <1>7, <1>8, <1>9 DEF Exact, SameBut

(* start_transfer.                                                         *)
LEMMA StartsExact ==
    ASSUME DevOK, NEW w, Sane(w), NEW open, Exact(w, open), "DONE_A" \notin w.chip.pend,
           NEW y \in StartTransfer(w)
    PROVE  Exact(y, open)
<1> DEFINE told == Untold(w)
<1>1. told \in {None, w.hc.active} /\ DataInv(w, open, told) /\ PacketInv(w)
  BY DEF Exact, Untold
<1>2. \/ y.chip = w.chip /\ y.hc.active = w.hc.active
      \/ w.hc.active = None /\ \E e \in Made(w.hc) : Issued(y, e)
  BY StartTransferFacts
<1>3. Untold(y) = told
  BY <1>2 DEF Untold, Issued
<1> HIDE DEF told
<1>4. DataInv(y, open, told) /\ PacketInv(y)
  BY <1>1, StartExact
<1> QED
  BY <1>3, <1>4 DEF Exact

(* checkdone.                                                              *)
LEMMA CheckDoneExact ==
    ASSUME DevOK, NEW w, Sane(w), NEW open, Exact(w, open), NEW y, y = CheckDone(w)
    PROVE  /\ Exact(y, open) /\ y.hc = w.hc /\ y.chip.pend = w.chip.pend
           /\ w.hc.active # None /\ w.hc.late => ~y.chip.armed
<1>1. CASE ~(w.hc.active # None /\ w.hc.late)
  BY <1>1 DEF CheckDone
<1>2. CASE w.hc.active # None /\ w.hc.late
  <2> DEFINE r == IF w.chip.armed THEN [st |-> "error", n |-> 0] ELSE w.chip.res
             k == [w.chip EXCEPT !.armed = FALSE, !.res = r]
  <2>1. w \in Worlds /\ w.chip \in ChipTypes
    BY DEF Sane, Worlds
  <2>2. y = [w EXCEPT !.chip = k]
    BY <1>2, <2>1 DEF CheckDone, Worlds
  <2>3. (~w.chip.armed /\ r = w.chip.res) \/ (w.chip.armed /\ r.st = "error")
    OBVIOUS
  <2> HIDE DEF r
  <2>4. k.tok = w.chip.tok /\ k.pend = w.chip.pend /\ k.armed = FALSE /\ k.res = r
    BY <2>1 DEF ChipTypes
  <2> HIDE DEF k
  <2>5. y.hc = w.hc /\ y.chip = k /\ y.core = w.core /\ y.bus = w.bus
    BY <2>1, <2>2 DEF Worlds
  <2>6. DataInv(w, open, Untold(w)) /\ PacketInv(w)
    BY DEF Exact
  <2>7. PacketInv(y)
    BY <2>4, <2>5, <2>6, PacketSame
  <2>8. Untold(y) = Untold(w) /\ DataInv(y, open, Untold(w))
    <3>1. CASE ~w.chip.armed
      <4>1. r = w.chip.res /\ Untold(y) = Untold(w)
        BY <2>3, <2>4, <2>5, <3>1 DEF Untold
      <4> DEFINE told == Untold(w)
      <4> HIDE DEF told
      <4>2. DataInv(w, open, told)
        BY <2>6 DEF told
      <4>3. DataInv(y, open, told)
        BY <2>4, <2>5, <4>1, <4>2, DataSame
      <4> QED
        BY <4>1, <4>3 DEF told
    <3>2. CASE w.chip.armed
      <4>1. Untold(w) = None /\ Untold(y) = None
        BY <2>3, <2>4, <2>5, <3>2 DEF Untold
      <4>2. DataInv(y, open, None)
        <5>1. PidData(y, open)
          BY <2>5, <2>6 DEF DataInv, PidData, Begins
        <5>2. ASSUME NEW x \in Urbs PROVE UrbData(y, open, None, x)
          <6>1. UrbData(w, open, None, x)
            BY <2>6, <4>1 DEF DataInv
          <6>2. EpOf(x) # None
            BY UrbEp, Sl811ScheduleAssumption
          <6>3. (Queued(y.core, x) <=> Queued(w.core, x)) /\ (First(y, x) <=> First(w, x))
            BY <2>5 DEF First
          <6> QED
            BY <2>5, <6>1, <6>2, <6>3, UrbStays
        <5> QED
          BY <5>1, <5>2 DEF DataInv
      <4> QED
        BY <4>1, <4>2
    <3> QED
      BY <3>1, <3>2
  <2> QED
    BY <2>4, <2>5, <2>7, <2>8 DEF Exact
<1> QED
  BY <1>1, <1>2

(* A plugged device finds the driver idle.                                 *)
LEMMA InsRmvExact ==
    ASSUME Orderly, NEW w, NEW open, Good(w, open), ~w.oops, Exact(w, open),
           w.chip.tok.pid = "none", NEW y \in IrqInsRmv(w)
    PROVE  Exact(y, open) /\ y.chip.pend = w.chip.pend
<1> DEFINE P == w.hc.port \union {"C_CONNECTION", "CONNECTION"}
           g == [w.hc EXCEPT !.ctrl1 = {}, !.irqen = {"INSRMV"}, !.active = None, !.port = P]
<1>1. w \in Worlds /\ w.hc \in HcTypes /\ KeptInv(w, open, {})
  BY DEF Good, Sane, Worlds
<1>2. w.hc.active = None
  BY <1>1, OrderlyFacts DEF KeptInv, PortInv, Idle
<1>3. y \in {[Quiet(w) EXCEPT !.hc = [Quiet(w).hc EXCEPT
                !.active = None, !.port = @ \union {"C_CONNECTION", "CONNECTION"}]]}
  BY <1>2 DEF IrqInsRmv, Quiet
<1>4. y = [w EXCEPT !.hc = g]
  BY <1>1, <1>3 DEF Quiet, Worlds, HcTypes
<1>5. g \in HcTypes /\ SameLists(g, w.hc) /\ g.active = w.hc.active
  <2>1. P \in SUBSET Ports
    BY <1>1 DEF HcTypes, Ports, Changes
  <2> HIDE DEF P
  <2>2. g \in HcTypes /\ SameLists(g, w.hc) /\ g.active = None
    BY <1>1, <2>1 DEF HcTypes, SameLists, Interrupts, Pointer
  <2> QED
    BY <1>2, <2>2
<1> HIDE DEF g
<1>6. y.hc = g /\ SameBut(y, w)
  BY <1>1, <1>4, <1>5, HcChange
<1> QED
  BY <1>5, <1>6, UndisturbedHc, UndisturbedExact DEF SameBut

(* A remote wakeup, ...                                                    *)
LEMMA WakeupExact ==
    ASSUME NEW w, Sane(w), NEW open, Exact(w, open), NEW y, y = IrqWakeup(w)
    PROVE  Exact(y, open) /\ y.chip.pend = w.chip.pend
<1>1. CASE "SUSPEND" \notin w.hc.port
  BY <1>1 DEF IrqWakeup
<1>2. CASE "SUSPEND" \in w.hc.port
  <2> DEFINE P == w.hc.port \union {"C_SUSPEND"}
             g == [w.hc EXCEPT !.port = P]
  <2>1. w \in Worlds /\ w.hc \in HcTypes
    BY DEF Sane, Worlds
  <2>2. y = [w EXCEPT !.hc = g]
    BY <1>2 DEF IrqWakeup
  <2>3. P \in SUBSET Ports
    BY <2>1 DEF HcTypes, Ports, Changes
  <2> HIDE DEF P
  <2>4. g \in HcTypes /\ SameLists(g, w.hc) /\ g.active = w.hc.active
    BY <2>1, <2>3 DEF HcTypes, SameLists
  <2> HIDE DEF g
  <2>5. y.hc = g /\ SameBut(y, w)
    BY <2>1, <2>2, <2>4, HcChange
  <2> QED
    BY <2>4, <2>5, UndisturbedHc, UndisturbedExact DEF SameBut
<1> QED
  BY <1>1, <1>2

(* ... a new frame ...                                                     *)
LEMMA SofExact ==
    ASSUME DevOK, NEW w, NEW open, Good(w, open), ~w.oops, Exact(w, open), NEW y, y = IrqSof(w)
    PROVE  Exact(y, open) /\ y.chip.pend = w.chip.pend
<1> DEFINE n == IF w.hc.periodic[w.hc.frame] # None THEN w.hc.periodic[w.hc.frame] ELSE w.hc.nextp
           f == (w.hc.frame + 1) % (PeriodicSize - 1)
<1>1. w \in Worlds /\ w.hc \in HcTypes
  BY DEF Good, Sane, Worlds
<1>2. y.hc = [w.hc EXCEPT !.frame = f, !.nextp = n] /\ SameBut(y, w)
  <2>1. y = [w EXCEPT !.hc = [w.hc EXCEPT !.frame = f, !.nextp = n]]
    BY <1>1 DEF IrqSof, Worlds, HcTypes
  <2> QED
    BY <1>1, <2>1 DEF Worlds, SameBut
<1> HIDE DEF n, f
<1>3. SameLists(y.hc, w.hc) /\ y.hc.active = w.hc.active
  BY <1>1, <1>2 DEF HcTypes, SameLists
<1> QED
  BY <1>2, <1>3, UndisturbedHc, UndisturbedExact DEF SameBut

(* ... and the end of the handler concern no URB.                          *)
LEMMA ExitExact ==
    ASSUME NEW w, Sane(w), NEW open, Exact(w, open), NEW y \in IrqExit(w)
    PROVE  Exact(y, open)
<1> DEFINE off == IF w.hc.count = 0 /\ w.hc.async = <<>>
                  THEN [w EXCEPT !.hc = [w.hc EXCEPT !.irqen = @ \ {"SOFINTR"}]] ELSE w
           left == IF w.chip.pend \cap w.hc.irqen = {} THEN {} ELSE w.chip.pend
<1>1. w \in Worlds /\ w.hc \in HcTypes /\ w.chip \in ChipTypes
  BY DEF Sane, Worlds
<1>2. y = [off EXCEPT !.chip = [off.chip EXCEPT !.pend = left]]
  BY <1>1 DEF IrqExit, Worlds
<1>3. /\ off \in Worlds /\ off.chip = w.chip /\ off.core = w.core /\ off.bus = w.bus
      /\ SameLists(off.hc, w.hc) /\ off.hc.active = w.hc.active
  BY <1>1 DEF Worlds, HcTypes, SameLists
<1> HIDE DEF off
<1>4. /\ y.chip = [w.chip EXCEPT !.pend = left] /\ y.core = w.core /\ y.bus = w.bus
      /\ y.hc = off.hc
  BY <1>2, <1>3 DEF Worlds
<1>5. y.chip.pend \subseteq w.chip.pend /\ y.chip.armed = w.chip.armed /\ y.chip.tok = w.chip.tok
      /\ y.chip.res = w.chip.res
  BY <1>1, <1>4 DEF ChipTypes
<1>6. Undisturbed(y, w)
  BY <1>3, <1>4, <1>5 DEF Undisturbed, SameLists
<1> QED
  BY <1>6, UndisturbedExact

(* The interrupt handler.                                                  *)
LEMMA IrqPassExact ==
    ASSUME DevOK, Orderly, NEW w, NEW none, none = {}, Good(w, none), ~w.oops, Exact(w, none),
           NEW irqstat, w.chip.pend = {},
           "DONE_A" \in irqstat /\ w.hc.active # None => ~w.chip.armed,
           "INSRMV" \in irqstat
                => /\ w.chip.tok.pid = "none" /\ w.chip.attached /\ ~w.hc.timer
                   /\ "DONE_A" \notin irqstat,
           NEW y \in IrqPass(w, irqstat)
    PROVE  Exact(y, none)
<1> DEFINE a(x) == IF "DONE_A" \in irqstat THEN IrqDone(x) ELSE {x}
           b(x) == {IF "SOFINTR" \in irqstat THEN IrqSof(x) ELSE x}
           c(x) == IF "INSRMV" \in irqstat THEN IrqInsRmv(x)
                   ELSE {IF "RD" \in irqstat THEN IrqWakeup(x) ELSE x}
           taken(x) == irqstat \ (IF "INSRMV" \notin irqstat /\ "SUSPEND" \notin x.hc.port
                                  THEN {"RD"} ELSE {})
           s(x) == IF taken(x) # {} /\ "ENABLE" \in x.hc.port THEN StartTransfer(x) ELSE {x}
           A == UNION {IF x.oops THEN {x} ELSE a(x) : x \in {w}}
           B == UNION {IF x.oops THEN {x} ELSE b(x) : x \in A}
           C == UNION {IF x.oops THEN {x} ELSE c(x) : x \in B}
           S == UNION {IF x.oops THEN {x} ELSE s(x) : x \in C}
<1>1. y \in UNION {IF x.oops THEN {x} ELSE IrqExit(x) : x \in S}
  BY Zenon DEF IrqPass, Then
<1> HIDE DEF S
<1>2. PICK x4 \in S : y \in IF x4.oops THEN {x4} ELSE IrqExit(x4)
  BY <1>1
<1> HIDE DEF C, s
<1>3. PICK x3 \in C : x4 \in IF x3.oops THEN {x3} ELSE s(x3)
  BY <1>2 DEF S
<1> HIDE DEF B, c
<1>4. PICK x2 \in B : x3 \in IF x2.oops THEN {x2} ELSE c(x2)
  BY <1>3 DEF C
<1> HIDE DEF A, b
<1>5. PICK x1 \in A : x2 \in IF x1.oops THEN {x1} ELSE b(x1)
  BY <1>4 DEF B
<1> HIDE DEF a
<1>6. x1 \in a(w)
  BY <1>5 DEF A
<1>n. none \in SUBSET Urbs /\ (Happens("overtake") \/ none = {}) /\ ~Happens("plug")
  BY OrderlyFacts
<1>7. Good(x1, none) /\ ~x1.oops /\ Exact(x1, none) /\ "DONE_A" \notin x1.chip.pend
  <2>1. CASE "DONE_A" \in irqstat
    <3>1. x1 \in IrqDone(w)
      BY <1>6, <2>1 DEF a
    <3>2. Good(x1, none)
      BY <1>n, <3>1, IrqDoneGood
    <3>3. "DONE_A" \notin w.chip.pend
      OBVIOUS
    <3> QED
      BY <2>1, <3>1, <3>2, <3>3, IrqDoneExact
  <2>2. CASE "DONE_A" \notin irqstat
    BY <1>6, <2>2 DEF a
  <2> QED
    BY <2>1, <2>2
<1>8. Good(x2, none) /\ ~x2.oops /\ Exact(x2, none) /\ x2.chip = x1.chip /\ SamePort(x2.hc, x1.hc)
  <2>1. x2 = x1 \/ x2 = IrqSof(x1)
    BY <1>5, <1>7 DEF b
  <2>2. CASE x2 = x1
    BY <1>7, <2>2 DEF SamePort
  <2>3. CASE x2 = IrqSof(x1)
    BY <1>7, <2>3, IrqSofGood, SofExact DEF SameBut
  <2> QED
    BY <2>1, <2>2, <2>3
<1>9. Good(x3, none) /\ Exact(x3, none) /\ x3.chip.pend = x2.chip.pend
  <2>1. CASE "INSRMV" \in irqstat
    <3>1. x1 = w
      BY <1>6, <2>1 DEF a
    <3>2. x2.chip = w.chip /\ x2.hc.timer = w.hc.timer
      BY <1>8, <3>1 DEF SamePort
    <3>3. x3 \in IrqInsRmv(x2)
      BY <1>4, <1>8, <2>1 DEF c
    <3> QED
      BY <1>n, <1>8, <2>1, <3>2, <3>3, InsRmvIdle, InsRmvExact
  <2>2. CASE "INSRMV" \notin irqstat
    <3>1. x3 = x2 \/ x3 = IrqWakeup(x2)
      BY <1>4, <1>8, <2>2 DEF c
    <3>2. Sane(x2)
      BY <1>8 DEF Good
    <3> QED
      BY <1>8, <3>1, <3>2, IrqWakeupGood, WakeupExact
  <2> QED
    BY <2>1, <2>2
<1>10. ~x3.oops /\ Sane(x3)
  BY <1>9, OrderlyFacts DEF Good
<1>11. Good(x4, none) /\ ~x4.oops /\ Exact(x4, none)
  <2>1. x4 = x3 \/ x4 \in StartTransfer(x3)
    BY <1>3, <1>10 DEF s
  <2>2. CASE x4 = x3
    BY <1>9, <1>10, <2>2
  <2>3. CASE x4 \in StartTransfer(x3)
    <3>1. "DONE_A" \notin x3.chip.pend
      BY <1>7, <1>8, <1>9
    <3> QED
      BY <1>n, <1>9, <1>10, <2>3, <3>1, StartGood, StartsExact
  <2> QED
    BY <2>1, <2>2, <2>3
<1>12. y \in IrqExit(x4) /\ Sane(x4)
  BY <1>2, <1>11 DEF Good
<1> QED
  BY <1>11, <1>12, ExitExact

(* sl811h_irq: what an interrupt leaves is exact.                          *)
LEMMA IrqExact ==
    ASSUME DevOK, Orderly, Good(World, core.calls), ~oops, Exact(World, core.calls),
           core.calls = {}, Irq
    PROVE  \E y : Becomes(y) /\ Good(y, core.calls) /\ Exact(y, core.calls)
<1> DEFINE irqstat == chip.pend \cap hc.irqen
           read == Read(World)
           overdue == hc.active # None /\ hc.late
           open == core.calls
<1>1. PICK y \in IF irqstat # {} THEN IrqPass(read, irqstat)
                 ELSE UNION {IrqPass(CheckDone(x), IF overdue THEN {"DONE_A"} ELSE {}) :
                                 x \in Slips(read)} :
          Becomes(y)
  BY DEF Irq, Read
<1>2. /\ World.hc = hc /\ World.core = core /\ World.chip = chip /\ World.oops = oops
      /\ World.bus = bus
  BY DEF World
<1>3. open \in SUBSET Urbs /\ World.core.calls = open /\ open = {} /\ World \in Worlds
      /\ chip \in ChipTypes /\ (Happens("overtake") \/ open = {}) /\ ~Happens("plug")
  BY <1>2, OrderlyFacts DEF Good, Sane, Worlds, CoreTypes
<1>r. read = Read(World)
  OBVIOUS
<1> HIDE DEF read
<1>4. /\ Good(read, open) /\ ~read.oops /\ read.hc = hc /\ read.core = core
      /\ read.chip.pend = {} /\ read.chip.tok = chip.tok /\ read.chip.attached = chip.attached
  BY <1>2, <1>r, ReadGood
<1>5. read.chip.armed = chip.armed /\ read.chip.res = chip.res /\ read.bus = bus
  BY <1>2, <1>3, <1>r DEF Read, Worlds, ChipTypes
<1>6. Exact(read, open)
  <2>1. Undisturbed(read, World)
    BY <1>2, <1>4, <1>5 DEF Undisturbed
  <2> QED
    BY <2>1, UndisturbedExact
<1>7. "INSRMV" \in irqstat
        => chip.tok.pid = "none" /\ chip.attached /\ ~hc.timer /\ "DONE_A" \notin irqstat
  <2>1. PortInv(hc, core, chip)
    BY <1>2 DEF Good, KeptInv
  <2> QED
    BY <1>3, <2>1 DEF PortInv, Idle, Live
<1>8. "DONE_A" \in irqstat /\ hc.active # None => ~chip.armed
  BY <1>2 DEF Exact, PacketInv
<1> HIDE DEF irqstat, open, overdue
<1>9. CASE irqstat # {}
  <2>1. y \in IrqPass(read, irqstat)
    BY <1>1, <1>9
  <2>2. Good(y, open)
    BY <1>3, <1>4, <1>7, <2>1, IrqPassGood
  <2>3. Exact(y, open)
    BY <1>3, <1>4, <1>5, <1>6, <1>7, <1>8, <2>1, IrqPassExact
  <2> QED
    BY <1>1, <2>2, <2>3 DEF open
<1>10. CASE irqstat = {}
  <2> DEFINE z == CheckDone(read)
             st == IF overdue THEN {"DONE_A"} ELSE {}
  <2>s. Slips(read) = {read}
    BY OrderlyFacts DEF Slips, Happens
  <2>1. y \in IrqPass(z, st) /\ "INSRMV" \notin st /\ ("DONE_A" \in st => overdue)
    BY <1>1, <1>10, <2>s
  <2>z. z = CheckDone(read)
    OBVIOUS
  <2> HIDE DEF z, st
  <2>2. Good(z, open) /\ ~z.oops
    BY <1>4, <2>z, CheckDoneGood
  <2>3. /\ Exact(z, open) /\ z.hc = read.hc /\ z.chip.pend = read.chip.pend
        /\ read.hc.active # None /\ read.hc.late => ~z.chip.armed
    <3>1. Sane(read)
      BY <1>4 DEF Good
    <3> QED
      BY <1>6, <2>z, <3>1, CheckDoneExact
  <2>4. Good(y, open)
    BY <1>3, <2>1, <2>2, IrqPassGood
  <2>5. /\ z.chip.pend = {}
        /\ "DONE_A" \in st /\ z.hc.active # None => ~z.chip.armed
    BY <1>4, <2>1, <2>3 DEF overdue
  <2>6. Exact(y, open)
    BY <1>3, <2>1, <2>2, <2>3, <2>5, IrqPassExact
  <2> QED
    BY <1>1, <2>4, <2>6 DEF open
<1> QED
  BY <1>9, <1>10

(* What is said of a world is about the device, which stays the same.      *)
LEMMA ExactStays ==
    ASSUME dev' = dev, NEW y, NEW open, Exact(y, open)
    PROVE  Exact(y, open)'
<1>1. Urbs' = Urbs /\ \A u : EpOf(u)' = EpOf(u)
  BY DEF Urbs, EpOf
<1>2. \A e : Type(e)' = Type(e)
  BY DEF Type
<1>3. \A u : FirstPid(u)' = FirstPid(u)
  BY <1>1, <1>2 DEF FirstPid
<1>4. \A c, u : Queued(c, u)' <=> Queued(c, u)
  BY <1>1 DEF Queued
<1>5. \A w, u : First(w, u)' <=> First(w, u)
  BY <1>1 DEF First
<1>6. \A w, u : DeliveredOf(w, u)' <=> DeliveredOf(w, u)
  BY <1>1, <1>2 DEF DeliveredOf
<1>7. \A w, u : AckAgrees(w, u)' <=> AckAgrees(w, u)
  BY <1>1, <1>2 DEF AckAgrees
<1>8. \A w, u : Agree(w, u)' <=> Agree(w, u)
  BY <1>1, <1>2, <1>7 DEF Agree
<1>9. \A w, u : WillAgree(w, u)' <=> WillAgree(w, u)
  BY <1>1, <1>2, <1>7 DEF WillAgree
<1>10. \A w, u : Fresh(w, u)' <=> Fresh(w, u)
  BY DEF Fresh
<1>11. \A w, o, told, u : UrbData(w, o, told, u)' <=> UrbData(w, o, told, u)
  BY <1>1, <1>4, <1>5, <1>6, <1>8, <1>9, <1>10 DEF UrbData
<1>12. \A w, o, e : Begins(w, o, e)' <=> Begins(w, o, e)
  BY <1>2 DEF Begins
<1>13. \A w, o : PidData(w, o)' <=> PidData(w, o)
  BY <1>1, <1>3, <1>12 DEF PidData
<1>14. \A w, o, told : DataInv(w, o, told)' <=> DataInv(w, o, told)
  BY <1>1, <1>11, <1>13 DEF DataInv
<1>15. \A w, e, u : Room(w, e, u)' = Room(w, e, u)
  BY DEF Room
<1>16. \A w : PacketInv(w)' <=> PacketInv(w)
  BY <1>15 DEF PacketInv
<1>17. Untold(y)' = Untold(y)
  BY DEF Untold
<1> QED
  BY <1>14, <1>16, <1>17 DEF Exact

(* So it is enough to show it of the world a step leads to, ...            *)
LEMMA ExactTo ==
    ASSUME NEW y \in Worlds, Becomes(y), Exact(y, y.core.calls)
    PROVE  Exact(World, core.calls)'
<1> DEFINE open == y.core.calls
<1>1. World' = y /\ dev' = dev /\ core'.calls = open
  BY BecomesWorld
<1>2. Exact(y, open)
  OBVIOUS
<1> HIDE DEF open
<1>3. Exact(y, open)'
  BY <1>1, <1>2, ExactStays
<1> QED
  BY <1>1, <1>3

(* ... which is one.                                                       *)
LEMMA GoodWorld ==
    ASSUME NEW y, NEW open, Good(y, open)
    PROVE  y \in Worlds /\ y.core.calls = open
BY DEF Good, Sane

(* A step that changes nothing that is spoken of.                          *)
LEMMA Calm ==
    ASSUME Exact(World, core.calls), NEW y \in Worlds, Becomes(y), y.core.calls = core.calls,
           core'.q = core.q, core'.status = core.status, core'.actual = core.actual, bus' = bus,
           chip'.armed = chip.armed, chip'.tok = chip.tok, chip'.res = chip.res,
           "DONE_A" \in chip'.pend => "DONE_A" \in chip.pend,
           hc'.alloc = hc.alloc, hc'.pid = hc.pid, hc'.active = hc.active
    PROVE  Exact(World, core.calls)'
<1>1. Undisturbed(y, World)
  BY DEF Undisturbed, World, Becomes
<1>2. Exact(y, core.calls)
  BY <1>1, UndisturbedExact
<1> QED
  BY <1>2, ExactTo

(* A frame begins, or the device asks to be resumed.                       *)
LEMMA FrameExact ==
    ASSUME Good(World, core.calls), ~oops, Exact(World, core.calls), Frame \/ RemoteWakeup
    PROVE  Exact(World, core.calls)'
<1>1. PICK y : Becomes(y) /\ Good(y, core.calls)
  BY FrameGood, RemoteWakeupGood
<1>2. chip \in ChipTypes
  BY WorldFacts
<1>3. PICK bit \in {"SOFINTR", "RD"} : Pends(bit)
  BY DEF Frame, RemoteWakeup
<1> DEFINE pd == chip.pend \union {bit}
<1>4. chip' = [chip EXCEPT !.pend = pd] /\ UNCHANGED <<dev, hc, core, bus, oops>>
  BY <1>3 DEF Pends
<1>5. "DONE_A" \in pd => "DONE_A" \in chip.pend
  BY <1>3
<1> HIDE DEF pd
<1>6. /\ chip'.armed = chip.armed /\ chip'.tok = chip.tok /\ chip'.res = chip.res
      /\ chip'.pend = pd
  BY <1>2, <1>4 DEF ChipTypes
<1> QED
  BY <1>1, <1>4, <1>5, <1>6, Calm, GoodWorld

(* The device is plugged in.                                               *)
LEMMA PlugExact ==
    ASSUME Good(World, core.calls), ~oops, Exact(World, core.calls), Plug
    PROVE  Exact(World, core.calls)'
<1>1. PICK y : Becomes(y) /\ Good(y, core.calls)
  BY PlugGood
<1>2. chip \in ChipTypes
  BY WorldFacts
<1> DEFINE pd == chip.pend \union {"INSRMV"}
           a == ~chip.attached
<1>4. chip' = [chip EXCEPT !.attached = a, !.pend = pd] /\ UNCHANGED <<dev, hc, core, bus, oops>>
  BY DEF Plug
<1>5. "DONE_A" \in pd => "DONE_A" \in chip.pend
  OBVIOUS
<1> HIDE DEF pd, a
<1>6. /\ chip'.armed = chip.armed /\ chip'.tok = chip.tok /\ chip'.res = chip.res
      /\ chip'.pend = pd
  BY <1>2, <1>4 DEF ChipTypes
<1> QED
  BY <1>1, <1>4, <1>5, <1>6, Calm, GoodWorld

(* The interrupt of a packet is lost, ...                                  *)
LEMMA LoseDoneExact ==
    ASSUME Good(World, core.calls), ~oops, Exact(World, core.calls), LoseDone
    PROVE  Exact(World, core.calls)'
<1>1. PICK y : Becomes(y) /\ Good(y, core.calls)
  BY LoseDoneGood
<1>2. chip \in ChipTypes
  BY WorldFacts
<1> DEFINE pd == chip.pend \ {"DONE_A"}
<1>4. chip' = [chip EXCEPT !.pend = pd] /\ UNCHANGED <<dev, hc, core, bus, oops>>
  BY DEF LoseDone
<1>5. "DONE_A" \notin pd
  OBVIOUS
<1> HIDE DEF pd
<1>6. /\ chip'.armed = chip.armed /\ chip'.tok = chip.tok /\ chip'.res = chip.res
      /\ chip'.pend = pd
  BY <1>2, <1>4 DEF ChipTypes
<1> QED
  BY <1>1, <1>4, <1>5, <1>6, Calm, GoodWorld

(* ... and sl811h_irq is to find the packet overdue.                       *)
LEMMA OverdueExact ==
    ASSUME Good(World, core.calls), ~oops, Exact(World, core.calls), Overdue
    PROVE  Exact(World, core.calls)'
<1>1. PICK y : Becomes(y) /\ Good(y, core.calls)
  BY OverdueGood
<1>2. hc \in HcTypes
  BY WorldFacts
<1>4. hc' = [hc EXCEPT !.late = TRUE] /\ UNCHANGED <<dev, chip, core, bus, oops>>
  BY DEF Overdue
<1>6. hc'.alloc = hc.alloc /\ hc'.pid = hc.pid /\ hc'.active = hc.active
  BY <1>2, <1>4 DEF HcTypes
<1> QED
  BY <1>1, <1>4, <1>6, Calm, GoodWorld

(* The hub driver's requests concern no URB.                               *)
LEMMA HubDriverExact ==
    ASSUME DevOK, Orderly, Good(World, core.calls), ~oops, Exact(World, core.calls), HubDriver
    PROVE  Exact(World, core.calls)'
<1>1. PICK y : Becomes(y) /\ Good(y, core.calls)
  BY HubDriverGood
<1>2. hc \in HcTypes
  BY WorldFacts
<1>3. ClearPortChange \/ SetPortReset
  BY OrderlyFacts DEF HubDriver, Happens
<1>4. UNCHANGED <<dev, chip, core, bus, oops>>
  BY <1>3 DEF ClearPortChange, SetPortReset, Hub
<1>6. hc'.alloc = hc.alloc /\ hc'.pid = hc.pid /\ hc'.active = hc.active
  <2>1. CASE ClearPortChange
    <3> DEFINE P == hc.port \ Changes
    <3>1. hc' = [hc EXCEPT !.port = P]
      BY <2>1 DEF ClearPortChange, Hub
    <3> HIDE DEF P
    <3> QED
      BY <1>2, <3>1 DEF HcTypes
  <2>2. CASE SetPortReset
    <3> DEFINE P == hc.port \union {"RESET"}
    <3>1. \/ hc' = [hc EXCEPT !.irqen = {}, !.ctrl1 = {"SE0"}, !.timer = TRUE, !.port = P]
          \/ hc' = [hc EXCEPT !.port = P]
      BY <2>2 DEF SetPortReset, Hub
    <3> HIDE DEF P
    <3> QED
      BY <1>2, <3>1 DEF HcTypes
  <2> QED
    BY <1>3, <2>1, <2>2
<1> QED
  BY <1>1, <1>4, <1>6, Calm, GoodWorld

(* While no verdict is outstanding, the chip does not matter.              *)
LEMMA DataUntold ==
    ASSUME DevOK, NEW w, NEW y, NEW open, DataInv(w, open, None),
           y.core.q = w.core.q, y.core.status = w.core.status, y.core.actual = w.core.actual,
           y.bus = w.bus, y.hc.alloc = w.hc.alloc, y.hc.pid = w.hc.pid
    PROVE  DataInv(y, open, None)
<1>1. PidData(y, open)
  BY DEF DataInv, PidData, Begins
<1>2. ASSUME NEW x \in Urbs PROVE UrbData(y, open, None, x)
  <2>1. UrbData(w, open, None, x)
    BY DEF DataInv
  <2>2. EpOf(x) # None
    BY UrbEp, Sl811ScheduleAssumption
  <2>3. (Queued(y.core, x) <=> Queued(w.core, x)) /\ (First(y, x) <=> First(w, x))
    BY DEF First, Queued
  <2> QED
    BY <2>1, <2>2, <2>3, UrbStays
<1> QED
  BY <1>1, <1>2 DEF DataInv

(* The packet of the driver's endpoint is not the one that starts frames.  *)
LEMMA ActiveNotSof ==
    ASSUME NEW w, Sane(w), PacketInv(w), w.hc.active # None
    PROVE  w.chip.tok.pid \in Pids
<1> DEFINE e == w.hc.active
<1>1. w.hc.pid[e] \in Pids
  BY DEF Sane, Worlds, HcTypes, MadeInv, Made
<1>2. w.chip.tok.pid = w.hc.pid[e]
  BY DEF PacketInv
<1> QED
  BY <1>1, <1>2

(* The SOF packet that starts the frames ends, and no URB was submitted    *)
(* yet.                                                                    *)
LEMMA KickedExact ==
    ASSUME DevOK, Good(World, core.calls), ~oops, Exact(World, core.calls), Kicked
    PROVE  Exact(World, core.calls)'
<1>1. PICK y : Becomes(y) /\ Good(y, core.calls)
  BY KickedGood
<1>2. /\ chip \in ChipTypes /\ World.hc = hc /\ World.core = core /\ World.chip = chip
      /\ World.bus = bus /\ Sane(World)
  BY WorldFacts
<1>3. /\ chip' = [chip EXCEPT !.armed = FALSE, !.res = [st |-> "ack", n |-> 0],
                              !.pend = @ \union {"DONE_A"}]
      /\ UNCHANGED <<dev, hc, core, bus, oops>> /\ chip.armed /\ chip.tok.pid = "SOF"
  BY DEF Kicked
<1>4. chip'.armed = FALSE /\ chip'.tok = chip.tok
  BY <1>2, <1>3 DEF ChipTypes
<1>5. /\ y.hc = hc /\ y.core = core /\ y.bus = bus /\ y.chip.tok = chip.tok /\ ~y.chip.armed
      /\ y \in Worlds /\ y.core.calls = core.calls
  BY <1>1, <1>3, <1>4, GoodWorld DEF Becomes
<1>6. DataInv(World, core.calls, Untold(World)) /\ PacketInv(World)
  BY DEF Exact
<1>7. hc.active = None
  BY <1>2, <1>3, <1>6, ActiveNotSof DEF Pids
<1>8. Untold(y) = None /\ Untold(World) = None
  BY <1>2, <1>5, <1>7 DEF Untold
<1>9. DataInv(y, core.calls, None)
  BY <1>2, <1>5, <1>6, <1>8, DataUntold
<1>10. PacketInv(y)
  BY <1>2, <1>3, <1>5, <1>6, <1>7 DEF PacketInv
<1> QED
  BY <1>1, <1>5, <1>8, <1>9, <1>10, ExactTo DEF Exact

(* What sl811h_timer changes, as far as packets go.                        *)
LEMMA TimerDoes ==
    ASSUME Good(World, core.calls), ~oops, Timer
    PROVE  /\ core' = core /\ bus' = bus
           /\ hc'.alloc = hc.alloc /\ hc'.pid = hc.pid /\ hc'.active = hc.active
           /\ \/ chip'.armed = chip.armed /\ chip'.tok = chip.tok /\ chip'.pend = {}
              \/ chip'.tok.pid = "SOF"
<1> DEFINE status == chip.pend \union (IF chip.attached THEN {} ELSE {"RD"})
           reset == "SE0" \in hc.ctrl1
           gone == "RD" \in status /\ ~(reset /\ "INSRMV" \in status)
           port == IF reset THEN {"C_RESET", "POWER"}
                   ELSE IF "K" \in hc.ctrl1 THEN hc.port \ {"SUSPEND"} ELSE hc.port
           mask == {"CONNECTION", "ENABLE"}
           ctrl == IF reset THEN {} ELSE hc.ctrl1 \ {"K"}
           lost == IF "CONNECTION" \in port THEN {"C_CONNECTION", "C_ENABLE"} ELSE {}
<1>1. /\ World.hc = hc /\ World.core = core /\ World.chip = chip /\ World.bus = bus
      /\ World.oops = oops /\ hc \in HcTypes /\ chip \in ChipTypes
  BY WorldFacts
<1>2. CASE gone
  <2> DEFINE P == (port \union lost) \ mask
  <2>1. Becomes([World EXCEPT
                     !.hc = [[hc EXCEPT !.timer = FALSE] EXCEPT
                                !.port = P, !.irqen = {"INSRMV"}, !.ctrl1 = {}],
                     !.chip.pend = {}])
    BY <1>2 DEF Timer
  <2> HIDE DEF P
  <2>2. /\ hc' = [[hc EXCEPT !.timer = FALSE] EXCEPT
                    !.port = P, !.irqen = {"INSRMV"}, !.ctrl1 = {}]
        /\ chip' = [chip EXCEPT !.pend = {}] /\ core' = core /\ bus' = bus
    BY <1>1, <2>1 DEF Becomes, World
  <2>3. hc'.alloc = hc.alloc /\ hc'.pid = hc.pid /\ hc'.active = hc.active
    BY <1>1, <2>2 DEF HcTypes
  <2>4. chip'.armed = chip.armed /\ chip'.tok = chip.tok /\ chip'.pend = {}
    BY <1>1, <2>2 DEF ChipTypes
  <2> QED
    BY <2>2, <2>3, <2>4
<1>3. CASE ~gone
  <2> DEFINE P == port \union mask
             I == {"INSRMV", "RD", "DONE_A"}
             D == ctrl \union {"SOF_ENA"}
             tok == [pid |-> "SOF", urb |-> None, room |-> 0]
  <2>1. Becomes([World EXCEPT
                     !.hc = [[hc EXCEPT !.timer = FALSE] EXCEPT !.port = P, !.irqen = I, !.ctrl1 = D],
                     !.chip = [@ EXCEPT !.pend = {}, !.armed = TRUE, !.tok = tok]])
    BY <1>3 DEF Timer
  <2>t. tok.pid = "SOF"
    OBVIOUS
  <2> HIDE DEF P, I, D, tok
  <2>2. /\ hc' = [[hc EXCEPT !.timer = FALSE] EXCEPT !.port = P, !.irqen = I, !.ctrl1 = D]
        /\ chip' = [chip EXCEPT !.pend = {}, !.armed = TRUE, !.tok = tok]
        /\ core' = core /\ bus' = bus
    BY <1>1, <2>1 DEF Becomes, World
  <2>3. hc'.alloc = hc.alloc /\ hc'.pid = hc.pid /\ hc'.active = hc.active
    BY <1>1, <2>2 DEF HcTypes
  <2>4. chip'.tok = tok
    BY <1>1, <2>2 DEF ChipTypes
  <2> QED
    BY <2>t, <2>2, <2>3, <2>4
<1> QED
  BY <1>2, <1>3

(* The timer ends the reset that nothing was submitted before.             *)
LEMMA TimerExact ==
    ASSUME DevOK, Orderly, Good(World, core.calls), ~oops, Exact(World, core.calls), Timer
    PROVE  Exact(World, core.calls)'
<1>1. PICK y : Becomes(y) /\ Good(y, core.calls)
  BY TimerGood
<1>2. /\ World.hc = hc /\ World.core = core /\ World.chip = chip
      /\ World.bus = bus /\ TokInv(chip) /\ PortInv(hc, core, chip)
  BY WorldFacts
<1>3. hc.timer
  BY DEF Timer
<1>4. Idle(hc, core, chip) /\ chip.tok.pid = "none"
  BY <1>2, <1>3, OrderlyFacts DEF PortInv, Live
<1>5. /\ core' = core /\ bus' = bus
      /\ hc'.alloc = hc.alloc /\ hc'.pid = hc.pid /\ hc'.active = hc.active
      /\ \/ chip'.armed = chip.armed /\ chip'.tok = chip.tok /\ chip'.pend = {}
         \/ chip'.tok.pid = "SOF"
  BY TimerDoes
<1>6. /\ y.hc = hc' /\ y.core = core /\ y.bus = bus /\ y.chip = chip'
      /\ y \in Worlds /\ y.core.calls = core.calls
  BY <1>1, <1>5, GoodWorld DEF Becomes
<1>7. hc.active = None /\ \A e \in Ep : core.q[e] = <<>>
  BY <1>4 DEF Idle
<1>8. Untold(y) = None /\ Untold(World) = None
  BY <1>2, <1>5, <1>6, <1>7 DEF Untold
<1>9. DataInv(World, core.calls, None)
  BY <1>8 DEF Exact
<1>10. DataInv(y, core.calls, None)
  BY <1>2, <1>5, <1>6, <1>9, DataUntold
<1>11. PacketInv(y)
  BY <1>2, <1>4, <1>5, <1>6, <1>7 DEF PacketInv, TokInv
<1> QED
  BY <1>1, <1>6, <1>8, <1>10, <1>11, ExactTo DEF Exact

(* What the device knows of an URB when it acknowledged a packet.          *)
LEMMA AcknowledgeIs ==
    ASSUME DevOK, bus \in BusTypes, NEW t, t.urb \in Urbs, NEW n \in Int, t.room \in Int,
           NEW known, known = bus[t.urb], NEW ack, ack = Acknowledge(t, n),
           NEW most, most = dev.urb[t.urb].len + 1
    PROVE  /\ t.pid = "SETUP" => ack.setup /\ ack.data = 0
           /\ t.pid = "IN" => ack.setup = known.setup /\ ack.data = Least(known.data + n, most)
           /\ t.pid = "OUT" => ack.setup = known.setup /\ ack.data = Least(known.data + t.room, most)
           /\ t.pid = "ACK" => ack.setup = known.setup /\ ack.data = known.data /\ ack.status
<1> DEFINE More(k) == [known EXCEPT !.data = Least(@ + k, dev.urb[t.urb].len + 1)]
<1>1. known \in [setup : BOOLEAN, data : Int, status : BOOLEAN]
  BY DEF BusTypes
<1>2. ASSUME NEW k \in Int PROVE More(k).setup = known.setup /\ More(k).data = Least(known.data + k, most)
  <2> DEFINE d == Least(known.data + k, most)
  <2>1. More(k) = [known EXCEPT !.data = d]
    OBVIOUS
  <2> HIDE DEF d
  <2>2. More(k).setup = known.setup /\ More(k).data = d
    BY <1>1, <2>1
  <2> QED
    BY <2>2 DEF d
<1>3. CASE t.pid = "SETUP"
  BY <1>3 DEF Acknowledge, Bare
<1>4. CASE t.pid = "IN"
  <2>1. ack = More(n)
    BY <1>4 DEF Acknowledge
  <2> QED
    BY <1>2, <1>4, <2>1
<1>5. CASE t.pid = "OUT"
  <2>1. ack = More(t.room)
    BY <1>5 DEF Acknowledge
  <2> QED
    BY <1>2, <1>5, <2>1
<1>6. CASE t.pid = "ACK"
  <2>1. ack = [known EXCEPT !.status = TRUE]
    BY <1>6 DEF Acknowledge
  <2> QED
    BY <1>1, <1>6, <2>1
<1> QED
  BY <1>3, <1>4, <1>5, <1>6

(* The device acknowledged the packet of u, and done() is still to judge it. *)
LEMMA AcknowledgedAgrees ==
    ASSUME DevOK, NEW w, Sane(w), NEW u \in Urbs, Agree(w, u),
           w.core.actual[u] \in 0 .. dev.urb[u].len,
           NEW n, n = w.core.actual[u], NEW pid \in Pids, w.hc.pid[EpOf(u)] = pid,
           NEW known, known = w.bus[u], NEW room, room = Room(w, EpOf(u), u),
           NEW y, y.core = w.core, y.hc.pid = w.hc.pid, y.chip.tok.room = room,
           NEW got \in 0 .. MaxPacket, y.chip.res.n = got,
           NEW ack, ack = y.bus[u], NEW most, most = dev.urb[u].len + 1,
           pid = "SETUP" => ack.setup /\ ack.data = 0,
           pid = "IN" => ack.setup = known.setup /\ ack.data = Least(known.data + got, most),
           pid = "OUT" => ack.setup = known.setup /\ ack.data = Least(known.data + room, most),
           pid = "ACK" => ack.setup = known.setup /\ ack.data = known.data /\ ack.status
    PROVE  WillAgree(y, u)
<1>1. dev.urb[u].len \in Nat /\ MaxPacket \in Nat
  BY DeviceFacts, Sl811Assumption
<1>2. w.core.status[u] = "ok" => pid = "ACK" /\ dev.urb[u].in
  BY DEF Agree
<1>3. CASE pid = "SETUP"
  BY <1>2, <1>3 DEF Agree, WillAgree
<1>4. CASE pid = "IN"
  BY <1>2, <1>4 DEF Agree, WillAgree
<1>5. CASE pid = "OUT"
  <2>1. room = Least(MaxPacket, dev.urb[u].len - n)
    BY <1>5 DEF Room
  <2>2. n + room <= dev.urb[u].len /\ room \in Int /\ n \in Int
    BY <1>1, <2>1 DEF Least
  <2>3. known.data = n
    BY <1>5 DEF Agree
  <2>4. ack.data = n + room
    BY <1>1, <1>5, <2>2, <2>3 DEF Least
  <2> QED
    BY <1>2, <1>5, <2>4 DEF Agree, WillAgree
<1>6. CASE pid = "ACK"
  <2>1. AckAgrees(w, u)
    BY <1>6 DEF Agree
  <2>2. AckAgrees(y, u)
    BY <1>6, <2>1 DEF AckAgrees
  <2> QED
    BY <1>2, <1>6, <2>2 DEF WillAgree, AckAgrees
<1> QED
  BY <1>3, <1>4, <1>5, <1>6 DEF Pids

(* The URBs whose packet it was not.                                       *)
LEMMA OthersUntouched ==
    ASSUME DevOK, NEW w, NEW y, NEW open, NEW x \in Urbs, UrbData(w, open, None, x),
           NEW u, First(w, u), x # u, NEW e, e = EpOf(u),
           y.core = w.core, y.hc.pid = w.hc.pid, y.bus[x] = w.bus[x]
    PROVE  UrbData(y, open, e, x)
<1>1. EpOf(x) = e => ~First(w, x)
  BY DEF First
<1>2. First(y, x) <=> First(w, x)
  BY DEF First
<1>3. EpOf(x) # None
  BY UrbEp, Sl811ScheduleAssumption
<1>4. DeliveredOf(w, x) => DeliveredOf(y, x)
  BY DEF DeliveredOf
<1>5. Fresh(w, x) => Fresh(y, x)
  BY DEF Fresh
<1>6. Agree(w, x) => Agree(y, x)
  BY DEF Agree, AckAgrees
<1> QED
  BY <1>1, <1>2, <1>3, <1>4, <1>5, <1>6 DEF UrbData

(* The device answers: what it acknowledged is what done() is about to     *)
(* judge, and of no other URB.                                             *)
LEMMA AnswerExact ==
    ASSUME DevOK, Orderly, Good(World, core.calls), ~oops, Exact(World, core.calls), Answer
    PROVE  Exact(World, core.calls)'
<1>1. PICK y : Becomes(y) /\ Good(y, core.calls)
  BY AnswerGood
<1>2. PICK r \in Answers(chip.tok.pid) : Answered(r)
  BY DEF Answer
<1>3. /\ World.hc = hc /\ World.core = core /\ World.chip = chip /\ World.bus = bus
      /\ World \in Worlds /\ Sane(World) /\ chip \in ChipTypes /\ bus \in BusTypes
      /\ TokInv(chip) /\ MadeInv(hc) /\ KeptInv(World, core.calls, {})
      /\ ActiveInv(hc, core, core.calls)
  BY WorldFacts
<1>4. r \in [st : {"ack", "nak", "stall", "error"}, n : 0 .. MaxPacket]
  BY <1>2, AnswerType
<1>5. /\ chip' = Ended(chip, r) /\ UNCHANGED <<dev, hc, core, oops>>
      /\ bus' = IF r.st = "ack"
                THEN [bus EXCEPT ![chip.tok.urb] = Acknowledge(chip.tok, r.n)] ELSE bus
      /\ chip.armed /\ chip.tok.pid # "SOF"
  BY <1>2, AnsweredIs
<1>6. chip'.armed = FALSE /\ chip'.tok = chip.tok /\ chip'.res = r
  <2> DEFINE pd == chip.pend \union {"DONE_A"}
  <2>1. chip' = [chip EXCEPT !.armed = FALSE, !.res = r, !.pend = pd]
    BY <1>5 DEF Ended
  <2> HIDE DEF pd
  <2> QED
    BY <1>3, <2>1 DEF ChipTypes
<1>7. /\ y.hc = hc /\ y.core = core /\ y.bus = bus' /\ y.chip.tok = chip.tok /\ ~y.chip.armed
      /\ y.chip.res = r /\ y \in Worlds /\ y.core.calls = core.calls
  BY <1>1, <1>5, <1>6, GoodWorld DEF Becomes
<1> DEFINE e == hc.active
           u == Head(core.q[e])
           open == core.calls
<1>8. DataInv(World, open, Untold(World)) /\ PacketInv(World)
  BY DEF Exact
<1>9. Untold(World) = None
  BY <1>3, <1>5 DEF Untold
<1>10. e # None
  BY <1>3, <1>5, <1>8 DEF PacketInv
<1>11. e \in Ep /\ chip.tok = [pid |-> hc.pid[e], urb |-> u, room |-> Room(World, e, u)]
  BY <1>3, <1>8, <1>10 DEF PacketInv, MadeInv, Made
<1>12. core.q[e] # <<>> /\ u \notin open
  BY <1>3, <1>10, OrderlyFacts DEF ActiveInv
<1>13. u \in Urbs /\ EpOf(u) = e /\ First(World, u) /\ Queued(World.core, u)
  <2>1. QueuesInv(World.core) /\ World.core.q[e] # <<>> /\ u = Head(World.core.q[e])
    BY <1>3, <1>12 DEF KeptInv
  <2> HIDE DEF e, u
  <2> QED
    BY <1>3, <1>11, <2>1, FirstOf
<1>14. PacketInv(y)
  <2>1. Room(y, e, u) = Room(World, e, u)
    BY <1>3, <1>7 DEF Room
  <2> QED
    BY <1>7, <1>10, <1>11, <2>1 DEF PacketInv
<1>15. CASE r.st # "ack"
  <2>1. Untold(y) = None
    BY <1>7, <1>15 DEF Untold
  <2>2. y.bus = bus
    BY <1>5, <1>7, <1>15
  <2> HIDE DEF open
  <2>3. DataInv(y, open, None)
    BY <1>3, <1>7, <1>8, <1>9, <2>2, DataUntold
  <2> QED
    BY <1>1, <1>7, <1>14, <2>1, <2>3, ExactTo DEF Exact, open
<1>16. CASE r.st = "ack"
  <2> DEFINE ack == Acknowledge(chip.tok, r.n)
             pid == hc.pid[e]
             room == Room(World, e, u)
             most == dev.urb[u].len + 1
  <2>1. Untold(y) = e
    BY <1>7, <1>10, <1>16 DEF Untold
  <2>2. y.bus = [bus EXCEPT ![u] = ack]
    BY <1>5, <1>7, <1>11, <1>16
  <2>3. chip.tok.urb = u /\ chip.tok.pid = pid /\ chip.tok.room = room /\ pid \in Pids
        /\ room \in Int
    <3>1. chip.tok.pid \in Pids
      BY <1>3, <1>8, <1>10, ActiveNotSof
    <3> QED
      BY <1>3, <1>11, <3>1 DEF ChipTypes
  <2>4. r.n \in 0 .. MaxPacket /\ r.n \in Int /\ MaxPacket \in Nat
    BY <1>4, Sl811Assumption
  <2>a. ack = Acknowledge(chip.tok, r.n) /\ most = dev.urb[u].len + 1 /\ room = Room(World, e, u)
        /\ pid = hc.pid[e]
    OBVIOUS
  <2> HIDE DEF open, e, u, ack, pid, room, most
  <2>5. y.bus[u] = ack /\ \A x \in Urbs : x # u => y.bus[x] = bus[x]
    BY <1>3, <1>13, <2>2 DEF BusTypes
  <2>6. /\ pid = "SETUP" => ack.setup /\ ack.data = 0
        /\ pid = "IN" => ack.setup = bus[u].setup /\ ack.data = Least(bus[u].data + r.n, most)
        /\ pid = "OUT" => ack.setup = bus[u].setup /\ ack.data = Least(bus[u].data + room, most)
        /\ pid = "ACK" => ack.setup = bus[u].setup /\ ack.data = bus[u].data /\ ack.status
    <3> DEFINE t == chip.tok
               known == bus[u]
    <3>1. t.urb = u /\ t.pid = pid /\ t.room = room /\ ack = Acknowledge(t, r.n)
          /\ known = bus[t.urb] /\ most = dev.urb[t.urb].len + 1
      BY <2>3, <2>a
    <3> HIDE DEF t, known
    <3>2. /\ t.pid = "SETUP" => ack.setup /\ ack.data = 0
          /\ t.pid = "IN" => ack.setup = known.setup /\ ack.data = Least(known.data + r.n, most)
          /\ t.pid = "OUT" => ack.setup = known.setup /\ ack.data = Least(known.data + t.room, most)
          /\ t.pid = "ACK" => ack.setup = known.setup /\ ack.data = known.data /\ ack.status
      BY <1>3, <1>13, <2>3, <2>4, <3>1, AcknowledgeIs
    <3> QED
      BY <3>1, <3>2 DEF known
  <2>7. UrbData(World, open, None, u)
    BY SMTT(30), <1>8, <1>9, <1>13 DEF DataInv
  <2>8. /\ Agree(World, u) /\ core.actual[u] \in 0 .. dev.urb[u].len
        /\ u \notin open
    <3>1. EpOf(u) # None
      BY <1>13, UrbEp, Sl811ScheduleAssumption
    <3> QED
      BY <1>3, <1>12, <1>13, <2>7, <3>1 DEF UrbData, e, u, open
  <2>9. WillAgree(y, u)
    <3> DEFINE known == bus[u]
               n == core.actual[u]
    <3>1. /\ n = World.core.actual[u] /\ known = World.bus[u]
          /\ World.hc.pid[EpOf(u)] = pid /\ room = Room(World, EpOf(u), u)
          /\ y.core = World.core /\ y.hc.pid = World.hc.pid /\ y.chip.tok.room = room
          /\ y.chip.res.n = r.n /\ ack = y.bus[u] /\ World.core.actual[u] \in 0 .. dev.urb[u].len
      BY <1>3, <1>7, <1>13, <2>3, <2>5, <2>8, <2>a
    <3>2. /\ pid = "SETUP" => ack.setup /\ ack.data = 0
          /\ pid = "IN" => ack.setup = known.setup /\ ack.data = Least(known.data + r.n, most)
          /\ pid = "OUT" => ack.setup = known.setup /\ ack.data = Least(known.data + room, most)
          /\ pid = "ACK" => ack.setup = known.setup /\ ack.data = known.data /\ ack.status
      BY <2>6
    <3> HIDE DEF known, n
    <3> QED
      BY <1>3, <1>13, <2>3, <2>4, <2>8, <2>a, <3>1, <3>2, AcknowledgedAgrees
  <2>10. UrbData(y, open, e, u)
    <3>1. First(y, u) /\ Queued(y.core, u)
      BY <1>3, <1>7, <1>13 DEF First
    <3>2. y.core.actual[u] \in 0 .. dev.urb[u].len
      BY <1>7, <2>8
    <3> QED
      BY <1>13, <2>8, <2>9, <3>1, <3>2 DEF UrbData
  <2>11. ASSUME NEW x \in Urbs, x # u PROVE UrbData(y, open, e, x)
    <3>1. UrbData(World, open, None, x)
      BY <1>8, <1>9 DEF DataInv
    <3>2. y.core = World.core /\ y.hc.pid = World.hc.pid /\ y.bus[x] = World.bus[x]
      BY <1>3, <1>7, <2>5, <2>11
    <3>3. First(World, u) /\ e = EpOf(u)
      BY <1>13
    <3> QED
      BY <2>11, <3>1, <3>2, <3>3, OthersUntouched
  <2>12. PidData(y, open)
    <3>1. PidData(World, open)
      BY <1>8 DEF DataInv
    <3> QED
      BY <1>3, <1>7, <3>1 DEF PidData, Begins
  <2>13. DataInv(y, open, e)
    BY <2>10, <2>11, <2>12 DEF DataInv
  <2> QED
    BY <1>1, <1>7, <1>14, <2>1, <2>13, ExactTo DEF Exact, open
<1> QED
  BY <1>15, <1>16

(* Every step of the chip and its device.                                  *)
LEMMA ChipStepExact ==
    ASSUME DevOK, Orderly, Good(World, core.calls), ~oops, Exact(World, core.calls), Chip
    PROVE  Exact(World, core.calls)'
BY AnswerExact, KickedExact, FrameExact, PlugExact, LoseDoneExact, OverdueExact DEF Chip

(* An URB is unlinked: its status is all that changes.                     *)
LEMMA UnlinkedData ==
    ASSUME NEW w, NEW y, NEW open, NEW told, DataInv(w, open, told), NEW u \in Urbs,
           Queued(w.core, u), y.core.q = w.core.q, y.core.actual = w.core.actual,
           y.bus = w.bus, y.hc = w.hc, y.chip = w.chip, y.core.status[u] = "unlinked",
           \A x \in Urbs : x # u => y.core.status[x] = w.core.status[x]
    PROVE  DataInv(y, open, told)
<1>1. PidData(y, open)
  BY DEF DataInv, PidData, Begins
<1>2. ASSUME NEW x \in Urbs PROVE UrbData(y, open, told, x)
  <2>1. UrbData(w, open, told, x)
    BY DEF DataInv
  <2>2. (Queued(y.core, x) <=> Queued(w.core, x)) /\ (First(y, x) <=> First(w, x))
    BY DEF First, Queued
  <2>3. CASE x # u
    BY <2>1, <2>2, <2>3, UrbStays
  <2>4. CASE x = u
    <3>1. Fresh(w, u) => Fresh(y, u)
      BY DEF Fresh
    <3>2. AckAgrees(w, u) => AckAgrees(y, u)
      BY DEF AckAgrees
    <3>3. Agree(w, u) => Agree(y, u)
      BY <3>2 DEF Agree
    <3>4. WillAgree(w, u) => WillAgree(y, u)
      BY <3>2 DEF WillAgree
    <3> QED
      BY <2>1, <2>2, <2>4, <3>1, <3>3, <3>4 DEF UrbData
  <2> QED
    BY <2>3, <2>4
<1> QED
  BY <1>1, <1>2 DEF DataInv

(* usb_unlink_urb leaves the packet under way to be judged as before.      *)
LEMMA UnlinkExact ==
    ASSUME DevOK, Orderly, Good(World, core.calls), ~oops, Exact(World, core.calls),
           NEW u \in Urbs, Unlink(u)
    PROVE  Exact(World, core.calls)'
<1>1. PICK y : Becomes(y) /\ Good(y, core.calls)
  BY UnlinkGood
<1>2. /\ World.hc = hc /\ World.core = core /\ World.chip = chip /\ World.bus = bus
      /\ core \in CoreTypes
  BY WorldFacts
<1> DEFINE S == [core.status EXCEPT ![u] = "unlinked"]
<1>3. core' = [core EXCEPT !.status = S] /\ UNCHANGED <<dev, hc, chip, bus, oops>> /\ Queued(core, u)
  BY DEF Unlink
<1>4. S[u] = "unlinked" /\ \A x \in Urbs : x # u => S[x] = core.status[x]
  BY <1>2 DEF CoreTypes
<1> HIDE DEF S
<1>5. core'.q = core.q /\ core'.actual = core.actual /\ core'.status = S
  BY <1>2, <1>3 DEF CoreTypes
<1>6. /\ y.hc = World.hc /\ y.chip = World.chip /\ y.bus = World.bus
      /\ y.core.q = World.core.q /\ y.core.actual = World.core.actual /\ y.core.status = S
      /\ y \in Worlds /\ y.core.calls = core.calls
  BY <1>1, <1>2, <1>3, <1>5, GoodWorld DEF Becomes
<1> DEFINE told == Untold(World)
<1>7. DataInv(World, core.calls, told) /\ PacketInv(World)
  BY DEF Exact
<1>8. Untold(y) = told
  BY <1>6 DEF Untold
<1> HIDE DEF told
<1>9. DataInv(y, core.calls, told)
  BY <1>2, <1>3, <1>4, <1>6, <1>7, UnlinkedData
<1>10. PacketInv(y)
  BY <1>6, <1>7, PacketSame
<1> QED
  BY <1>1, <1>6, <1>8, <1>9, <1>10, ExactTo DEF Exact

(* usbcore's linking leaves the packet under way alone.                    *)
LEMMA LinkPacket ==
    ASSUME DevOK, NEW w, Sane(w), QueuesInv(w.core), NEW u \in Urbs, ~Queued(w.core, u), PacketInv(w),
           NEW open, ActiveInv(w.hc, w.core, open), ~Happens("overtake"),
           w.chip.tok.pid = "SOF" => ~w.chip.armed /\ "DONE_A" \notin w.chip.pend,
           NEW y, y = Link(w, u)
    PROVE  PacketInv(y)
<1>1. y.hc = w.hc /\ y.chip = w.chip
  BY LinkFacts
<1>2. CASE w.hc.active = None
  BY SMTT(30), <1>1, <1>2 DEF PacketInv
<1>3. CASE w.hc.active # None
  <2> DEFINE e == w.hc.active
             h == Head(w.core.q[e])
  <2>1. e \in Ep /\ w.core.q[e] # <<>> /\ w \in Worlds
    BY <1>3 DEF ActiveInv, Sane, MadeInv, Made
  <2>2. h \in Urbs /\ EpOf(h) = e /\ First(w, h) /\ Queued(w.core, h)
    <3>1. h = Head(w.core.q[e])
      OBVIOUS
    <3> HIDE DEF e, h
    <3> QED
      BY <2>1, <3>1, FirstOf
  <2>3. h # u
    BY SMTT(30), <2>2
  <2>4. First(y, h)
    BY SMTT(30), <2>2, <2>3, LinkQueues
  <2>5. Head(y.core.q[e]) = h
    BY <2>2, <2>4 DEF First
  <2>6. y.core.actual[h] = w.core.actual[h]
    <3>1. \A x \in Urbs : x # u => y.core.actual[x] = w.core.actual[x]
      BY LinkFacts
    <3> HIDE DEF e, h
    <3> QED
      BY <2>2, <2>3, <3>1
  <2>7. w.chip.armed => "DONE_A" \notin w.chip.pend
    BY <1>3 DEF PacketInv
  <2> QED
    BY <1>1, <1>3, <2>5, <2>6, <2>7, PacketStays
<1> QED
  BY <1>2, <1>3

(* A driver submits an URB, ...                                            *)
LEMMA SubmitExact ==
    ASSUME DevOK, Orderly, Good(World, core.calls), ~oops, Exact(World, core.calls),
           NEW u \in Urbs, Submit(u)
    PROVE  Exact(World, core.calls)'
<1> DEFINE z == Link(World, u)
           one == {u}
           y == Calling(z, one)
           none == {}
           told == Untold(World)
<1>1. /\ chip.tok.pid # "none" /\ ~Queued(core, u) /\ core.calls = {} /\ Becomes(y)
      /\ chip.tok.pid = "SOF" => ~chip.armed /\ "DONE_A" \notin chip.pend
  BY DEF Submit, Calling
<1>2. /\ World.hc = hc /\ World.core = core /\ World.chip = chip /\ World.oops = oops
      /\ World \in Worlds /\ Sane(World)
      /\ KeptInv(World, core.calls, {}) /\ ActiveInv(hc, core, core.calls)
  BY WorldFacts
<1>3. DataInv(World, core.calls, told) /\ PacketInv(World)
  BY DEF Exact
<1>z. z = Link(World, u)
  OBVIOUS
<1>y. y = Calling(z, one)
  OBVIOUS
<1>n. none \in SUBSET Urbs /\ none = core.calls /\ none \union {u} = one /\ one \in SUBSET Urbs
      /\ u \notin none
  BY <1>1
<1>4. QueuesInv(World.core)
  BY <1>2 DEF KeptInv
<1> HIDE DEF y, z, none, one
<1>5. /\ Sane(z) /\ z.chip = World.chip /\ z.hc = World.hc
  BY <1>2, <1>z, LinkFacts
<1>6. told = Untold(z)
  BY <1>5 DEF Untold
<1> HIDE DEF told
<1>7. DataInv(z, none \union {u}, told)
  BY <1>1, <1>2, <1>3, <1>4, <1>n, <1>z, LinkData
<1>8. DataInv(z, one, told)
  BY <1>7, <1>n
<1>9. PacketInv(z)
  <2>1. ~Queued(World.core, u) /\ ~Happens("overtake") /\ ActiveInv(World.hc, World.core, core.calls)
        /\ (World.chip.tok.pid = "SOF" => ~World.chip.armed /\ "DONE_A" \notin World.chip.pend)
    BY <1>1, <1>2, OrderlyFacts
  <2> QED
    BY <1>2, <1>3, <1>4, <1>z, <2>1, LinkPacket
<1>10. /\ y \in Worlds /\ y.core.calls = one /\ y.hc = z.hc /\ y.chip = z.chip /\ y.bus = z.bus
       /\ y.core.q = z.core.q /\ y.core.status = z.core.status /\ y.core.actual = z.core.actual
  <2> DEFINE c == [z.core EXCEPT !.calls = one]
  <2>1. z \in Worlds /\ z.core \in CoreTypes
    BY <1>5 DEF Sane, Worlds
  <2>2. /\ c \in CoreTypes /\ c.calls = one /\ c.q = z.core.q /\ c.status = z.core.status
        /\ c.actual = z.core.actual
    BY <1>n, <2>1 DEF CoreTypes
  <2>3. y = [z EXCEPT !.core = c]
    BY <1>y DEF Calling
  <2> HIDE DEF c
  <2> QED
    BY <2>1, <2>2, <2>3 DEF Worlds
<1>11. DataInv(y, one, told)
  BY <1>8, <1>10, DataSame
<1>12. PacketInv(y)
  BY <1>9, <1>10, PacketSame
<1>13. Untold(y) = told
  BY <1>6, <1>10 DEF Untold
<1> QED
  BY <1>1, <1>10, <1>11, <1>12, <1>13, ExactTo DEF Exact

(* ... and urb_enqueue takes it or not.                                    *)
LEMMA UrbEnqueueExact ==
    ASSUME DevOK, Orderly, Good(World, core.calls), ~oops, Exact(World, core.calls),
           Single(core.calls), NEW u \in Urbs, UrbEnqueue(u)
    PROVE  Exact(World, core.calls)'
<1> DEFINE w == Calling(World, {})
           none == {}
           one == {u}
           told == Untold(World)
<1>1. PICK y \in EnqueueLinked(w, u) : Becomes(y)
  BY DEF UrbEnqueue, Calling
<1>2. /\ World.oops = oops /\ Sane(World) /\ World.hc = hc /\ World.core = core
      /\ World \in Worlds
      /\ KeptInv(World, core.calls, {}) /\ ActiveInv(hc, core, core.calls)
  BY WorldFacts
<1>3. /\ core.calls = none \union {u} /\ none = {} /\ none \in SUBSET Urbs
      /\ core.calls = one /\ one = {u} /\ none \union {u} = one /\ u \notin none
  BY DEF Single, UrbEnqueue
<1>w. w = Calling(World, none)
  OBVIOUS
<1>4. DataInv(World, one, told) /\ PacketInv(World)
  BY <1>3 DEF Exact
<1>5. told # None => told = World.hc.active
  BY DEF Untold
<1> HIDE DEF w, none, one
<1>6. KeptInv(World, none \union {u}, {}) /\ ActiveInv(World.hc, World.core, none \union {u})
  BY <1>2, <1>3
<1>7. /\ Sane(w) /\ KeptInv(w, none \union {u}, {}) /\ w.oops = World.oops /\ w.core.calls = none
      /\ w.hc = World.hc /\ w.chip = World.chip /\ w.bus = World.bus
      /\ w.core.q = World.core.q /\ w.core.status = World.core.status
      /\ ActiveInv(w.hc, w.core, none \union {u})
  BY <1>2, <1>3, <1>6, <1>w, CallingFacts
<1>8. w.core.actual = World.core.actual
  BY <1>2, <1>w DEF Calling, Worlds, CoreTypes
<1>9. Untold(w) = told
  BY <1>7 DEF Untold
<1> HIDE DEF told
<1>10. DataInv(w, one, told)
  BY <1>4, <1>7, <1>8, DataSame
<1>11. PacketInv(w)
  BY <1>4, <1>7, <1>8, PacketSame
<1>12. KeptInv(w, one, {}) /\ ActiveInv(w.hc, w.core, one)
  BY <1>3, <1>7
<1>13. Queued(w.core, u) /\ w.core.status[u] = "busy"
  <2>1. u \in one
    BY <1>3
  <2> QED
    BY <1>12, <2>1, OrderlyFacts DEF KeptInv, OpenInv
<1>14. y \in Enqueue(w, u)
  BY <1>1, <1>13 DEF EnqueueLinked
<1>15. Enqueued(y, w, u, none, {})
  <2>1. Happens("overtake") \/ none = {}
    BY <1>3
  <2> QED
    BY <1>2, <1>3, <1>7, <1>13, <1>14, <2>1, EnqueueKeeps
<1>16. DataInv(y, none, told)
  BY <1>3, <1>5, <1>7, <1>10, <1>12, <1>13, <1>15, EnqueueData
<1>17. PacketInv(y)
  BY <1>3, <1>7, <1>11, <1>12, <1>13, <1>15, EnqueuePacket
<1>18. /\ Sane(y) /\ y.core.calls = w.core.calls
       /\ \/ y.chip = w.chip /\ y.hc.active = w.hc.active
          \/ w.hc.active = None /\ \E e \in Made(y.hc) : Issued(y, e)
  BY <1>15, EnqueuedFacts
<1>19. Untold(y) = told
  BY <1>9, <1>18 DEF Untold, Issued
<1>20. Exact(y, y.core.calls) /\ y \in Worlds
  BY <1>7, <1>16, <1>17, <1>18, <1>19 DEF Exact, Sane
<1> QED
  BY <1>1, <1>20, ExactTo

(* Of a device that only unlinks, errs, loses and overruns, what the       *)
(* driver says of URBs is what the device knows.                           *)
ExactInv == Orderly => Exact(World, core.calls)

(* Before anything is plugged in there is nothing to say.                  *)
LEMMA InitExact == ASSUME Init PROVE ExactInv
<1>1. /\ World.hc = hc /\ World.core = core /\ World.chip = chip /\ World.bus = bus
  BY DEF World
<1>2. /\ hc.active = None /\ hc.alloc = [e \in Ep |-> FALSE]
      /\ core.q = [e \in Ep |-> <<>>] /\ core.status = [u \in Urbs |-> "new"]
      /\ core.actual = [u \in Urbs |-> 0] /\ chip.armed = FALSE /\ chip.pend = {} /\ core.calls = {}
  BY DEF Init
<1>3. DevOK
  BY DEF Init, DevOK
<1>4. Untold(World) = None
  BY <1>1, <1>2 DEF Untold
<1>5. PacketInv(World)
  BY <1>1, <1>2 DEF PacketInv
<1>6. \A u \in Urbs : EpOf(u) \in Ep /\ core.q[EpOf(u)] = <<>> /\ ~hc.alloc[EpOf(u)]
  BY <1>2, <1>3, UrbEp
<1>7. PidData(World, core.calls)
  BY <1>1, <1>6 DEF PidData
<1>8. ASSUME NEW u \in Urbs PROVE UrbData(World, core.calls, None, u)
  <2>1. World.core.actual[u] \in 0 .. dev.urb[u].len
    <3>1. dev.urb[u].len \in Nat
      BY <1>3, DeviceFacts
    <3> QED
      BY <1>1, <1>2, <3>1
  <2>2. ~Queued(World.core, u) /\ ~First(World, u)
    BY <1>1, <1>6, EmptyLists DEF Queued, First
  <2>3. World.core.status[u] # "ok"
    BY <1>1, <1>2
  <2> QED
    BY <2>1, <2>2, <2>3 DEF UrbData
<1> QED
  BY <1>4, <1>5, <1>7, <1>8 DEF ExactInv, Exact, DataInv

(* Every step keeps it.                                                    *)
LEMMA NextExact ==
    ASSUME SlInv, Orderly, Exact(World, core.calls), Next
    PROVE  Exact(World, core.calls)'
<1>1. DevOK /\ Good(World, core.calls) /\ Single(core.calls)
  BY DEF SlInv
<1>2. ~oops /\ ~Happens("overtake") /\ ~Happens("plug")
  BY OrderlyFacts DEF Next
<1>3. ASSUME NEW u \in Urbs, Submit(u) PROVE Exact(World, core.calls)'
  BY <1>1, <1>2, <1>3, SubmitExact
<1>4. ASSUME NEW u \in Urbs, UrbEnqueue(u) PROVE Exact(World, core.calls)'
  BY <1>1, <1>2, <1>4, UrbEnqueueExact
<1>5. ASSUME NEW u \in Urbs, Unlink(u) PROVE Exact(World, core.calls)'
  BY <1>1, <1>2, <1>5, UnlinkExact
<1>6. ASSUME NEW e \in Ep PROVE ~Close(e) /\ ~EndpointDisable(e)
  <2>1. ~Close(e)
    BY <1>2 DEF Close, Happens
  <2>2. core.closed = {}
    BY <1>1, <1>2, WorldFacts DEF PortInv
  <2> QED
    BY <2>1, <2>2 DEF EndpointDisable
<1>7. ASSUME Irq, core.calls = {} PROVE Exact(World, core.calls)'
  <2>1. PICK y : Becomes(y) /\ Good(y, core.calls) /\ Exact(y, core.calls)
    BY <1>1, <1>2, <1>7, IrqExact
  <2>2. y \in Worlds /\ y.core.calls = core.calls
    BY <2>1, GoodWorld
  <2> QED
    BY <2>1, <2>2, ExactTo
<1>8. CASE Timer
  BY <1>1, <1>2, <1>8, TimerExact
<1>9. CASE HubDriver
  BY <1>1, <1>2, <1>9, HubDriverExact
<1>10. CASE Chip
  BY <1>1, <1>2, <1>10, ChipStepExact
<1> QED
  BY <1>2, <1>3, <1>4, <1>5, <1>6, <1>7, <1>8, <1>9, <1>10 DEF Next, Driver, Happens

(* The step of the induction.                                              *)
LEMMA StepExact == ASSUME SlInv, ExactInv, [Next]_vars PROVE ExactInv'
<1>1. CASE UNCHANGED vars
  <2>1. World \in Worlds
    BY DEF SlInv, Good, Sane
  <2>2. Becomes(World) /\ World.core.calls = core.calls /\ Orderly' = Orderly
    BY <1>1 DEF Becomes, World, vars, Orderly
  <2> QED
    BY <2>1, <2>2, ExactTo DEF ExactInv
<1>2. CASE Next
  <2>1. Orderly' = Orderly
    BY <1>2, NextDevice DEF Orderly
  <2> QED
    BY <1>2, <2>1, NextExact DEF ExactInv
<1> QED
  BY <1>1, <1>2

(* The bookkeeping of sl811_hcd is exact at every moment: for every URB,   *)
(* nextpid and actual_length                                               *)
(* (src/org.handhelds.familiar/packages/cfu1/files/sl811_hcd.c, done) tell *)
(* what the device acknowledged of it, or will tell when the packet that   *)
(* was acknowledged is judged; and the packet under way is that of the     *)
(* first URB of active_a.                                                  *)
THEOREM ExactInvariant == Spec => [](SlInv /\ ExactInv)
<1>1. Init => SlInv /\ ExactInv
  BY InitGood, InitExact
<1>2. SlInv /\ ExactInv /\ [Next]_vars => (SlInv /\ ExactInv)'
  BY StepGood, StepExact
<1> QED
  BY <1>1, <1>2, PTL DEF Spec

(* What done() judges is the packet it thinks, whatever is unlinked, fails,*)
(* is lost or overruns: the one under way is of the first URB of active_a  *)
(* and of the kind of its nextpid, and no packet is under way that nobody  *)
(* waits for (start, done and checkdone).                                  *)
THEOREM PacketIsRight == Spec => []PacketIsTheActiveOne
<1>1. SlInv /\ ExactInv => PacketIsTheActiveOne
  <2> SUFFICES ASSUME SlInv, ExactInv, Orderly PROVE PacketIsTheActiveOne
    BY DEF PacketIsTheActiveOne
  <2>1. World.hc = hc /\ World.core = core /\ World.chip = chip /\ World.oops = oops
    BY DEF World
  <2>2. PacketInv(World)
    BY DEF ExactInv, Exact
  <2>3. hc.active # None => core.q[hc.active] # <<>>
    BY <2>1, OrderlyFacts DEF SlInv, Good, ActiveInv
  <2> QED
    BY <2>1, <2>2, <2>3 DEF PacketInv, PacketIsTheActiveOne
<1> QED
  BY <1>1, ExactInvariant, PTL

(* An URB that finish_request gives back with status 0 was acknowledged by *)
(* the device, its SETUP, as many bytes as actual_length says and its      *)
(* STATUS packet, and actual_length never exceeds the buffer (done).       *)
THEOREM OkIsDelivered == Spec => []OkMeansDelivered
<1>1. SlInv /\ ExactInv => OkMeansDelivered
  <2> SUFFICES ASSUME ExactInv, Orderly, NEW u \in Urbs
               PROVE  /\ core.actual[u] \in 0 .. dev.urb[u].len
                      /\ core.status[u] = "ok" /\ ~Queued(core, u) => Delivered(u)
    BY DEF OkMeansDelivered
  <2>1. World.core = core /\ World.bus = bus
    BY DEF World
  <2>2. UrbData(World, core.calls, Untold(World), u)
    BY DEF ExactInv, Exact, DataInv
  <2> QED
    BY <2>1, <2>2 DEF UrbData, DeliveredOf, Delivered
<1> QED
  BY <1>1, ExactInvariant, PTL

=============================================================================
