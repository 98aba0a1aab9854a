--------------------------- MODULE Sl811Schedule ---------------------------
(***************************************************************************)
(* The two schedules of the SL811HS USB host driver                        *)
(* (packages/cfu1/files/sl811_hcd.c): the list `async` of control and bulk *)
(* endpoints, served round robin, and the table `periodic` of PERIODIC_SIZE*)
(* frames of interrupt endpoints.                                          *)
(*                                                                         *)
(* An interrupt endpoint of period p and branch b is in the chains of the  *)
(* frames b, b+p, b+2p ..., but it has one `next` pointer: the chains share*)
(* their tails.  Every operator takes the driver's state h, a record with  *)
(* the fields of struct sl811 and of struct sl811h_ep (a function of the   *)
(* endpoint), and the endpoints' descriptors d, and returns the new state. *)
(***************************************************************************)
EXTENDS Integers, Sequences, FiniteSets

CONSTANTS
    Ep,                 \* endpoints
    None,               \* the NULL pointer
    PeriodicSize,       \* PERIODIC_SIZE, a power of two (32 in the code)
    MaxPeriodicLoad     \* MAX_PERIODIC_LOAD, microseconds of a frame (500 in the code)

ASSUME Sl811ScheduleAssumption ==
    /\ IsFiniteSet(Ep)
    /\ None \notin Ep
    /\ PeriodicSize \in Nat \ {0, 1}
    /\ MaxPeriodicLoad \in Nat

Slots == 0 .. PeriodicSize - 1

(* The frames in which an endpoint of this period and branch is due: the   *)
(* `for (i = ep->branch; i < PERIODIC_SIZE; i += ep->period)` of the code. *)
DueSlots(period, branch) ==
    {i \in Slots : i >= branch /\ (i - branch) % period = 0}

(* Lists of the kernel (struct list_head): list_del_init leaves a list that *)
(* does not have x as it is.                                               *)
OnList(s, x) == \E n \in DOMAIN s : s[n] = x

Without(s, x) ==
    IF ~OnList(s, x) THEN s
    ELSE LET n == CHOOSE n \in DOMAIN s : s[n] = x
         IN  [k \in 1 .. Len(s) - 1 |-> IF k < n THEN s[k] ELSE s[k + 1]]

Follow(h, p) == IF p = None THEN None ELSE h.next[p]

(* The endpoints that the pointers of a frame lead to, in order.           *)
Chain(h, i) ==
    LET at[k \in 0 .. Cardinality(Ep)] ==
            IF k = 0 THEN h.periodic[i] ELSE Follow(h, at[k - 1])
        length == CHOOSE n \in 0 .. Cardinality(Ep) + 1 :
                    \A k \in 0 .. Cardinality(Ep) : at[k] # None <=> k < n
    IN  [k \in 1 .. length |-> at[k - 1]]

(* balance: the first least loaded branch among those of the period that   *)
(* have enough bandwidth left, or none.                                    *)
Branches(h, period, load) ==
    LET fits == {i \in 0 .. period - 1 :
                    \A j \in DueSlots(period, i) : h.load[j] + load <= MaxPeriodicLoad}
    IN  {i \in fits : \A j \in fits : h.load[i] < h.load[j] \/ (h.load[i] = h.load[j] /\ i <= j)}

(* Put the pointer that follows the first k elements of chain i to e.      *)
PointTo(h, i, k, e) ==
    IF k = 0 THEN [h EXCEPT !.periodic[i] = e]
    ELSE [h EXCEPT !.next[Chain(h, i)[k]] = e]

(* Mutant: the endpoint comes first in every chain.                        *)
InsertFirst(h, i, e, d) ==
    IF OnList(Chain(h, i), e) THEN h
    ELSE PointTo([h EXCEPT !.next[e] = h.periodic[i]], i, 0, e)

(* The walk of urb_enqueue down one chain: past the endpoints as slow as e *)
(* or slower, to e itself or to the place where e belongs.                 *)
InsertInSlot(h, i, e, d) ==
    LET c == Chain(h, i)
        k == CHOOSE n \in 0 .. Len(c) :
                /\ \A m \in 1 .. n : c[m] # e /\ d[c[m]].period >= d[e].period
                /\ n = Len(c) \/ c[n + 1] = e \/ d[c[n + 1]].period < d[e].period
        here == IF k = Len(c) THEN None ELSE c[k + 1]
    IN  IF here = e THEN h
        ELSE PointTo([h EXCEPT !.next[e] = here], i, k, e)

(* The pointer to e in one chain goes to what follows e.                   *)
RemoveFromSlot(h, i, e) ==
    LET c == Chain(h, i)
    IN  IF OnList(c, e)
        THEN PointTo(h, i, (CHOOSE n \in DOMAIN c : c[n] = e) - 1, h.next[e])
        ELSE h

(* The loops of urb_enqueue and finish_request over an endpoint's frames.  *)
LinkSlot(h, i, e, d, slots) == IF i \in slots THEN InsertInSlot(h, i, e, d) ELSE h

LinkSlots(h, e, d, slots) ==
    LET after[n \in 0 .. PeriodicSize] ==
            IF n = 0 THEN h ELSE LinkSlot(after[n - 1], n - 1, e, d, slots)
    IN  after[PeriodicSize]

UnlinkSlot(h, i, e, slots) == IF i \in slots THEN RemoveFromSlot(h, i, e) ELSE h

UnlinkSlots(h, e, slots) ==
    LET after[n \in 0 .. PeriodicSize] ==
            IF n = 0 THEN h ELSE UnlinkSlot(after[n - 1], n - 1, e, slots)
    IN  after[PeriodicSize]

SchedulePeriodic(h, e, d, b) ==
    LET due == DueSlots(d[e].period, b)
    IN  [LinkSlots(h, e, d, due) EXCEPT
            !.branch[e] = b,
            !.load = [i \in Slots |-> @[i] + (IF i \in due THEN d[e].load ELSE 0)],
            !.count = @ + 1,
            !.irqen = @ \union {"SOFINTR"}]

(* The periodic part of finish_request.                                    *)
DeschedulePeriodic(h, e, d) ==
    LET due == DueSlots(d[e].period, h.branch[e])
        unlinked == UnlinkSlots(h, e, due)
    IN  [unlinked EXCEPT
            !.branch[e] = PeriodicSize,
            !.load = [i \in Slots |-> @[i] - (IF i \in due THEN d[e].load ELSE 0)],
            !.count = @ - 1,
            !.nextp = IF @ = e THEN unlinked.next[e] ELSE @,
            !.irqen = IF h.count = 1 THEN @ \ {"SOFINTR"} ELSE @]

InAsync(h, e) == OnList(h.async, e)

ScheduleAsync(h, e) ==
    IF InAsync(h, e) THEN h ELSE [h EXCEPT !.async = Append(@, e)]

(* list_del_init, and the round restarts when e was next.                  *)
DescheduleAsync(h, e) ==
    [h EXCEPT !.async = Without(@, e),
              !.nexta = IF @ = e THEN None ELSE @]

(* Mutant: every round starts at the head of the list.                     *)
AfterAsyncRestarts(h, e) == None

(* The endpoint after e in the list, NULL at its end.                      *)
AfterAsync(h, e) ==
    LET n == CHOOSE i \in DOMAIN h.async : h.async[i] = e
    IN  IF n = Len(h.async) THEN None ELSE h.async[n + 1]

Scheduled(h, e) == InAsync(h, e) \/ h.branch[e] < PeriodicSize
=============================================================================
