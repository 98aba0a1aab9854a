------------------------------ MODULE MCSl811 ------------------------------
EXTENDS Sl811, TLC
CONSTANTS e1, e2, e3, u1, u2, u3, none

E(type, period, load) == [type |-> type, period |-> period, load |-> load, low |-> FALSE]
U(e, in, len) == [ep |-> e, in |-> in, len |-> len, zlp |-> FALSE, strict |-> FALSE]
Unused == E("bulk", 0, 0)

(* Two control transfers, a device that fails and a driver that unlinks.   *)
Control == [
    ep |-> e1 :> E("control", 0, 0) @@ e2 :> Unused @@ e3 :> Unused,
    urb |-> u1 :> U(e1, TRUE, 3) @@ u2 :> U(e1, FALSE, 2),
    env |-> {"error", "unlink"}]

(* Control and bulk endpoints that take turns.                             *)
Mixed == [
    ep |-> e1 :> E("control", 0, 0) @@ e2 :> E("bulk", 0, 0) @@ e3 :> Unused,
    urb |-> u1 :> U(e1, FALSE, 1) @@ u2 :> [U(e2, FALSE, 1) EXCEPT !.zlp = TRUE]
            @@ u3 :> [U(e2, FALSE, 2) EXCEPT !.zlp = TRUE],
    env |-> {"unlink"}]
Raced == [Mixed EXCEPT !.env = {"race"}]
Overtaken == [Mixed EXCEPT !.env = {"overtake"},
                    !.urb = u2 :> U(e2, TRUE, 1) @@ u3 :> [U(e2, TRUE, 2) EXCEPT !.strict = TRUE]]
Lossy == [Mixed EXCEPT !.env = {"lost"}, !.urb = u1 :> U(e1, FALSE, 1) @@ u3 :> U(e2, FALSE, 1)]
Slippery == [Lossy EXCEPT !.env = {"lost", "slip"}]

(* Three interrupt endpoints that do not all fit, each with its period.    *)
Frames == [
    ep |-> e1 :> E("interrupt", 2, 2) @@ e2 :> E("interrupt", 4, 3) @@ e3 :> E("interrupt", 1, 1),
    urb |-> u1 :> U(e1, FALSE, 1) @@ u2 :> U(e2, FALSE, 1) @@ u3 :> U(e3, FALSE, 1),
    env |-> {}]
Overrun == [Frames EXCEPT !.env = {"overrun"},
                          !.ep = e1 :> E("interrupt", 4, 2) @@ e2 :> E("interrupt", 4, 2)
                                 @@ e3 :> E("interrupt", 2, 2)]

(* A low-speed device: packets may find too little of a frame left.        *)
Low == [Mixed EXCEPT !.ep = e1 :> [E("control", 0, 0) EXCEPT !.low = TRUE] @@ e2 :> Unused
                            @@ e3 :> [E("interrupt", 2, 1) EXCEPT !.low = TRUE],
                     !.urb = u1 :> U(e1, FALSE, 1) @@ u3 :> U(e3, FALSE, 1)]

(* The port: unplugged and disabled, suspended, switched off.              *)
Plugs == [
    ep |-> e1 :> E("bulk", 0, 0) @@ e2 :> E("bulk", 0, 0) @@ e3 :> Unused,
    urb |-> u1 :> U(e1, FALSE, 1),
    env |-> {"plug"}]
Suspends == [Plugs EXCEPT !.env = {"suspend"}]
Powers == [Suspends EXCEPT !.env = {"power"}]

(* An interrupt endpoint over a suspend, and a port switched off between   *)
(* the linking of an URB and its urb_enqueue.                              *)
SuspendedFrames == [
    ep |-> e1 :> E("interrupt", 2, 1) @@ e2 :> Unused @@ e3 :> Unused,
    urb |-> u1 :> U(e1, TRUE, 1),
    env |-> {"suspend"}]
OvertakenPower == [
    ep |-> e1 :> E("bulk", 0, 0) @@ e2 :> Unused @@ e3 :> Unused,
    urb |-> u1 :> U(e1, FALSE, 1) @@ u2 :> U(e1, FALSE, 1),
    env |-> {"overtake", "power"}]

AllDevices == {Control, Mixed, Raced, Overtaken, Lossy, Slippery, Frames,
               Overrun, Low, Plugs, Suspends, Powers, SuspendedFrames, OvertakenPower}
OneRaced == {Raced}
=============================================================================
