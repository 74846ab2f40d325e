------------------------------ MODULE MCUsbIo ------------------------------
(* UsbIo for TLC: two source addresses, transfers with and without frames. *)
EXTENDS UsbIo

CONSTANTS m1, m2

MCMacs == {m1, m2}

F(s, t) == [src |-> s, type |-> t]

\* An empty transfer; a burst of two ARP requests; an IP frame between frames
\* nothing is done with; a broadcast frame followed by one of another host.
MCTransfers ==
  { <<>>,
    <<F(m1, "arpReq"), F(m1, "arpReq")>>,
    <<F(m1, "runt"), F(m1, "ip"), F(m2, "other")>>,
    <<F(Broadcast, "arp"), F(m2, "ip")>> }
=============================================================================
