----------------------------- MODULE MCNetwork -----------------------------
(* Rings of three descriptors, so that two frames fill one, and a buffer   *)
(* for the RTL8139 whose end its frames, of two lengths, may meet or pass. *)
EXTENDS Network

MCReceived == {"request", "reply", "lease"}
MCArriving == [intel |-> {"reply", "lease"}, rtl |-> {"request", "lease"}]
MCSent     == {"arp", "ip"}
=============================================================================
