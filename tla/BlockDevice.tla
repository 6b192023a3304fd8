---------------------------- MODULE BlockDevice ----------------------------
(***************************************************************************)
(* What the SATA driver of cosmos_ahci.cpp promises its callers.  One      *)
(* request at a time is begun at a port and then answered.  The answer     *)
(* "ok" means that the request was carried out, as long as the port is     *)
(* trusted.  A port is not trusted when a request to it was given up, or   *)
(* when it did not come up at its last reset: what was given up may still  *)
(* be carried out, with the buffer of another request, and the answers     *)
(* mean nothing.  A reset after which the port comes up puts that right.   *)
(***************************************************************************)
CONSTANTS
  Ports, Lbas, Bufs, Contents,
  Zero,            (* one of the Contents: nothing that matters            *)
  Requests,        (* records with the fields op, lba and buf              *)
  NoPort           (* not one of the Ports: nothing is being worked on       *)

VARIABLES
  disk, mem,   (* disk[p][l] and mem[b]: contents                          *)
  owed,        (* owed[p]: the requests that may still be carried out      *)
  trusted,     (* the ports whose answers mean something                   *)
  current,     (* the port of the request that is worked on, or NoPort     *)
  carried      (* that request has been carried out                        *)

vars == <<disk, mem, owed, trusted, current, carried>>

Init ==
  /\ disk \in [Ports -> [Lbas -> Contents]] /\ mem \in [Bufs -> Contents]
  /\ owed = [p \in Ports |-> {}] /\ trusted = {}
  /\ current = NoPort /\ carried = FALSE

\* The requests of S, each with the buffer of any of them.
Mixed(S) == {r \in Requests : \E a, b \in S : r = [a EXCEPT !.buf = b.buf]}

(* The callers prepare and read their buffers between two requests.        *)
UseBuffers == current = NoPort /\ mem' \in [Bufs -> Contents]

Begin(p, r) ==
  /\ UseBuffers
  /\ current' = p /\ carried' = FALSE
  /\ r \in owed'[p] /\ owed'[p] \subseteq Mixed(owed[p] \cup {r})
  /\ owed' = [owed EXCEPT ![p] = owed'[p]]
  /\ UNCHANGED <<disk, trusted>>

(* One of the requests is carried out.  Others may be forgotten with it.   *)
CarryOut(p) ==
  /\ \E r \in owed[p] :
       /\ disk' = IF r.op # "write" THEN disk
                  ELSE [disk EXCEPT ![p][r.lba] = IF r.buf \in Bufs THEN mem[r.buf] ELSE Zero]
       /\ mem' = [b \in Bufs |-> IF b # r.buf \/ r.op = "write" THEN mem[b]
                                 ELSE IF r.op = "read" THEN disk[p][r.lba] ELSE Zero]
  /\ carried' \in (IF p = current THEN BOOLEAN ELSE {carried})
  /\ owed'[p] \subseteq owed[p] /\ owed' = [owed EXCEPT ![p] = owed'[p]]
  /\ UNCHANGED <<trusted, current>>

(* A request may be lost, in which case its answer cannot be "ok".         *)
Forget(p) ==
  /\ owed'[p] \subseteq owed[p] /\ owed' = [owed EXCEPT ![p] = owed'[p]]
  /\ UNCHANGED <<disk, mem, trusted, current, carried>>

(* A trusted port owes nothing once it has answered.                       *)
Answer(ok) ==
  /\ current # NoPort /\ current' = NoPort
  /\ ok /\ current \in trusted' => carried
  /\ trusted' \in {trusted, trusted \ {current}}
  /\ ok => trusted' = trusted
  /\ owed'[current] \subseteq owed[current]
  /\ current \in trusted' => owed'[current] = {}
  /\ owed' = [owed EXCEPT ![current] = owed'[current]]
  /\ carried' = FALSE
  /\ UNCHANGED <<disk, mem>>

ResetUp(p, r) ==
  /\ UseBuffers
  /\ trusted' = trusted \cup {p}
  /\ owed' = [owed EXCEPT ![p] = {r}]
  /\ current' = p /\ carried' = FALSE
  /\ UNCHANGED disk

ResetDown(p) ==
  /\ current = NoPort
  /\ trusted' = trusted \ {p}
  /\ owed' = [owed EXCEPT ![p] = {}]
  /\ UNCHANGED <<disk, mem, current, carried>>

Next ==
  \/ \E p \in Ports, r \in Requests : Begin(p, r) \/ ResetUp(p, r)
  \/ \E p \in Ports : CarryOut(p) \/ Forget(p) \/ ResetDown(p)
  \/ \E ok \in BOOLEAN : Answer(ok)

Spec == Init /\ [][Next]_vars
=============================================================================
