------------------------------ MODULE AhciPort ------------------------------
(***************************************************************************)
(* The SATA driver of cosmos_ahci.cpp and the host bus adapter it drives.  *)
(* Each port has one command slot in memory (header, table and PRDT at     *)
(* fixed addresses) that the driver writes over for every request; setting *)
(* bit 0 of CI starts it.  The driver polls CI a million times and then    *)
(* gives up.  The command it gave up is still the adapter's: it may fetch  *)
(* the slot while the next request is being built there, move data long    *)
(* afterwards, and clear the CI bit the next request is waiting for.       *)
(*                                                                         *)
(* One processor runs the driver; the adapter's steps come in between.     *)
(***************************************************************************)
EXTENDS Naturals, FiniteSets

CONSTANTS
  Ports,       (* the implemented ports (PI)                               *)
  Lbas,        (* the sectors that are looked at; sector 0 is one          *)
  Bufs         (* the buffers whose contents matter                        *)

Scratch == 99  (* any other buffer, such as a port's own at 0x403000       *)
ASSUME PortsAssumption == Ports \subseteq 0 .. 31
ASSUME LbasAssumption  == 0 \in Lbas /\ Lbas \subseteq Nat
ASSUME BufsAssumption  == Scratch \notin Bufs

(* What a sector or a buffer holds: nothing (or nothing that matters), the *)
(* first contents of a sector, or what the user typed.                     *)
Zero           == <<>>
SectorOf(p, l) == <<p, l>>
Typed          == <<0, 0, 0>>
Contents == {Zero, Typed} \cup {SectorOf(p, l) : p \in Ports, l \in Lbas}

Requests == [op : {"read", "write", "identify"}, lba : Lbas, buf : Bufs \cup {Scratch}]
Read(l, b)     == [op |-> "read", lba |-> l, buf |-> b]
Write(l, b)    == [op |-> "write", lba |-> l, buf |-> b]
Identify       == [op |-> "identify", lba |-> 0, buf |-> Scratch]
NoRequest      == [op |-> "none", lba |-> 0, buf |-> Scratch]

VARIABLES
  engine,      (* the ports whose command engine runs (ST)                 *)
  tfes,        (* the ports whose IS says task file error                  *)
  halted,      (* the ports stopped by an error, CI set, until ST is cleared *)
  slot,        (* slot[p]: the command in memory, while it may be fetched  *)
  fetched,     (* fetched[p]: the command the adapter works on             *)
  disk, mem,   (* disk[p][l] and mem[b]: contents                          *)
  pc,          (* the driver: free, building, preparing, polling, waiting  *)
  port, cur,   (* the port and the request it works on                     *)
  answer,      (* what the last call returned, until its caller looked     *)
  trusted,     (* history: the ports that came up and owe no given-up work *)
  carried      (* history: cur has been carried out since it was begun     *)

hba    == <<engine, tfes, halted, fetched>>
driver == <<pc, port, cur, answer>>
portVars == <<hba, slot, disk, mem, driver, trusted, carried>>

PortInit ==
  /\ engine = {} /\ tfes = {} /\ halted = {}
  /\ slot = [p \in Ports |-> NoRequest] /\ fetched = slot
  /\ disk = [p \in Ports |-> [l \in Lbas |-> SectorOf(p, l)]]
  /\ mem = [b \in Bufs |-> Zero]
  /\ pc = "free" /\ answer = "none"
  /\ port \in Ports /\ cur = NoRequest
  /\ trusted = {} /\ carried = FALSE

\* Bit 0 of CI: a command waits, is worked on, or has stopped the port.
CI(p) == slot[p] # NoRequest \/ fetched[p] # NoRequest \/ p \in halted

(***************************************************************************)
(* The adapter.                                                            *)
(***************************************************************************)
Fetch(p) ==
  /\ slot[p] # NoRequest /\ fetched[p] = NoRequest /\ p \notin halted
  /\ fetched' = [fetched EXCEPT ![p] = slot[p]]
  /\ slot' = [slot EXCEPT ![p] = NoRequest]
  /\ UNCHANGED <<engine, tfes, halted, disk, mem, driver, trusted, carried>>

Held(b) == IF b \in Bufs THEN mem[b] ELSE Zero

Transfer(p) ==
  LET r == fetched[p] IN
  /\ r # NoRequest
  /\ disk' = IF r.op = "write" THEN [disk EXCEPT ![p][r.lba] = Held(r.buf)] ELSE disk
  /\ mem' = [b \in Bufs |-> IF b # r.buf \/ r.op = "write" THEN mem[b]
                            ELSE IF r.op = "read" THEN disk[p][r.lba] ELSE Zero]
  /\ fetched' = [fetched EXCEPT ![p] = NoRequest]
  /\ carried' = (carried \/ (pc # "free" /\ p = port /\ r = cur))
  /\ UNCHANGED <<engine, tfes, halted, slot, driver, trusted>>

(* An error.  A chip leaves CI set and halts; some emulators clear CI and  *)
(* go on.                                                                  *)
Fail(p) ==
  /\ fetched[p] # NoRequest
  /\ fetched' = [fetched EXCEPT ![p] = NoRequest]
  /\ tfes' = tfes \cup {p}
  /\ halted' \in {halted, halted \cup {p}}
  /\ UNCHANGED <<engine, slot, disk, mem, driver, trusted, carried>>

Adapter(p) == Fetch(p) \/ Transfer(p) \/ Fail(p)

(***************************************************************************)
(* The driver.  The command table is written before the PRDT: a slot that  *)
(* is fetched in between names the buffer of the command before.  A        *)
(* patient call is ahci_identify of OS2: it writes the PRDT first, clears  *)
(* IS, and polls without an end.                                           *)
(***************************************************************************)
Torn(p, r) == IF slot[p] = NoRequest THEN NoRequest ELSE [r EXCEPT !.buf = slot[p].buf]

(* What becomes of mem is up to the caller, which prepares its buffers.    *)
Begin(p, r, patient) ==
  /\ pc = "free"
  /\ pc' = IF patient THEN "preparing" ELSE "building"
  /\ port' = p /\ cur' = r /\ answer' = "none"
  /\ slot' = [slot EXCEPT ![p] = Torn(p, r)]
  /\ tfes' = IF patient THEN tfes \ {p} ELSE tfes
  /\ carried' = FALSE
  /\ UNCHANGED <<engine, halted, fetched, disk, trusted>>

(* CI can only be set while the engine runs; setting it once more while    *)
(* the adapter works on a command does nothing.                            *)
Issue ==
  /\ pc \in {"building", "preparing"}
  /\ slot' = IF port \in engine \ halted /\ fetched[port] = NoRequest
             THEN [slot EXCEPT ![port] = cur] ELSE slot
  /\ pc' = IF pc = "building" THEN "polling" ELSE "waiting"
  /\ UNCHANGED <<hba, disk, mem, port, cur, answer, trusted, carried>>

Returns(a) ==
  /\ pc' = "free"
  /\ answer' = a
  /\ UNCHANGED <<hba, slot, disk, mem, port, cur, carried>>

Succeeded == port \notin tfes

Done ==
  /\ pc = "polling" /\ ~CI(port)
  /\ Returns(IF Succeeded THEN "ok" ELSE "failed")
  /\ UNCHANGED trusted

(* The loop also ends in "failed" when CI clears at its very last look;    *)
(* that is this step followed by the adapter's.                            *)
GivesUp == pc = "polling" /\ CI(port)

GiveUp ==
  /\ GivesUp
  /\ Returns("failed")
  /\ trusted' = trusted \ {port}

\* Mutant of WaitEnds: errors are not looked at.
WaitsForCI == ~CI(port)
WaitEnds   == ~CI(port) \/ port \in tfes

(* ahci_identify returns 1 also for a command that failed and cleared CI;  *)
(* its one caller does not look.                                           *)
Waited ==
  /\ pc = "waiting"
  /\ WaitEnds
  /\ Returns("unread")
  /\ UNCHANGED trusted

Driver == Issue \/ Done \/ GiveUp \/ Waited

(* What ahci_mount_drive does to one port up to its IDENTIFY.  A port      *)
(* whose link stays down is left with its engine stopped.                  *)
LinkDown(p) ==
  /\ pc = "free"
  /\ engine' = engine \ {p} /\ halted' = halted \ {p}
  /\ slot' = [slot EXCEPT ![p] = NoRequest]
  /\ fetched' = [fetched EXCEPT ![p] = NoRequest]
  /\ trusted' = trusted \ {p}
  /\ UNCHANGED <<tfes, disk, mem, driver, carried>>

\* Mutant of AfterReset: COMRESET is left out.
NotReset(p) == fetched
AfterReset(p) == [fetched EXCEPT ![p] = NoRequest]

LinkUp(p) ==
  /\ pc = "free"
  /\ engine' = engine \cup {p} /\ halted' = halted \ {p}
  /\ tfes' = tfes \ {p}
  /\ fetched' = AfterReset(p)
  /\ slot' = [slot EXCEPT ![p] = Identify]
  /\ pc' = "polling" /\ port' = p /\ cur' = Identify /\ answer' = "none"
  /\ trusted' = trusted \cup {p} /\ carried' = FALSE
  /\ UNCHANGED <<disk, mem>>

PortTypeOK ==
  /\ engine \subseteq Ports /\ tfes \subseteq Ports /\ halted \subseteq engine
  /\ slot \in [Ports -> Requests \cup {NoRequest}]
  /\ fetched \in [Ports -> Requests \cup {NoRequest}]
  /\ disk \in [Ports -> [Lbas -> Contents]]
  /\ mem \in [Bufs -> Contents]
  /\ pc \in {"free", "building", "preparing", "polling", "waiting"}
  /\ port \in Ports /\ cur \in Requests \cup {NoRequest}
  /\ answer \in {"none", "ok", "failed", "unread"}
  /\ trusted \subseteq engine /\ carried \in BOOLEAN
=============================================================================
