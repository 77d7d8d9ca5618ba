-------------------------------- MODULE Ahci --------------------------------
(***************************************************************************)
(* drivers/sata/src/ahci.c: the disk driver, and the controller it talks   *)
(* to through the registers of a port.                                     *)
(*                                                                         *)
(* The controller runs by itself: CR and FR of PxCMD follow ST and FRE, a  *)
(* command whose bit in PxCI is set is carried out sector by sector, and   *)
(* its bit is cleared at the end.  After an error it sets bit 30 of PxIS,  *)
(* leaves the bit in PxCI and stops.  The driver polls.                    *)
(*                                                                         *)
(* A request that finds no main port reads the registers through NULL: the *)
(* model stops there.  Addresses are counted in units.                     *)
(***************************************************************************)
EXTENDS Integers, FiniteSetsExt, Sequences

CONSTANTS Machines,     \* what may be on the ports: sequences of device types
          SlotCount,    \* 32: the bits of PxCI
          CountMod,     \* 2^16: the sector count of the FIS is below it
          PrdSectors,   \* 2^13: the sectors whose bytes dbc can count
          SectorUnits, DiskSectors, MemoryUnits

Unit == 0 .. MemoryUnits - 1
Sector == 0 .. DiskSectors - 1
Slot == 0 .. SlotCount - 1

ASSUME AhciAssumption ==
  /\ Machines \subseteq Seq(STRING)
  /\ SlotCount \in Nat \ {0} /\ SectorUnits \in Nat \ {0}
  /\ PrdSectors \in Nat \ {0} /\ CountMod \in Nat /\ PrdSectors < CountMod
  /\ DiskSectors \in Nat /\ MemoryUnits \in Nat

VARIABLES ports, main, owned,   \* the devices; main_sata_port; ports with a command list
          cmd, port,            \* PxCMD of each port; the loop counter of init_ports
          is, ci, busy,         \* of the main port: bit 30 of PxIS, PxCI, PxTFD
          halted, serving,      \* has it stopped; the slot it works on, or -1
          moved,                \* the sectors moved for the request under way
          table,                \* the command header and table of each slot
          pc, req, slot, ret,   \* the driver
          memory, disk

initVars == <<ports, main, owned, cmd, port>>
deviceVars == <<is, ci, busy, halted, serving, moved>>
driverVars == <<table, pc, req, slot, ret>>
ahciVars == <<initVars, deviceVars, driverVars, memory, disk>>

-----------------------------------------------------------------------------
NoCommand == [fis |-> [lba |-> 0, count |-> 0, write |-> FALSE], buffer |-> 0, prd |-> 1]
NoRequest == [lba |-> 0, count |-> -1, buffer |-> 0, write |-> FALSE]
Flags(on) == [st |-> on, fre |-> on, fr |-> on, cr |-> on]

(* The firmware may have left the ports running. *)
AhciInit ==
  /\ ports \in Machines
  /\ main = 0 /\ owned = {} /\ port = 1
  /\ \E on \in BOOLEAN : cmd = [p \in DOMAIN ports |-> Flags(on)]
  /\ is \in BOOLEAN /\ busy \in BOOLEAN /\ ci = {} /\ halted = FALSE
  /\ serving = -1 /\ moved = 0
  /\ table = [s \in Slot |-> NoCommand]
  /\ pc = "off" /\ req = NoRequest /\ slot = 0 /\ ret = "NO_ERROR"

Go(from, to) == pc = from /\ pc' = to

(* A hook that fails stops the boot (call_static_hook_functions). *)
HookFails(from, err) == /\ Go(from, "stopped")
                        /\ ret' = err

(* ahci_init: the controller is looked for on the PCI bus, and the page of *)
(* its registers mapped.                                                   *)
FindController ==
  /\ \/ Go("off", "ports") /\ ret' = "NO_ERROR"
     \/ HookFails("off", "INIT_ERROR")
  /\ UNCHANGED <<initVars, deviceVars, table, req, slot, memory, disk>>

(* init_ports.  Ports with another device, or none, are only reported. *)
SkipPort ==
  /\ port \in DOMAIN ports /\ ports[port] # "sata"
  /\ Go("ports", "ports") /\ port' = port + 1
  /\ UNCHANGED <<ports, main, owned, cmd, deviceVars, table, req, slot, ret, memory, disk>>

(* Mutant of MainPort: every drive becomes the main one. *)
MainPortLast == port
MainPort == IF main = 0 THEN port ELSE main

(* allocate_ahci_port_memory, which may find no memory, and stop_cmd. *)
SetUpPort ==
  /\ port \in DOMAIN ports /\ ports[port] = "sata"
  /\ main' = MainPort
  /\ \/ /\ Go("ports", "stop_cmd") /\ ret' = ret
        /\ owned' = owned \cup {port}
        /\ cmd' = [cmd EXCEPT ![port].st = FALSE, ![port].fre = FALSE]
     \/ HookFails("ports", "NO_MEMORY") /\ UNCHANGED <<owned, cmd>>
  /\ UNCHANGED <<ports, port, deviceVars, table, req, slot, memory, disk>>

(* The port has stopped, and start_cmd starts it again. *)
StartCmd ==
  /\ Go("stop_cmd", "ports")
  /\ ~ cmd[port].fr /\ ~ cmd[port].cr
  /\ cmd' = [cmd EXCEPT ![port].fre = TRUE, ![port].st = TRUE]
  /\ port' = port + 1
  /\ UNCHANGED <<ports, main, owned, deviceVars, table, req, slot, ret, memory, disk>>

PortsDone ==
  /\ port \notin DOMAIN ports
  /\ Go("ports", "idle")
  /\ UNCHANGED <<initVars, deviceVars, table, req, slot, ret, memory, disk>>

InitPorts == SkipPort \/ SetUpPort \/ StartCmd \/ PortsDone

-----------------------------------------------------------------------------
(* ahci_rw_main_disk, and the first statement of ahci_rw_inner. *)
Request(r) ==
  /\ Go("idle", IF main = 0 THEN "wild" ELSE "find_slot")
  /\ req' = r /\ moved' = 0
  /\ is' = FALSE
  /\ UNCHANGED <<initVars, ci, busy, halted, serving, table, slot, ret, memory, disk>>

(* The FIS has 16 bits for the number of sectors, and the one region of the *)
(* table 22 bits for that of bytes, (count * 512) - 1.                      *)
HostToDevice(r) == [lba |-> r.lba, count |-> r.count % CountMod, write |-> r.write]
Command(r) == [fis |-> HostToDevice(r), buffer |-> r.buffer,
               prd |-> ((r.count - 1) % PrdSectors) + 1]

(* find_cmd_slot, and the command's header and table. *)
FindSlot ==
  /\ ci # Slot
  /\ Go("find_slot", "not_busy")
  /\ slot' = Min(Slot \ ci)
  /\ table' = [table EXCEPT ![slot'] = Command(req)]
  /\ UNCHANGED <<initVars, deviceVars, req, ret, memory, disk>>

Issue ==
  /\ ~ busy
  /\ Go("not_busy", "poll_ci")
  /\ ci' = ci \cup {slot}
  /\ UNCHANGED <<initVars, is, busy, halted, serving, moved, table, req, slot, ret, memory, disk>>

Answer(from, err) ==
  /\ Go(from, "idle") /\ ret' = err
  /\ req' = NoRequest /\ moved' = 0
  /\ UNCHANGED <<initVars, is, ci, busy, halted, serving, table, slot, memory, disk>>

Again(from, to) ==
  /\ Go(from, to)
  /\ UNCHANGED <<initVars, deviceVars, table, req, slot, ret, memory, disk>>

(* Two registers are read, one after the other, until one of them tells. *)
(* Mutant of PollCi: the answer is given as soon as the port is not busy. *)
PollCiBusy == \/ ~ busy /\ Answer("poll_ci", "NO_ERROR")
              \/ busy /\ Again("poll_ci", "poll_is")
PollCi == \/ slot \notin ci /\ Answer("poll_ci", "NO_ERROR")
          \/ slot \in ci /\ Again("poll_ci", "poll_is")
(* Mutant of PollIs: PxIS is not looked at. *)
PollIsNever == Again("poll_is", "poll_ci")
PollIs == \/ is /\ Answer("poll_is", "BAD_PARAM")
          \/ ~ is /\ Again("poll_is", "poll_ci")

ReadWrite == FindSlot \/ Issue \/ PollCi \/ PollIs

-----------------------------------------------------------------------------
(* The controller.  CR follows ST and FR follows FRE; a port that has met  *)
(* an error does nothing more.                                             *)
Follow ==
  /\ \E p \in DOMAIN ports :
       /\ ports[p] = "sata"
       /\ \/ cmd[p].cr # cmd[p].st /\ cmd' = [cmd EXCEPT ![p].cr = cmd[p].st]
          \/ cmd[p].fr # cmd[p].fre /\ cmd' = [cmd EXCEPT ![p].fr = cmd[p].fre]
  /\ UNCHANGED <<ports, main, owned, port, deviceVars, driverVars, memory, disk>>

(* The drive has started up. *)
BecomeReady ==
  /\ busy /\ serving = -1
  /\ busy' = FALSE
  /\ UNCHANGED <<initVars, is, ci, halted, serving, moved, driverVars, memory, disk>>

Serve ==
  /\ ci # {} /\ serving = -1 /\ ~ busy /\ ~ halted
  /\ cmd[main].cr /\ cmd[main].fr
  /\ serving' \in ci
  /\ busy' = TRUE
  /\ UNCHANGED <<initVars, is, ci, halted, moved, driverVars, memory, disk>>

(* The device takes a count of 0 for 2^16 sectors. *)
Current == table[serving]
Asked == IF Current.fis.count = 0 THEN CountMod ELSE Current.fis.count
OnDisk == Current.fis.lba + Asked <= DiskSectors
Address == Current.buffer + moved * SectorUnits

Transfer ==
  /\ serving # -1 /\ OnDisk
  /\ moved < Asked /\ moved < Current.prd
  /\ Address + SectorUnits <= MemoryUnits
  /\ IF Current.fis.write
     THEN /\ disk' = [disk EXCEPT ![Current.fis.lba + moved] =
                        [k \in 0 .. SectorUnits - 1 |-> memory[Address + k]]]
          /\ memory' = memory
     ELSE /\ memory' = [u \in Unit |->
                          IF u \in Address .. Address + SectorUnits - 1
                          THEN disk[Current.fis.lba + moved][u - Address] ELSE memory[u]]
          /\ disk' = disk
  /\ moved' = moved + 1
  /\ UNCHANGED <<initVars, is, ci, busy, halted, serving, driverVars>>

(* More data than the region holds is dropped, or is an error. *)
Complete ==
  /\ serving # -1 /\ OnDisk
  /\ moved = Min({Asked, Current.prd})
  /\ ci' = ci \ {serving}
  /\ serving' = -1 /\ busy' = FALSE
  /\ UNCHANGED <<initVars, is, halted, moved, driverVars, memory, disk>>

TaskFileError ==
  /\ serving # -1
  /\ is' = TRUE /\ halted' = TRUE
  /\ serving' = -1 /\ busy' = FALSE
  /\ UNCHANGED <<initVars, ci, moved, driverVars, memory, disk>>

Device == BecomeReady \/ Serve \/ Transfer \/ Complete \/ TaskFileError

-----------------------------------------------------------------------------
(* ImplementsBlockDevice.  Of what a request asks for, everything and      *)
(* nothing else has been moved when ahci_rw_main_disk answers NO_ERROR,    *)
(* although the driver polls two registers that change in between, if the  *)
(* bytes fit into the 22 bits of the region's size.                        *)
Promise == INSTANCE BlockDevice WITH
  request <- req, result <- ret, Counts <- 1 .. PrdSectors
ImplementsBlockDevice == Promise!Spec

(* Returns.  The driver has no timeout, and still every request comes to   *)
(* an end, with the data or with an error, if none before it has failed:   *)
(* nothing restarts the port after that.                                   *)
Returns == (pc = "find_slot" /\ ~ halted) ~> (pc = "idle")

(* MainPortReady.  A command is issued on the first port with a drive, and *)
(* on none that init_ports has not given its memory and started, whatever  *)
(* else is on the other ports.                                             *)
Drives == {p \in DOMAIN ports : ports[p] = "sata"}
MainPortReady ==
  ci # {} => main = Min(Drives) /\ main \in owned /\ cmd[main].st /\ cmd[main].fre
=============================================================================
