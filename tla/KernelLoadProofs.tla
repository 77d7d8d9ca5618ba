-------------------------- MODULE KernelLoadProofs --------------------------
(***************************************************************************)
(* Proofs about the disk driver of Ahci and the loader of KernelLoad that  *)
(* uses it, for any machine, disk, file and number of slots: the main port *)
(* is ready when a command is issued, the driver implements BlockDevice,   *)
(* and the kernel's segments come to lie, mapped, where they should.       *)
(***************************************************************************)
EXTENDS KernelLoad, FiniteSetTheorems, WellFoundedInduction, TLAPS

Starting == {"off", "ports", "stop_cmd"}
Polling == {"poll_ci", "poll_is"}
Running == {"find_slot", "not_busy"} \cup Polling
CmdFlags == [st : BOOLEAN, fre : BOOLEAN, fr : BOOLEAN, cr : BOOLEAN]

(* The ports that init_ports has passed are ready, and the main one is the *)
(* first drive among them; no command is issued before it has passed all.  *)
PortsPassed ==
  /\ main # 0 => main \in Drives /\ main <= port
  /\ \A p \in Drives : p < port => /\ main # 0 /\ main <= p
                                   /\ p \in owned /\ cmd[p].st /\ cmd[p].fre
  /\ pc = "stop_cmd" => port \in Drives /\ port \in owned /\ main # 0
ScanOver ==
  /\ pc \in Starting => ci = {}
  /\ pc \notin Starting \cup {"stopped"} \/ ci # {} => port \notin DOMAIN ports
  /\ pc \in Running \/ ci # {} => main # 0
Scan ==
  /\ ports \in Seq(STRING) /\ port \in Nat \ {0} /\ main \in Nat
  /\ cmd \in [DOMAIN ports -> CmdFlags]
  /\ PortsPassed
  /\ ScanOver

(* There is a request from Request to Answer; the slot that is worked on is *)
(* the one that the driver polls, and its command is what was requested.    *)
(* After an error no bit of PxCI is cleared any more, and bit 30 of PxIS    *)
(* does not tell of one unless there was one since it was cleared.          *)
OneRequest ==
  /\ pc \in Starting \cup {"idle", "stopped"} => req = NoRequest
  /\ pc \in Running \cup {"wild"} => req # NoRequest
OneCommand ==
  /\ slot \in Slot /\ ci \subseteq Slot
  /\ table = [s \in Slot |-> table[s]]
  /\ pc \in Polling \cup {"not_busy"} => table[slot] = Command(req)
  /\ serving # -1 => pc \in Polling /\ serving = slot /\ slot \in ci
  /\ ~ halted => ci \subseteq {slot} /\ (pc \notin Polling => ci = {})
AfterError ==
  /\ pc \in Running /\ is => halted
  /\ halted => serving = -1 /\ (pc \in Polling => slot \in ci)
AllMoved ==
  pc \in Polling /\ slot \notin ci /\ req.count \in 1 .. PrdSectors => moved = req.count
Commands == OneRequest /\ OneCommand /\ AfterError /\ AllMoved

IInv == Scan /\ Commands

-----------------------------------------------------------------------------
(* A set of natural numbers with a member has a least one. *)
LEMMA MinLemma ==
  ASSUME NEW S, S \subseteq Nat, S # {}
  PROVE  Min(S) \in S /\ \A x \in S : Min(S) <= x
<1> DEFINE Less == {p \in Nat \X Nat : p[1] < p[2]}
<1>1. IsWellFoundedOn(Less, Nat)
  <2>1. Less = OpToRel(<, Nat)
    BY DEF OpToRel
  <2> QED
    BY <2>1, NatLessThanWellFounded
<1>2. PICK i \in S : \A j \in S : ~ (<<j, i>> \in Less)
  <2> HIDE DEF Less
  <2>1. S \in SUBSET Nat
    OBVIOUS
  <2> QED
    BY <1>1, <2>1, WFMin
<1>3. ASSUME NEW j \in S PROVE i <= j
  <2>1. i \in Nat /\ j \in Nat
    OBVIOUS
  <2>2. <<j, i>> \in Nat \X Nat /\ <<j, i>>[1] = j /\ <<j, i>>[2] = i
    BY <2>1
  <2>3. ~ (j < i)
    BY <1>2, <2>2
  <2> QED
    BY <2>1, <2>3
<1> QED
  BY <1>3 DEF Min

(* A number below the modulus is its own remainder. *)
LEMMA ModSmall ==
  ASSUME NEW x \in Nat, NEW n \in Nat \ {0}, x < n
  PROVE  x % n = x
<1> DEFINE q == x \div n
<1>1. q \in Nat /\ x = n * q + (x % n) /\ x % n \in 0 .. n - 1
  OBVIOUS
<1>2. q >= 1 => n * q >= n
  <2> HIDE DEF q
  <2> QED
    BY <1>1
<1>3. q = 0
  <2> HIDE DEF q
  <2> QED
    BY <1>1, <1>2
<1>4. n * 0 = 0
  OBVIOUS
<1> QED
  BY <1>1, <1>3, <1>4

(* The FIS and the region of a command say how many sectors the request     *)
(* has, if that is a number they can hold.                                  *)
LEMMA CountHeld ==
  ASSUME NEW r, r.count \in 1 .. PrdSectors
  PROVE  Command(r).fis.count = r.count /\ Command(r).prd = r.count
<1> DEFINE c == r.count
<1>1. /\ c \in Nat /\ c - 1 \in Nat /\ c < CountMod /\ c - 1 < PrdSectors
      /\ CountMod \in Nat \ {0} /\ PrdSectors \in Nat \ {0}
  BY AhciAssumption
<1>2. c % CountMod = c /\ (c - 1) % PrdSectors = c - 1
  <2> HIDE DEF c
  <2> QED
    BY <1>1, ModSmall
<1> QED
  BY <1>1, <1>2 DEF Command, HostToDevice

-----------------------------------------------------------------------------
LEMMA InitIInv == Init => IInv
<1> SUFFICES ASSUME Init PROVE IInv
  OBVIOUS
<1> USE DEF Init, AhciInit
<1>1. ports \in Seq(STRING)
  BY AhciAssumption
<1>2. PICK on \in BOOLEAN : cmd = [p \in DOMAIN ports |-> Flags(on)]
  OBVIOUS
<1>3. cmd \in [DOMAIN ports -> CmdFlags]
  BY <1>2 DEF Flags, CmdFlags
<1>4. PortsPassed
  BY <1>1 DEF PortsPassed, Drives
<1>5. ScanOver
  BY DEF ScanOver, Starting, Running, Polling
<1>6. Commands
  BY AhciAssumption DEF Commands, OneRequest, OneCommand, AfterError, AllMoved,
                        Starting, Running, Polling, Slot
<1> QED
  BY <1>1, <1>3, <1>4, <1>5, <1>6 DEF IInv, Scan

-----------------------------------------------------------------------------
(* The scan of the ports. *)
LEMMA PortTypes ==
  ASSUME Scan
  PROVE  /\ Drives \subseteq Nat \ {0} /\ Drives \subseteq DOMAIN ports
         /\ DOMAIN ports \subseteq Nat \ {0}
         /\ port \notin DOMAIN ports => \A p \in Drives : p < port
<1>1. PICK n \in Nat : DOMAIN ports = 1 .. n
  BY DEF Scan
<1>2. Drives \subseteq DOMAIN ports
  BY DEF Drives
<1> QED
  BY <1>1, <1>2 DEF Scan

LEMMA SkipPortScan == ASSUME Scan, SkipPort PROVE Scan'
<1> USE DEF Scan, SkipPort, Go
<1>1. Drives' = Drives /\ port \notin Drives
  BY DEF Drives
<1>2. PortsPassed'
  BY <1>1, PortTypes DEF PortsPassed
<1>3. ScanOver'
  BY DEF ScanOver, Starting, Running, Polling, deviceVars
<1> QED
  BY <1>2, <1>3

LEMMA SetUpPortScan == ASSUME Scan, SetUpPort PROVE Scan'
<1> USE DEF Scan, SetUpPort
<1>1. Drives' = Drives /\ port \in Drives
  BY DEF Drives
<1>2. main' \in Nat /\ main' \in Drives /\ main' <= port /\ (main # 0 => main' = main)
  BY <1>1, PortTypes DEF PortsPassed, MainPort
<1>3. /\ cmd' \in [DOMAIN ports -> CmdFlags]
      /\ \A p \in DOMAIN ports : p # port => cmd'[p] = cmd[p]
  <2>1. CASE cmd' = cmd
    BY <2>1
  <2>2. CASE cmd' = [cmd EXCEPT ![port].st = FALSE, ![port].fre = FALSE]
    BY <2>2 DEF CmdFlags
  <2> QED
    BY <2>1, <2>2
<1>4. owned \subseteq owned' /\ (pc' = "stop_cmd" => port \in owned')
  BY DEF Go, HookFails
<1>5. PortsPassed'
  <2>1. main' # 0
    BY <1>2, PortTypes
  <2>2. ASSUME NEW p \in Drives, p < port
        PROVE  /\ main' # 0 /\ main' <= p
               /\ p \in owned' /\ cmd'[p].st /\ cmd'[p].fre
    BY <1>2, <1>3, <1>4, <2>2, PortTypes DEF PortsPassed
  <2> QED
    BY <1>1, <1>2, <1>4, <2>1, <2>2 DEF PortsPassed
<1>6. ScanOver'
  BY DEF ScanOver, Starting, Running, Polling, deviceVars, Go, HookFails
<1> QED
  BY <1>2, <1>3, <1>5, <1>6

LEMMA StartCmdScan == ASSUME Scan, StartCmd PROVE Scan'
<1> USE DEF Scan, StartCmd, Go
<1>1. Drives' = Drives /\ port \in Drives
  BY DEF Drives, PortsPassed
<1>2. /\ cmd' \in [DOMAIN ports -> CmdFlags]
      /\ cmd'[port].st /\ cmd'[port].fre
      /\ \A p \in DOMAIN ports : p # port => cmd'[p] = cmd[p]
  BY <1>1, PortTypes DEF CmdFlags
<1>3. ASSUME NEW p \in Drives, p < port'
      PROVE  /\ main # 0 /\ main <= p
             /\ p \in owned /\ cmd'[p].st /\ cmd'[p].fre
  <2>1. p < port \/ p = port
    BY <1>3, PortTypes
  <2> QED
    BY <1>2, <2>1, PortTypes DEF PortsPassed
<1>4. PortsPassed'
  BY <1>1, <1>3, PortTypes DEF PortsPassed
<1>5. ScanOver'
  BY DEF ScanOver, Starting, Running, Polling, deviceVars
<1> QED
  BY <1>2, <1>4, <1>5

(* CR and FR are not looked at afterwards. *)
LEMMA FollowScan == ASSUME Scan, Follow PROVE Scan'
<1> USE DEF Scan
<1>1. UNCHANGED <<ports, main, owned, port, pc, ci>>
  BY DEF Follow, deviceVars, driverVars
<1>2. PICK p \in DOMAIN ports :
        \/ cmd' = [cmd EXCEPT ![p].cr = cmd[p].st]
        \/ cmd' = [cmd EXCEPT ![p].fr = cmd[p].fre]
  BY DEF Follow
<1>3. /\ cmd' \in [DOMAIN ports -> CmdFlags]
      /\ \A q \in DOMAIN ports : cmd'[q].st = cmd[q].st /\ cmd'[q].fre = cmd[q].fre
  <2>1. cmd[p] \in CmdFlags
    OBVIOUS
  <2>2. CASE cmd' = [cmd EXCEPT ![p].cr = cmd[p].st]
    BY <2>1, <2>2 DEF CmdFlags
  <2>3. CASE cmd' = [cmd EXCEPT ![p].fr = cmd[p].fre]
    BY <2>1, <2>3 DEF CmdFlags
  <2> QED
    BY <1>2, <2>2, <2>3
<1>4. Drives' = Drives
  BY <1>1 DEF Drives
<1>5. PortsPassed'
  BY <1>1, <1>3, <1>4, PortTypes DEF PortsPassed
<1>6. ScanOver'
  BY <1>1 DEF ScanOver
<1> QED
  BY <1>1, <1>3, <1>5, <1>6

(* Steps that leave the ports alone. *)
LEMMA OtherScan ==
  ASSUME Scan, UNCHANGED initVars, pc' = pc \/ pc' # "stop_cmd", ScanOver'
  PROVE  Scan'
<1>1. Drives' = Drives
  BY DEF Drives, initVars
<1>2. PortsPassed'
  BY <1>1 DEF Scan, PortsPassed, initVars
<1> QED
  BY <1>2 DEF Scan, initVars

LEMMA DriverScan == ASSUME Scan, Driver PROVE Scan'
<1> USE DEF Starting, Running, Polling, Go, HookFails, Again, Answer, initVars, deviceVars
<1>1. CASE FindController
  <2>1. ScanOver'
    BY <1>1 DEF FindController, Scan, ScanOver
  <2> QED
    BY <1>1, <2>1, OtherScan DEF FindController
<1>2. CASE PortsDone
  <2>1. ScanOver'
    BY <1>2 DEF PortsDone, Scan, ScanOver
  <2> QED
    BY <1>2, <2>1, OtherScan DEF PortsDone
<1>3. CASE FindSlot \/ Issue
  <2>1. ScanOver'
    BY <1>3 DEF FindSlot, Issue, Scan, ScanOver
  <2> QED
    BY <1>3, <2>1, OtherScan DEF FindSlot, Issue
<1>4. CASE PollCi \/ PollIs
  <2>1. ScanOver'
    BY <1>4 DEF PollCi, PollIs, Scan, ScanOver
  <2> QED
    BY <1>4, <2>1, OtherScan DEF PollCi, PollIs
<1> QED
  BY <1>1, <1>2, <1>3, <1>4, SkipPortScan, SetUpPortScan, StartCmdScan
  DEF Driver, InitPorts, ReadWrite

LEMMA RequestScan == ASSUME Scan, NEW r, Request(r) PROVE Scan'
<1>1. ScanOver'
  BY DEF Request, Go, Scan, ScanOver, Starting, Running, Polling, initVars
<1> QED
  BY <1>1, OtherScan DEF Request, Go

LEMMA LoadScan == ASSUME Scan, Load \/ ClientCalls PROVE Scan'
<1> USE DEF Go, HookFails, Fails, initVars, deviceVars, ahciVars, driverVars
<1>1. CASE ReadRest \/ ClientCalls
  BY <1>1, RequestScan DEF ReadRest, ClientCalls
<1>2. CASE NothingToRead \/ RestRead
  <2>1. ScanOver'
    BY <1>2 DEF NothingToRead, RestRead, Scan, ScanOver, Starting, Running, Polling
  <2> QED
    BY <1>2, <2>1, OtherScan DEF NothingToRead, RestRead
<1>3. CASE ElfLoad
  <2>1. /\ UNCHANGED initVars /\ ci' = ci
        /\ pc = "idle" /\ (pc' = pc \/ pc' = "stopped")
    BY <1>3 DEF ElfLoad, NotSupported, SkipHeader, MapFails, MapSegment
  <2>2. ScanOver'
    BY <2>1 DEF Scan, ScanOver, Starting, Running, Polling
  <2> QED
    BY <2>1, <2>2, OtherScan
<1> QED
  BY <1>1, <1>2, <1>3 DEF Load

LEMMA DriveScan == ASSUME Scan, Drive PROVE Scan'
<1>1. UNCHANGED initVars /\ pc' = pc /\ ci' \subseteq ci
  BY DEF Drive, Device, BecomeReady, Serve, Transfer, Complete, TaskFileError, driverVars
<1>2. ScanOver'
  BY <1>1 DEF Scan, ScanOver, initVars
<1> QED
  BY <1>1, <1>2, OtherScan

LEMMA StepScan == Scan /\ [Next]_vars => Scan'
<1> SUFFICES ASSUME Scan, [Next]_vars PROVE Scan'
  OBVIOUS
<1>1. CASE UNCHANGED vars
  <2>1. ScanOver'
    BY <1>1 DEF vars, ahciVars, initVars, deviceVars, driverVars, Scan, ScanOver
  <2> QED
    BY <1>1, <2>1, OtherScan DEF vars, ahciVars, initVars, driverVars
<1> QED
  BY <1>1, DriverScan, LoadScan, FollowScan, DriveScan DEF Next, Controller

(* A command is issued on the first drive, which is ready for it. *)
LEMMA ScanReady == Scan => MainPortReady
<1> SUFFICES ASSUME Scan, ci # {} PROVE main = Min(Drives) /\ main \in owned
                                        /\ cmd[main].st /\ cmd[main].fre
  BY DEF MainPortReady
<1>1. main \in Drives /\ \A p \in Drives : p < port
  BY PortTypes DEF Scan, ScanOver, PortsPassed
<1>2. main \in owned /\ cmd[main].st /\ cmd[main].fre
  BY <1>1 DEF Scan, PortsPassed
<1>3. \A p \in Drives : main <= p
  BY <1>1 DEF Scan, PortsPassed
<1>4. Min(Drives) \in Drives /\ \A p \in Drives : Min(Drives) <= p
  BY <1>1, PortTypes, MinLemma
<1>5. main <= Min(Drives) /\ Min(Drives) <= main /\ main \in Nat /\ Min(Drives) \in Nat
  BY <1>1, <1>3, <1>4, PortTypes
<1> QED
  BY <1>2, <1>5

-----------------------------------------------------------------------------
(* Requests and commands.  Steps before the first request, and between     *)
(* requests, leave the slots alone.                                        *)
LEMMA IdleCommands ==
  ASSUME Commands, UNCHANGED <<is, ci, busy, halted, serving, moved, table, req, slot>>,
         pc' = pc \/ /\ pc \in Starting \cup {"idle", "stopped"}
                     /\ pc' \in Starting \cup {"idle", "stopped"}
  PROVE  Commands'
BY DEF Commands, OneRequest, OneCommand, AfterError, AllMoved, Starting, Running, Polling,
       Command, HostToDevice

LEMMA RequestCommands ==
  ASSUME Commands, NEW r, r # NoRequest, Request(r)
  PROVE  Commands'
BY DEF Request, Go, Commands, OneRequest, OneCommand, AfterError, AllMoved,
       Starting, Running, Polling

LEMMA FindSlotCommands == ASSUME Commands, FindSlot PROVE Commands'
<1> USE DEF Commands, FindSlot, Go, Starting, Running, Polling
<1>1. slot' \in Slot
  <2>1. Slot \ ci # {} /\ Slot \ ci \subseteq Nat
    BY AhciAssumption DEF OneCommand, Slot
  <2> QED
    BY <2>1, MinLemma
<1>2. table' = [s \in Slot |-> table'[s]] /\ table'[slot'] = Command(req)
  BY <1>1 DEF OneCommand
<1>3. Command(req)' = Command(req)
  BY DEF Command, HostToDevice
<1>4. serving = -1
  BY DEF OneCommand
<1> QED
  BY <1>1, <1>2, <1>3, <1>4 DEF OneRequest, OneCommand, AfterError, AllMoved, deviceVars

LEMMA IssueCommands == ASSUME Commands, Issue PROVE Commands'
BY DEF Commands, Issue, Go, OneRequest, OneCommand, AfterError, AllMoved,
       Starting, Running, Polling, Command, HostToDevice

LEMMA PollCommands == ASSUME Commands, PollCi \/ PollIs PROVE Commands'
<1> USE DEF Commands, OneRequest, OneCommand, AfterError, AllMoved,
            Starting, Running, Polling, Command, HostToDevice, Go
<1>1. CASE Again("poll_ci", "poll_is") \/ Again("poll_is", "poll_ci")
  BY <1>1 DEF Again, deviceVars
<1>2. CASE slot \notin ci /\ Answer("poll_ci", "NO_ERROR")
  BY <1>2 DEF Answer
<1>3. CASE is /\ Answer("poll_is", "BAD_PARAM")
  BY <1>3 DEF Answer
<1> QED
  BY <1>1, <1>2, <1>3 DEF PollCi, PollIs

(* load_entire_kernel and later clients make requests. *)
LEMMA Requested ==
  ASSUME ReadRest \/ ClientCalls
  PROVE  \E r : r # NoRequest /\ Request(r)
<1>1. CASE ReadRest
  <2>1. Loaded # 0
    BY AhciAssumption, KernelLoadAssumption DEF Loaded
  <2>2. ToLoad # NoRequest
    BY <2>1 DEF ToLoad, NoRequest
  <2> QED
    BY <1>1, <2>2 DEF ReadRest
<1>2. CASE ClientCalls
  <2>1. PICK r \in ClientRequests : Request(r)
    BY <1>2 DEF ClientCalls
  <2>2. r.count \in Nat /\ NoRequest.count = -1
    BY KernelLoadAssumption DEF NoRequest
  <2> QED
    BY <2>1, <2>2
<1> QED
  BY <1>1, <1>2

LEMMA LoadCommands == ASSUME Commands, Load \/ ClientCalls PROVE Commands'
<1>1. CASE ReadRest \/ ClientCalls
  BY <1>1, Requested, RequestCommands
<1>2. CASE NothingToRead \/ RestRead \/ ElfLoad
  <2>1. /\ UNCHANGED <<is, ci, busy, halted, serving, moved, table, req, slot>>
        /\ pc = "idle" /\ (pc' = pc \/ pc' = "stopped")
    BY <1>2 DEF NothingToRead, RestRead, ElfLoad, NotSupported, SkipHeader, MapFails,
                MapSegment, Fails, HookFails, Go, ahciVars, deviceVars, driverVars
  <2> QED
    BY <2>1, IdleCommands
<1> QED
  BY <1>1, <1>2 DEF Load

LEMMA DriverCommands == ASSUME Commands, Driver PROVE Commands'
<1>1. CASE FindController \/ InitPorts
  <2>1. /\ UNCHANGED <<is, ci, busy, halted, serving, moved, table, req, slot>>
        /\ pc \in Starting
        /\ pc' \in Starting \cup {"idle", "stopped"}
    BY <1>1 DEF FindController, InitPorts, SkipPort, SetUpPort, StartCmd, PortsDone,
                HookFails, Go, Starting, deviceVars
  <2> QED
    BY <2>1, IdleCommands
<1> QED
  BY <1>1, FindSlotCommands, IssueCommands, PollCommands DEF Driver, ReadWrite

LEMMA DriveCommands == ASSUME Commands, Drive PROVE Commands'
<1> USE DEF Commands, OneRequest, OneCommand, AfterError, AllMoved, Polling, Running,
            Command, HostToDevice, driverVars
<1>1. CASE BecomeReady \/ Serve
  BY <1>1 DEF BecomeReady, Serve
<1>2. CASE Transfer
  BY <1>2 DEF Transfer
<1>3. CASE Complete
  <2>1. ci' = {} /\ serving = slot /\ serving' = -1 /\ ~ halted /\ pc \in Polling
    BY <1>3 DEF Complete
  <2>2. ASSUME req.count \in 1 .. PrdSectors PROVE moved = req.count
    <3> HIDE DEF Command, HostToDevice
    <3>1. Current = Command(req)
      BY <2>1 DEF Current
    <3>2. Asked = req.count /\ Current.prd = req.count /\ req.count \in Nat
      BY <2>2, <3>1, CountHeld, AhciAssumption DEF Asked
    <3>3. Min({req.count, req.count}) = req.count
      BY <3>2, MinLemma
    <3> QED
      BY <1>3, <3>2, <3>3 DEF Complete
  <2> QED
    BY <1>3, <2>1, <2>2 DEF Complete
<1>4. CASE TaskFileError
  BY <1>4 DEF TaskFileError
<1> QED
  BY <1>1, <1>2, <1>3, <1>4 DEF Drive, Device

LEMMA StepCommands == Commands /\ [Next]_vars => Commands'
<1> SUFFICES ASSUME Commands, [Next]_vars PROVE Commands'
  OBVIOUS
<1>1. CASE Controller \/ UNCHANGED vars
  BY <1>1, IdleCommands DEF Controller, Follow, vars, ahciVars, deviceVars, driverVars
<1> QED
  BY <1>1, DriverCommands, LoadCommands, DriveCommands DEF Next

LEMMA StepIInv == IInv /\ [Next]_vars => IInv'
BY StepScan, StepCommands DEF IInv

(* Whatever devices are on the ports, a command is issued on the first     *)
(* drive only, and once that has its memory and has been started.          *)
THEOREM MainPortSafety == Spec => []MainPortReady
<1>1. IInv => MainPortReady
  BY ScanReady DEF IInv
<1> QED
  BY InitIInv, StepIInv, <1>1, PTL DEF Spec

-----------------------------------------------------------------------------
(* Steps between requests, and steps that only the driver and the           *)
(* controller see.                                                          *)
LEMMA BetweenRequests ==
  ASSUME req = NoRequest, UNCHANGED <<disk, req, moved>>
  PROVE  Promise!Next
BY DEF NoRequest, Promise!Next, Promise!Compute, Promise!None

LEMMA AskPromised ==
  ASSUME NEW r, r # NoRequest, req = NoRequest, Request(r)
  PROVE  Promise!Next
BY DEF Request, Go, NoRequest, Promise!Next, Promise!Ask, Promise!None

LEMMA AnswerPromised ==
  ASSUME Commands, PollCi \/ PollIs
  PROVE  [Promise!Next]_(Promise!vars)
<1>1. pc \in Polling /\ req # Promise!None
  BY DEF PollCi, PollIs, Again, Answer, Go, Commands, OneRequest, Running, Polling,
         NoRequest, Promise!None
<1>2. CASE slot \notin ci /\ Answer("poll_ci", "NO_ERROR")
  <2>1. CASE req.count \in 1 .. PrdSectors
    <3>1. moved = req.count
      BY <1>1, <1>2, <2>1 DEF Commands, AllMoved
    <3> QED
      BY <1>2, <3>1 DEF Answer, NoRequest, Promise!Next, Promise!Succeed, Promise!None
  <2>2. CASE req.count \notin 1 .. PrdSectors
    BY <1>1, <1>2, <2>2 DEF Answer, Promise!Next, Promise!Unforeseen
  <2> QED
    BY <2>1, <2>2
<1>3. CASE Answer("poll_is", "BAD_PARAM")
  BY <1>1, <1>3 DEF Answer, NoRequest, Promise!Next, Promise!Fail, Promise!None
<1>4. CASE Again("poll_ci", "poll_is") \/ Again("poll_is", "poll_ci")
  BY <1>4 DEF Again, deviceVars, Promise!vars
<1> QED
  BY <1>2, <1>3, <1>4 DEF PollCi, PollIs

LEMMA TransferPromised ==
  ASSUME Commands, Transfer
  PROVE  Promise!Next
<1>1. /\ serving = slot /\ pc \in Polling
      /\ Current = Command(req) /\ req # Promise!None
  BY DEF Transfer, Commands, OneRequest, OneCommand, Running, Polling, Current,
         NoRequest, Promise!None
<1>2. Current.fis.lba = req.lba /\ Current.fis.write = req.write /\ Current.buffer = req.buffer
  BY <1>1 DEF Command, HostToDevice
<1>3. CASE req.count \notin 1 .. PrdSectors
  <2>1. ~ req.write => disk' = disk
    BY <1>2 DEF Transfer
  <2> QED
    BY <1>1, <1>3, <2>1 DEF Promise!Next, Promise!Unforeseen
<1>4. CASE req.count \in 1 .. PrdSectors
  <2>1. Current.prd = req.count
    BY <1>1, <1>4, CountHeld
  <2>2. moved < req.count /\ moved' = moved + 1 /\ UNCHANGED <<req, ret>>
    BY <2>1 DEF Transfer, driverVars
  <2>3. Address = req.buffer + moved * SectorUnits
    BY <1>2 DEF Address
  <2>4. CASE req.write
    <3>1. /\ disk' = [disk EXCEPT ![req.lba + moved] = Promise!Taken(Address)]
          /\ memory' = memory
      BY <1>2, <2>4 DEF Transfer, Promise!Taken
    <3> QED
      BY <2>2, <2>3, <2>4, <3>1 DEF Promise!Next, Promise!Move
  <2>5. CASE ~ req.write
    <3>1. /\ memory' = Promise!Filled(disk[req.lba + moved], Address)
          /\ disk' = disk
      BY <1>2, <2>5 DEF Transfer, Promise!Filled
    <3> QED
      BY <2>2, <2>3, <2>5, <3>1 DEF Promise!Next, Promise!Move
  <2> QED
    BY <2>4, <2>5
<1> QED
  BY <1>3, <1>4

LEMMA StepPromised ==
  ASSUME Commands, [Next]_vars
  PROVE  [Promise!Next]_(Promise!vars)
<1> USE DEF Promise!vars, initVars, deviceVars, driverVars, ahciVars
<1>1. CASE FindController \/ InitPorts
  BY <1>1, BetweenRequests
  DEF FindController, InitPorts, SkipPort, SetUpPort, StartCmd, PortsDone, HookFails, Go,
      Commands, OneRequest, Starting
<1>2. CASE FindSlot \/ Issue
  BY <1>2 DEF FindSlot, Issue
<1>3. CASE ReadRest \/ ClientCalls
  <2>1. PICK r : r # NoRequest /\ Request(r)
    BY <1>3, Requested
  <2>2. req = NoRequest
    BY <2>1 DEF Request, Go, Commands, OneRequest
  <2>3. Promise!Next
    BY <2>1, <2>2, AskPromised
  <2> QED
    BY <2>3
<1>4. CASE NothingToRead \/ RestRead \/ ElfLoad
  BY <1>4, BetweenRequests
  DEF NothingToRead, RestRead, ElfLoad, HookFails, Go, Commands, OneRequest
<1>5. CASE Controller \/ UNCHANGED vars
  BY <1>5 DEF Controller, Follow, vars
<1>6. CASE BecomeReady \/ Serve \/ Complete \/ TaskFileError
  BY <1>6 DEF BecomeReady, Serve, Complete, TaskFileError
<1> QED
  BY <1>1, <1>2, <1>3, <1>4, <1>5, <1>6, AnswerPromised, TransferPromised
  DEF Next, Driver, ReadWrite, Load, Drive, Device

(* The driver and the controller together keep the promise of BlockDevice: *)
(* in particular, when ahci_rw_main_disk returns NO_ERROR, all sectors     *)
(* asked for have been moved, and nothing else has.                        *)
THEOREM Refinement == Spec => ImplementsBlockDevice
<1>1. Init => Promise!Init
  BY DEF Init, AhciInit, NoRequest, Promise!Init, Promise!None
<1>2. IInv /\ [Next]_vars => [Promise!Next]_(Promise!vars)
  BY StepPromised DEF IInv
<1> QED
  BY InitIInv, StepIInv, <1>1, <1>2, PTL DEF Spec, ImplementsBlockDevice, Promise!Spec

-----------------------------------------------------------------------------
(* elf_load: the headers it has passed, and the pages they have mapped. *)
HeadersMapped ==
  /\ image \in Images /\ header \in Nat \ {0}
  /\ \A k \in 1 .. header - 1 : k \in DOMAIN image.headers =>
       (image.headers[k].type = "PT_LOAD" => MappedBy(image.headers[k]) \subseteq mapped)
  /\ stage = "loaded" => header \notin DOMAIN image.headers

(* The quotient of x by n is the q with n * q <= x < n * q + n. *)
LEMMA DivBounds ==
  ASSUME NEW x \in Nat, NEW n \in Nat \ {0}
  PROVE  /\ x \div n \in Nat /\ x % n \in 0 .. n - 1
         /\ x = n * (x \div n) + (x % n)
OBVIOUS

LEMMA DivBelow ==
  ASSUME NEW x \in Nat, NEW n \in Nat \ {0}, NEW k \in Nat, x < n * k
  PROVE  x \div n < k
<1> DEFINE q == x \div n
<1>1. q \in Nat /\ n * q <= x
  BY DivBounds
<1> HIDE DEF q
<1>2. q >= k => n * q >= n * k
  BY <1>1
<1>3. n * q \in Nat /\ n * k \in Nat
  BY <1>1
<1>4. q < k
  BY <1>1, <1>2, <1>3
<1> QED
  BY <1>4 DEF q

LEMMA DivFrom ==
  ASSUME NEW x \in Nat, NEW n \in Nat \ {0}, NEW k \in Nat, n * k <= x
  PROVE  k <= x \div n
<1> DEFINE q == x \div n
<1>1. q \in Nat /\ x < n * q + n
  BY DivBounds
<1> HIDE DEF q
<1>2. ASSUME q < k PROVE FALSE
  <2>1. q + 1 <= k
    BY <1>1, <1>2
  <2>2. n * (q + 1) <= n * k
    BY <1>1, <2>1
  <2>3. n * (q + 1) = n * q + n
    BY <1>1
  <2>4. n * q \in Nat /\ n * k \in Nat
    BY <1>1
  <2> QED
    BY <1>1, <2>2, <2>3, <2>4
<1>3. k <= q
  BY <1>1, <1>2
<1> QED
  BY <1>3 DEF q

LEMMA HeaderTypes ==
  ASSUME image \in Images
  PROVE  /\ \E n \in Nat : DOMAIN image.headers = 1 .. n
         /\ \A k \in DOMAIN image.headers : image.headers[k] \in ProgramHeader
BY ImagesAssumption

(* A segment's pages, as many as its size needs, reach from the page of its *)
(* first unit to that of its last, or to the one before it if the segment  *)
(* starts inside a page.                                                    *)
LEMMA PagesReach ==
  ASSUME NEW ph \in ProgramHeader, NEW u \in All(ph)
  PROVE  \/ PageOf(u) \in MappedBy(ph)
         \/ ph.offset % PageUnits # 0 /\ PageOf(u) = PageOf(ph.offset + ph.memsz - 1)
<1> DEFINE P == PageUnits
           o == ph.offset
           m == ph.memsz
           q == o \div P
           r == o % P
           n == (m + P - 1) \div P
           last == o + m - 1
<1>1. P \in Nat \ {0} /\ o \in Nat /\ m \in Nat
  BY KernelLoadAssumption DEF ProgramHeader
<1>2. u \in Nat /\ o <= u /\ u <= last /\ last \in Nat /\ m >= 1
  BY <1>1 DEF All
<1>3. q \in Nat /\ r \in 0 .. P - 1 /\ o = P * q + r
  BY <1>1, DivBounds
<1>4. n \in Nat /\ P * n >= m
  <2> DEFINE x == m + P - 1
  <2>1. x \in Nat /\ n = x \div P /\ x = m + P - 1
    BY <1>1
  <2> HIDE DEF n, x, P, o, m
  <2>2. n \in Nat /\ x % P \in 0 .. P - 1 /\ x = P * n + (x % P)
    BY <1>1, <2>1, DivBounds
  <2>3. P * n \in Nat /\ x % P <= P - 1 /\ x % P \in Nat
    BY <1>1, <2>2
  <2> QED
    BY <1>1, <2>1, <2>2, <2>3
<1>5. PageOf(u) = u \div P /\ PageOf(last) = last \div P /\ MappedBy(ph) = q .. q + n - 1
  BY DEF PageOf, MappedBy, PageCount
<1>6. u \div P \in Nat /\ last \div P \in Nat
  BY <1>1, <1>2, DivBounds
<1> HIDE DEF P, o, m, q, r, n, last
<1>7. P * (q + n) = P * q + P * n /\ P * q \in Nat /\ P * n \in Nat
  BY <1>1, <1>3, <1>4
<1>8. q <= u \div P
  <2>1. P * q <= u
    BY <1>1, <1>2, <1>3, <1>7
  <2> QED
    BY <1>1, <1>2, <1>3, <2>1, DivFrom
<1>9. CASE u < P * (q + n)
  <2>1. u \div P < q + n
    BY <1>1, <1>2, <1>3, <1>4, <1>9, DivBelow
  <2> QED
    BY <1>3, <1>4, <1>5, <1>6, <1>8, <2>1
<1>10. CASE P * (q + n) <= u
  <2>1. r # 0
    BY <1>1, <1>2, <1>3, <1>4, <1>7, <1>10 DEF last
  <2>2. last < P * (q + n + 1)
    <3>1. P * (q + n + 1) = P * (q + n) + P
      BY <1>1, <1>3, <1>4
    <3> QED
      BY <1>1, <1>2, <1>3, <1>4, <1>7, <3>1 DEF last
  <2>3. u < P * (q + n + 1) /\ P * (q + n) <= last
    BY <1>1, <1>2, <1>3, <1>4, <1>7, <1>10, <2>2
  <2> DEFINE k == q + n
             k1 == q + n + 1
  <2>4. k \in Nat /\ k1 = k + 1 /\ k1 \in Nat /\ P * k <= u /\ u < P * k1
        /\ P * k <= last /\ last < P * k1
    BY <1>3, <1>4, <1>10, <2>2, <2>3
  <2> HIDE DEF k, k1
  <2>5. u \div P < k1 /\ last \div P < k1 /\ k <= u \div P /\ k <= last \div P
    BY <1>1, <1>2, <2>4, DivBelow, DivFrom
  <2>6. u \div P = last \div P
    BY <1>6, <2>4, <2>5
  <2>7. ph.offset % PageUnits # 0
    BY <2>1 DEF r, o, P
  <2> QED
    BY <1>5, <2>6, <2>7 DEF last, o, m
<1> QED
  BY <1>1, <1>2, <1>3, <1>4, <1>7, <1>9, <1>10

LEMMA ElfLoadMapped == ASSUME HeadersMapped, ElfLoad PROVE HeadersMapped'
<1> USE DEF HeadersMapped, ElfLoad
<1>1. image' = image /\ header \in Nat \ {0} /\ image' \in Images
  OBVIOUS
<1>2. \A ph : MappedBy(ph)' = MappedBy(ph)
  BY DEF MappedBy, PageCount
<1>3. CASE /\ mapped' = mapped /\ header' = header
           /\ stage' = "loaded" => header \notin DOMAIN image.headers
  BY <1>1, <1>2, <1>3
<1>4. CASE header \in DOMAIN image.headers /\ SkipHeader
  <2>1. /\ Header.type # "PT_LOAD" /\ header' = header + 1 /\ UNCHANGED <<mapped, stage>>
        /\ stage # "loaded"
    BY <1>4 DEF SkipHeader
  <2>2. \A k \in 1 .. header : k \in 1 .. header - 1 \/ k = header
    BY <1>1
  <2> QED
    BY <1>1, <1>2, <2>1, <2>2 DEF Header
<1>5. CASE header \in DOMAIN image.headers /\ MapSegment
  <2>1. /\ mapped' = mapped \cup MappedBy(Header) /\ header' = header + 1
        /\ stage' # "loaded"
    BY <1>5 DEF MapSegment
  <2>2. \A k \in 1 .. header : k \in 1 .. header - 1 \/ k = header
    BY <1>1
  <2> QED
    BY <1>1, <1>2, <2>1, <2>2 DEF Header
<1> QED
  BY <1>3, <1>4, <1>5 DEF NotSupported, MapFails, Fails

LEMMA StepMapped == HeadersMapped /\ [Next]_vars => HeadersMapped'
<1> SUFFICES ASSUME HeadersMapped, [Next]_vars PROVE HeadersMapped'
  OBVIOUS
<1>1. CASE ElfLoad
  BY <1>1, ElfLoadMapped
<1>2. CASE (UNCHANGED <<image, header, mapped>> /\ stage' # "loaded") \/ UNCHANGED loadVars
  BY <1>2 DEF HeadersMapped, loadVars, MappedBy, PageCount
<1>3. ASSUME ReadRest \/ NothingToRead \/ RestRead \/ ClientCalls
      PROVE  UNCHANGED <<image, header, mapped>> /\ stage' # "loaded"
  BY <1>3 DEF ReadRest, NothingToRead, RestRead, ClientCalls, Later
<1> QED
  BY <1>1, <1>2, <1>3 DEF Next, Driver, Load, Controller, Drive, vars

(* When elf_load is done, the pages of all segments are mapped, except for  *)
(* the last of one that starts inside a page.                               *)
THEOREM Mapped == Spec => []SegmentsMapped
<1>1. Init => HeadersMapped
  BY DEF Init, HeadersMapped
<1>2. HeadersMapped => SegmentsMapped
  <2> SUFFICES ASSUME HeadersMapped, stage = "loaded", NEW ph \in Segments, NEW u \in All(ph)
               PROVE  \/ PageOf(u) \in mapped
                      \/ /\ ph.offset % PageUnits # 0
                         /\ PageOf(u) = PageOf(ph.offset + ph.memsz - 1)
    BY DEF SegmentsMapped
  <2>1. PICK k \in DOMAIN image.headers : ph = image.headers[k] /\ ph.type = "PT_LOAD"
    BY DEF Segments, Headers
  <2>2. ph \in ProgramHeader /\ k \in 1 .. header - 1
    BY <2>1, HeaderTypes DEF HeadersMapped
  <2>3. MappedBy(ph) \subseteq mapped
    BY <2>1, <2>2 DEF HeadersMapped
  <2> QED
    BY <2>2, <2>3, PagesReach
<1> QED
  BY <1>1, <1>2, StepMapped, PTL DEF Spec

-----------------------------------------------------------------------------
(* What memory holds of the kernel's file: first what boot has loaded, then *)
(* as many of the sectors that load_entire_kernel asks for as have been     *)
(* moved, and in the end the zeros of the segments that elf_load has passed. *)
DiskNumbered == disk = [s \in Sector |-> [k \in 0 .. SectorUnits - 1 |-> s * SectorUnits + k]]
FilePart(n) == \A u \in Unit : memory[u] = IF u < n THEN FileUnit(u) ELSE Unwritten
IsCleared(u) == \E k \in 1 .. header - 1 :
  k \in DOMAIN image.headers /\ image.headers[k].type = "PT_LOAD" /\ u \in Cleared(image.headers[k])
FileAndZeros == \A u \in Unit :
  memory[u] = IF IsCleared(u) THEN Zero ELSE IF u \in Present THEN FileUnit(u) ELSE Unwritten

FromDisk ==
  /\ stage \in {"ahci_init", "reading", "elf_load", "loaded"} => DiskNumbered
  /\ stage \in {"ahci_init", "reading"} => header = 1
  /\ stage = "ahci_init" => req = NoRequest /\ FilePart(Loaded)
  /\ stage = "reading" => LoadSize > Loaded /\ pc \notin Starting
  /\ stage = "reading" /\ req # NoRequest => req = ToLoad
  /\ stage = "reading" /\ Loadable =>
       /\ req = NoRequest => (ret = "NO_ERROR" => FilePart(Loaded + Read * SectorUnits))
       /\ req # NoRequest =>
            moved \in 0 .. Read /\ FilePart(Loaded + moved * SectorUnits)
  /\ stage \in {"elf_load", "loaded"} => req = NoRequest /\ (Loadable => FileAndZeros)

(* A finite set of natural numbers with a member has a greatest one: the    *)
(* smallest set without one would still be without one if a number were     *)
(* taken from it.                                                           *)
LEMMA MaxLemma ==
  ASSUME NEW S, S \subseteq Nat, S # {}, IsFiniteSet(S)
  PROVE  Max(S) \in S /\ \A x \in S : Max(S) >= x
<1> DEFINE HasMax(T) == \E m \in T : \A x \in T : x <= m
           Size(n) == \E T \in SUBSET Nat : /\ T # {} /\ IsFiniteSet(T) /\ ~ HasMax(T)
                                            /\ Cardinality(T) = n
           Sizes == {n \in Nat : Size(n)}
<1>1. ASSUME NEW T \in SUBSET Nat, T # {}, IsFiniteSet(T), ~ HasMax(T) PROVE FALSE
  <2>1. Cardinality(T) \in Sizes
    BY <1>1, FS_CardinalityType
  <2>2. PICK n \in Sizes : \A k \in Sizes : n <= k
    <3>1. Sizes \subseteq Nat /\ Sizes # {}
      BY <2>1
    <3> HIDE DEF Sizes
    <3> QED
      BY <3>1, MinLemma
  <2>3. PICK U \in SUBSET Nat : /\ U # {} /\ IsFiniteSet(U) /\ ~ HasMax(U)
                                /\ Cardinality(U) = n
    BY <2>2
  <2>4. PICK x \in U : TRUE
    BY <2>3
  <2> DEFINE V == U \ {x}
  <2>5. V \in SUBSET Nat /\ IsFiniteSet(V) /\ Cardinality(V) = n - 1
    BY <2>3, <2>4, FS_RemoveElement
  <2>6. V # {}
    <3>1. V = {} => \A y \in U : y <= x
      BY <2>3, <2>4
    <3> QED
      BY <2>3, <2>4, <3>1
  <2>7. ~ HasMax(V)
    <3> SUFFICES ASSUME NEW m \in V, \A y \in V : y <= m PROVE FALSE
      OBVIOUS
    <3>1. m \in U /\ m \in Nat /\ x \in Nat /\ \A y \in U : y \in Nat /\ (y = x \/ y <= m)
      BY <2>3, <2>4
    <3>2. CASE x <= m
      BY <2>3, <3>1, <3>2
    <3>3. CASE m <= x
      BY <2>3, <2>4, <3>1, <3>3
    <3> QED
      BY <3>1, <3>2, <3>3
  <2>8. n - 1 \in Sizes
    BY <2>5, <2>6, <2>7, FS_CardinalityType
  <2> HIDE DEF Sizes
  <2>9. n \in Nat /\ n - 1 \in Nat
    BY <2>5, <2>2, <2>3, FS_CardinalityType
  <2> QED
    BY <2>2, <2>8, <2>9
<1>2. PICK m \in S : \A x \in S : x <= m
  BY <1>1
<1>3. \A x \in S : m >= x
  BY <1>2
<1> QED
  BY <1>3 DEF Max

LEMMA LoadSizeType == ASSUME image \in Images PROVE LoadSize \in Nat
<1> DEFINE f == [k \in DOMAIN image.headers |-> image.headers[k].offset + image.headers[k].filesz]
           Ends == {ph.offset + ph.filesz : ph \in Headers}
<1>1. PICK n \in Nat : DOMAIN image.headers = 1 .. n
  BY HeaderTypes
<1>2. IsFiniteSet(DOMAIN image.headers)
  BY <1>1, FS_Interval
<1>3. f \in Surjection(DOMAIN image.headers, Ends)
  BY DEF Surjection, Headers
<1>4. \A e \in Ends : e \in Nat
  BY HeaderTypes DEF Headers, ProgramHeader
<1> HIDE DEF f
<1>5. IsFiniteSet(Ends)
  BY <1>2, <1>3, FS_Surjection
<1>6. IsFiniteSet(Ends \cup {0})
  BY <1>5, FS_AddElement
<1>7. {0} \cup Ends = Ends \cup {0}
  OBVIOUS
<1> HIDE DEF Ends
<1>8. Max({0} \cup Ends) \in {0} \cup Ends
  BY <1>4, <1>6, <1>7, MaxLemma
<1> QED
  BY <1>4, <1>8 DEF LoadSize, Ends

(* What is said of the file depends on the file only. *)
LEMMA FileFacts ==
  ASSUME image' = image
  PROVE  /\ Headers' = Headers /\ LoadSize' = LoadSize /\ ToLoad' = ToLoad
         /\ Read' = Read /\ Loadable' = Loadable /\ Present' = Present /\ Loaded' = Loaded
         /\ \A u : FileUnit(u)' = FileUnit(u)
         /\ \A ph : Cleared(ph)' = Cleared(ph)
<1>1. Headers' = Headers
  BY DEF Headers
<1>2. Loaded' = Loaded /\ LoadSize' = LoadSize
  BY <1>1 DEF Loaded, LoadSize
<1>3. ToLoad' = ToLoad
  BY <1>2 DEF ToLoad
<1>4. Read' = Read
  BY <1>2, <1>3 DEF Read
<1>5. \A ph : Cleared(ph)' = Cleared(ph)
  BY DEF Cleared
<1> QED
  BY <1>1, <1>2, <1>3, <1>4, <1>5 DEF Loadable, Present, FileUnit, FileLba

LEMMA FileNumbers ==
  ASSUME image \in Images
  PROVE  /\ SectorUnits \in Nat \ {0} /\ Loaded \in Nat /\ LoadSize \in Nat
         /\ Loadable => Read \in Nat
         /\ LoadSize > Loaded /\ Loadable => Read = ToLoad.count /\ Read \in 1 .. PrdSectors
         /\ Unit \subseteq Nat
<1>1. SectorUnits \in Nat \ {0} /\ Loaded \in Nat
  BY AhciAssumption, KernelLoadAssumption DEF Loaded
<1>2. LoadSize \in Nat
  BY LoadSizeType
<1>3. Loadable => Read \in Nat
  BY <1>1, <1>2, AhciAssumption DEF Loadable, Read
<1>4. LoadSize > Loaded /\ Loadable => Read = ToLoad.count /\ Read \in 1 .. PrdSectors
  BY <1>1, <1>2 DEF Loadable, Read
<1> QED
  BY <1>1, <1>2, <1>3, <1>4, AhciAssumption DEF Unit

LEMMA QuietFromDisk ==
  ASSUME FromDisk, UNCHANGED <<memory, disk, req, moved, loadVars>>,
         stage = "reading" => ret' = ret /\ pc' \notin Starting
  PROVE  FromDisk'
<1>1. FileAndZeros' = FileAndZeros
  BY FileFacts DEF FileAndZeros, IsCleared, loadVars
<1>2. FilePart(Loaded)' = FilePart(Loaded) /\ DiskNumbered' = DiskNumbered
  BY FileFacts DEF FilePart, DiskNumbered, loadVars
<1>3. /\ FilePart(Loaded + Read * SectorUnits)' = FilePart(Loaded + Read * SectorUnits)
      /\ FilePart(Loaded + moved * SectorUnits)' = FilePart(Loaded + moved * SectorUnits)
  BY FileFacts DEF FilePart, loadVars
<1> QED
  BY <1>1, <1>2, <1>3, FileFacts DEF FromDisk, loadVars

(* The driver answers NO_ERROR when all sectors have been moved. *)
LEMMA AnswerFromDisk ==
  ASSUME Commands, FromDisk, image \in Images, NEW from \in Polling, NEW err,
         Answer(from, err), err = "NO_ERROR" => slot \notin ci, UNCHANGED loadVars
  PROVE  FromDisk'
<1>1. pc \in Polling /\ req # NoRequest /\ pc' = "idle"
  BY DEF Answer, Go, Commands, OneRequest, Running
<1>2. /\ req' = NoRequest /\ ret' = err /\ UNCHANGED <<memory, disk, loadVars>>
  BY DEF Answer
<1>3. stage \notin {"ahci_init", "elf_load", "loaded"}
  BY <1>1 DEF FromDisk
<1>4. stage = "reading" /\ Loadable /\ err = "NO_ERROR" =>
        FilePart(Loaded + Read * SectorUnits)
  <2> SUFFICES ASSUME stage = "reading", Loadable, err = "NO_ERROR"
               PROVE  FilePart(Loaded + Read * SectorUnits)
    OBVIOUS
  <2>1. req = ToLoad /\ FilePart(Loaded + moved * SectorUnits) /\ LoadSize > Loaded
    BY <1>1 DEF FromDisk
  <2>2. req.count = Read /\ Read \in 1 .. PrdSectors
    BY <2>1, FileNumbers
  <2>3. moved = Read
    BY <1>1, <2>2 DEF Commands, AllMoved
  <2> QED
    BY <2>1, <2>3
<1>5. FilePart(Loaded + Read * SectorUnits)' = FilePart(Loaded + Read * SectorUnits)
  BY <1>2, FileFacts DEF FilePart, loadVars
<1> QED
  BY <1>1, <1>2, <1>3, <1>4, <1>5, FileFacts DEF FromDisk, DiskNumbered, loadVars, Starting

(* The next sector of the file comes after what memory holds of it. *)
LEMMA TransferFromDisk ==
  ASSUME Commands, FromDisk, image \in Images, Transfer, UNCHANGED loadVars
  PROVE  FromDisk'
<1>1. /\ serving = slot /\ pc \in Polling /\ req # NoRequest
      /\ Current = Command(req)
  BY DEF Transfer, Commands, OneRequest, OneCommand, Running, Current
<1>2. stage \notin {"ahci_init", "elf_load", "loaded"}
  BY <1>1 DEF FromDisk
<1>3. /\ moved' = moved + 1 /\ UNCHANGED <<req, ret, pc>>
  BY DEF Transfer, driverVars
<1>4. CASE stage # "reading"
  BY <1>2, <1>4, FileFacts DEF FromDisk, loadVars
<1>5. CASE stage = "reading"
  <2>1. DiskNumbered /\ header = 1 /\ LoadSize > Loaded /\ pc \notin Starting
    BY <1>5 DEF FromDisk
  <2> DEFINE c == Command(req)
  <2>2. c.fis.lba = NextLba /\ ~ c.fis.write /\ c.buffer = Loaded /\ req = ToLoad
    BY <1>1, <1>5 DEF FromDisk, Command, HostToDevice, ToLoad
  <2>3. CASE ~ Loadable
    <3>1. disk' = disk
      BY <1>1, <2>2 DEF Transfer
    <3> QED
      BY <1>1, <1>3, <1>5, <2>1, <2>2, <2>3, <3>1, FileFacts
      DEF FromDisk, DiskNumbered, loadVars
  <2>4. CASE Loadable
    <3>1. /\ req = ToLoad /\ moved \in 0 .. Read /\ FilePart(Loaded + moved * SectorUnits)
          /\ req.count = Read /\ Read \in 1 .. PrdSectors
      BY <1>1, <1>5, <2>1, <2>4, FileNumbers DEF FromDisk
    <3>2. /\ Current.fis.lba = NextLba /\ ~ Current.fis.write /\ Current.buffer = Loaded
          /\ Current.fis.count = Read /\ Asked = Read
      <4>1. c.fis.count = Read /\ Read # 0
        BY <3>1, CountHeld
      <4> HIDE DEF c
      <4> QED
        BY <1>1, <2>2, <4>1 DEF Asked, c
    <3> DEFINE a == Loaded + moved * SectorUnits
               b == Loaded + (moved + 1) * SectorUnits
    <3>3. moved < Read /\ Address = a /\ NextLba + moved \in Sector
      <4>1. moved < Read /\ NextLba + Read <= DiskSectors
        BY <3>2 DEF Transfer, OnDisk
      <4> QED
        BY <3>1, <3>2, <4>1, KernelLoadAssumption, AhciAssumption DEF Address, Sector
    <3>4. /\ disk' = disk
          /\ memory' = [u \in Unit |-> IF u \in a .. a + SectorUnits - 1
                                       THEN disk[NextLba + moved][u - a] ELSE memory[u]]
      BY <3>2, <3>3 DEF Transfer
    <3>5. a \in Nat /\ b = a + SectorUnits /\ SectorUnits \in Nat \ {0}
      <4>1. moved \in Nat /\ SectorUnits \in Nat /\ Loaded \in Nat /\ SectorUnits # 0
        BY <3>1, FileNumbers
      <4>2. moved * SectorUnits \in Nat /\ (moved + 1) * SectorUnits = moved * SectorUnits + SectorUnits
        BY <4>1
      <4> QED
        BY <4>1, <4>2
    <3>6. ASSUME NEW u \in Unit, u \in a .. a + SectorUnits - 1
          PROVE  disk[NextLba + moved][u - a] = FileUnit(u)
      <4>1. u \in Nat /\ u - a \in 0 .. SectorUnits - 1
        BY <3>5, <3>6, FileNumbers
      <4>2. disk[NextLba + moved] = [k \in 0 .. SectorUnits - 1 |-> (NextLba + moved) * SectorUnits + k]
        BY <2>1, <3>3 DEF DiskNumbered
      <4>3. disk[NextLba + moved][u - a] = (NextLba + moved) * SectorUnits + (u - a)
        BY <4>1, <4>2
      <4>4. (NextLba + moved) * SectorUnits + (u - a)
             = (NextLba - BootLoadedSectors) * SectorUnits + u
        <5>1. /\ NextLba \in Nat /\ moved \in Nat /\ SectorUnits \in Nat /\ BootLoadedSectors \in Nat
          BY <3>1, <3>5, KernelLoadAssumption
        <5>2. /\ (NextLba + moved) * SectorUnits = NextLba * SectorUnits + moved * SectorUnits
              /\ (NextLba - BootLoadedSectors) * SectorUnits
                   = NextLba * SectorUnits - BootLoadedSectors * SectorUnits
          BY <5>1
        <5>3. /\ NextLba * SectorUnits \in Nat /\ moved * SectorUnits \in Nat
              /\ BootLoadedSectors * SectorUnits \in Nat
          BY <5>1
        <5> QED
          BY <4>1, <5>2, <5>3 DEF Loaded
      <4> QED
        BY <4>3, <4>4 DEF FileUnit, FileLba
    <3>7. \A u \in Unit : memory'[u] = IF u < b THEN FileUnit(u) ELSE Unwritten
      <4>1. \A u \in Unit : memory[u] = IF u < a THEN FileUnit(u) ELSE Unwritten
        BY <3>1 DEF FilePart
      <4> HIDE DEF a, b
      <4>2. ASSUME NEW u \in Unit
            PROVE  memory'[u] = IF u < b THEN FileUnit(u) ELSE Unwritten
        <5>1. u \in Nat
          BY FileNumbers
        <5>2. CASE u \in a .. a + SectorUnits - 1
          <6>1. memory'[u] = FileUnit(u)
            BY <3>4, <3>6, <5>2
          <6>2. u < b
            BY <3>5, <5>1, <5>2
          <6> QED
            BY <6>1, <6>2
        <5>3. CASE u \notin a .. a + SectorUnits - 1
          <6>1. memory'[u] = memory[u]
            BY <3>4, <5>3
          <6>2. u < a <=> u < b
            BY <3>5, <5>1, <5>3
          <6> QED
            BY <4>1, <6>1, <6>2
        <5> QED
          BY <5>2, <5>3
      <4> QED
        BY <4>2
    <3>8. FilePart(Loaded + moved * SectorUnits)'
      BY <1>3, <3>7, FileFacts DEF FilePart, loadVars
    <3>9. moved' \in 0 .. Read
      BY <1>3, <3>1, <3>3
    <3> QED
      BY <1>1, <1>3, <1>5, <2>1, <2>4, <3>1, <3>4, <3>8, <3>9, FileFacts
      DEF FromDisk, DiskNumbered, loadVars
  <2> QED
    BY <2>3, <2>4
<1> QED
  BY <1>4, <1>5

LEMMA DriverFromDisk ==
  ASSUME Commands, FromDisk, image \in Images, Driver
  PROVE  FromDisk'
<1> USE DEF driverVars, deviceVars, initVars
<1>1. UNCHANGED loadVars
  BY DEF Driver
<1>2. CASE FindController \/ InitPorts
  <2>1. pc \in Starting /\ UNCHANGED <<memory, disk, req, moved>>
    BY <1>2 DEF FindController, InitPorts, SkipPort, SetUpPort, StartCmd, PortsDone,
                HookFails, Go, Starting
  <2>2. stage # "reading"
    BY <2>1 DEF FromDisk
  <2> QED
    BY <1>1, <2>1, <2>2, QuietFromDisk
<1>3. CASE FindSlot \/ Issue \/ Again("poll_ci", "poll_is") \/ Again("poll_is", "poll_ci")
  <2>1. pc' \notin Starting /\ ret' = ret /\ UNCHANGED <<memory, disk, req, moved>>
    BY <1>3 DEF FindSlot, Issue, Again, Go, Starting
  <2> QED
    BY <1>1, <2>1, QuietFromDisk
<1>4. CASE slot \notin ci /\ Answer("poll_ci", "NO_ERROR")
  BY <1>1, <1>4, AnswerFromDisk DEF Polling
<1>5. CASE Answer("poll_is", "BAD_PARAM")
  BY <1>1, <1>5, AnswerFromDisk DEF Polling
<1> QED
  BY <1>2, <1>3, <1>4, <1>5 DEF Driver, ReadWrite, PollCi, PollIs

LEMMA DriveFromDisk ==
  ASSUME Commands, FromDisk, image \in Images, Drive
  PROVE  FromDisk'
<1>1. CASE Transfer
  BY <1>1, TransferFromDisk DEF Drive
<1>2. CASE BecomeReady \/ Serve \/ Complete \/ TaskFileError
  BY <1>2, QuietFromDisk
  DEF Drive, BecomeReady, Serve, Complete, TaskFileError, driverVars, FromDisk
<1> QED
  BY <1>1, <1>2 DEF Drive, Device

LEMMA ReadFromDisk ==
  ASSUME FromDisk, image \in Images, ReadRest
  PROVE  FromDisk'
<1>1. /\ stage = "ahci_init" /\ stage' = "reading" /\ LoadSize > Loaded
      /\ req' = ToLoad /\ moved' = 0 /\ pc' \in {"wild", "find_slot"}
      /\ UNCHANGED <<image, header, memory, disk>>
  BY DEF ReadRest, Request, Go
<1>2. DiskNumbered /\ header = 1 /\ FilePart(Loaded)
  BY <1>1 DEF FromDisk
<1>3. Loaded + 0 * SectorUnits = Loaded
  BY FileNumbers
<1>4. FilePart(Loaded + moved * SectorUnits)'
  BY <1>1, <1>2, <1>3, FileFacts DEF FilePart
<1>5. ToLoad # NoRequest
  BY AhciAssumption, KernelLoadAssumption DEF ToLoad, NoRequest, Loaded
<1>6. Loadable => 0 \in 0 .. Read
  BY FileNumbers
<1> QED
  BY <1>1, <1>2, <1>4, <1>5, <1>6, FileFacts DEF FromDisk, DiskNumbered, Starting

(* All of the file that can be loaded is in memory, and nothing is cleared. *)
LEMMA AllLoaded ==
  ASSUME image \in Images, image' = image, memory' = memory, header' = 1, Loadable,
         FilePart(Loaded + Read * SectorUnits)
  PROVE  FileAndZeros'
<1>1. \A u : ~ IsCleared(u)'
  BY DEF IsCleared
<1>2. \A u \in Unit : u \in Present <=> u < Loaded + Read * SectorUnits
  <2>1. Loaded \in Nat /\ Read \in Nat /\ SectorUnits \in Nat /\ Unit \subseteq Nat
    BY FileNumbers
  <2>2. Loaded + Read * SectorUnits \in Nat
    BY <2>1
  <2> QED
    BY <2>1, <2>2 DEF Present
<1> QED
  BY <1>1, <1>2, FileFacts DEF FileAndZeros, FilePart

LEMMA ReadDoneFromDisk ==
  ASSUME Commands, FromDisk, image \in Images, NothingToRead \/ RestRead
  PROVE  FromDisk'
<1>1. UNCHANGED <<image, header, memory, disk, req>>
  BY DEF NothingToRead, RestRead, ahciVars, driverVars
<1>2. pc = "idle" /\ stage \in {"ahci_init", "reading"}
  BY DEF NothingToRead, RestRead
<1>3. req = NoRequest
  BY <1>2 DEF Commands, OneRequest
<1>4. DiskNumbered /\ header = 1
  BY <1>2 DEF FromDisk
<1>5. CASE stage' = "failed"
  BY <1>5 DEF FromDisk
<1>6. CASE stage' = "elf_load"
  <2>1. Loadable => FilePart(Loaded + Read * SectorUnits)
    <3>1. CASE NothingToRead
      <4>1. FilePart(Loaded) /\ Read = 0
        BY <3>1 DEF NothingToRead, FromDisk, Read
      <4>2. Loaded + 0 * SectorUnits = Loaded
        BY FileNumbers
      <4> QED
        BY <4>1, <4>2
    <3>2. CASE RestRead
      BY <1>3, <1>6, <3>2 DEF RestRead, FromDisk
    <3> QED
      BY <3>1, <3>2
  <2>2. Loadable' => FileAndZeros'
    BY <1>1, <1>4, <2>1, AllLoaded, FileFacts
  <2> QED
    BY <1>1, <1>3, <1>4, <1>6, <2>2 DEF FromDisk, DiskNumbered
<1> QED
  BY <1>5, <1>6 DEF NothingToRead, RestRead

LEMMA ElfLoadFromDisk ==
  ASSUME Commands, HeadersMapped, FromDisk, ElfLoad
  PROVE  FromDisk'
<1>1. /\ UNCHANGED <<image, disk, req>> /\ stage = "elf_load" /\ header \in Nat \ {0}
  BY DEF ElfLoad, driverVars, HeadersMapped
<1>2. DiskNumbered' /\ req = NoRequest /\ (Loadable => FileAndZeros)
  BY <1>1 DEF FromDisk, DiskNumbered
<1>3. CASE stage' = "failed" \/ stage' = "faulting"
  BY <1>3 DEF FromDisk
<1>4. ASSUME stage' \in {"elf_load", "loaded"}, Loadable' => FileAndZeros'
      PROVE  FromDisk'
  BY <1>1, <1>2, <1>4 DEF FromDisk
<1>5. CASE memory' = memory /\ header' = header /\ stage' = "loaded"
  <2>1. FileAndZeros' = FileAndZeros
    BY <1>1, <1>5, FileFacts DEF FileAndZeros, IsCleared
  <2> QED
    BY <1>1, <1>2, <1>4, <1>5, <2>1, FileFacts
<1>6. header' = header + 1 => \A k \in 1 .. header' - 1 : k \in 1 .. header - 1 \/ k = header
  BY <1>1
<1>7. CASE SkipHeader
  <2>1. /\ memory' = memory /\ header' = header + 1 /\ stage' = stage
        /\ Header.type # "PT_LOAD"
    BY <1>7 DEF SkipHeader
  <2>2. \A u : IsCleared(u)' <=> IsCleared(u)
    BY <1>1, <1>6, <2>1, FileFacts DEF IsCleared, Header
  <2>3. FileAndZeros' <=> FileAndZeros
    BY <1>1, <2>1, <2>2, FileFacts DEF FileAndZeros
  <2> QED
    BY <1>1, <1>2, <1>4, <2>1, <2>3, FileFacts
<1>8. CASE /\ header \in DOMAIN image.headers /\ Header.type = "PT_LOAD"
           /\ MapSegment /\ stage' # "faulting"
  <2>1. /\ header' = header + 1 /\ stage' = stage
        /\ memory' = [u \in Unit |-> IF u \in Cleared(Header) THEN Zero ELSE memory[u]]
    BY <1>8 DEF MapSegment
  <2>2. \A u : IsCleared(u)' <=> IsCleared(u) \/ u \in Cleared(Header)
    BY <1>1, <1>6, <1>8, <2>1, FileFacts DEF IsCleared, Header
  <2>3. FileAndZeros => FileAndZeros'
    BY <1>1, <2>1, <2>2, FileFacts DEF FileAndZeros
  <2> QED
    BY <1>1, <1>2, <1>4, <2>1, <2>3, FileFacts
<1> QED
  BY <1>3, <1>5, <1>7, <1>8 DEF ElfLoad, NotSupported, MapFails, Fails

LEMMA StepFromDisk ==
  Commands /\ HeadersMapped /\ FromDisk /\ [Next]_vars => FromDisk'
<1> SUFFICES ASSUME Commands, HeadersMapped, FromDisk, [Next]_vars PROVE FromDisk'
  OBVIOUS
<1>1. image \in Images
  BY DEF HeadersMapped
<1>2. CASE Controller \/ UNCHANGED vars
  BY <1>2, QuietFromDisk
  DEF Controller, Follow, vars, ahciVars, deviceVars, driverVars, loadVars, FromDisk
<1>3. CASE ClientCalls
  <2>1. stage' \in {"used", "used_again"}
    BY <1>3 DEF ClientCalls, Later
  <2> QED
    BY <2>1 DEF FromDisk
<1> QED
  BY <1>1, <1>2, <1>3, DriverFromDisk, DriveFromDisk, ReadFromDisk, ReadDoneFromDisk,
     ElfLoadFromDisk DEF Next, Load

(* The zeros of no segment lie in another's data. *)
LEMMA InPlace ==
  ASSUME HeadersMapped, FromDisk, stage = "loaded", Loadable
  PROVE  KernelInPlace
<1> USE DEF HeadersMapped
<1>1. FileAndZeros
  BY DEF FromDisk
<1>2. \A k \in DOMAIN image.headers : k \in 1 .. header - 1
  BY HeaderTypes
<1>3. \A u : IsCleared(u) <=> \E ph \in Segments : u \in Cleared(ph)
  BY <1>2 DEF IsCleared, Segments, Headers
<1>4. ASSUME NEW ph \in Segments
      PROVE  /\ ph \in ProgramHeader /\ SegmentFits(ph)
             /\ \A other \in Segments : ClearOf(ph, other)
  BY HeaderTypes, ImagesAssumption DEF Segments, Headers
<1>5. ASSUME NEW ph \in Segments
      PROVE  /\ All(ph) \subseteq Unit /\ Data(ph) \subseteq All(ph)
             /\ Cleared(ph) = All(ph) \ Data(ph)
  <2> DEFINE o == ph.offset
             f == ph.filesz
             m == ph.memsz
  <2>1. o \in Nat /\ f \in Nat /\ m \in Nat /\ f <= m /\ o + m <= MemoryUnits
    BY <1>4 DEF ProgramHeader, SegmentFits
  <2>2. /\ All(ph) = o .. o + m - 1 /\ Data(ph) = o .. o + f - 1
        /\ Cleared(ph) = o + f .. o + m - 1
    BY DEF All, Data, Cleared
  <2> HIDE DEF o, f, m
  <2>3. All(ph) \subseteq Unit /\ Data(ph) \subseteq All(ph)
    <3>1. \A u \in o .. o + m - 1 : u \in 0 .. MemoryUnits - 1
      BY <2>1, AhciAssumption
    <3>2. \A u \in o .. o + f - 1 : u \in o .. o + m - 1
      BY <2>1
    <3> QED
      BY <2>2, <3>1, <3>2 DEF Unit
  <2>4. ASSUME NEW u PROVE u \in Cleared(ph) <=> u \in All(ph) \ Data(ph)
    BY <2>1, <2>2
  <2> QED
    BY <2>3, <2>4
<1>6. ASSUME NEW ph \in Segments, NEW other \in Segments
      PROVE  Cleared(ph) \cap Data(other) = {}
  <2>1. /\ ph.offset \in Nat /\ ph.filesz \in Nat /\ ph.memsz \in Nat
        /\ other.offset \in Nat /\ other.filesz \in Nat
    BY <1>4 DEF ProgramHeader
  <2>2. ClearOf(ph, other)
    BY <1>4
  <2> QED
    BY <2>1, <2>2 DEF ClearOf, Cleared, Data
<1>7. ASSUME NEW ph \in Segments, NEW u \in Data(ph) \cap Present
      PROVE  memory[u] = FileUnit(u)
  <2>1. u \in Unit /\ ~ IsCleared(u)
    BY <1>3, <1>5, <1>6
  <2> QED
    BY <1>1, <2>1 DEF FileAndZeros
<1>8. ASSUME NEW ph \in Segments, NEW u \in All(ph) \ Data(ph)
      PROVE  memory[u] = Zero
  <2>1. u \in Unit /\ IsCleared(u)
    BY <1>3, <1>5
  <2> QED
    BY <1>1, <2>1 DEF FileAndZeros
<1>9. ASSUME NEW u \in Unit \ (Present \cup UNION {All(ph) : ph \in Segments})
      PROVE  memory[u] = Unwritten
  <2>1. ~ IsCleared(u)
    BY <1>3, <1>5
  <2> QED
    BY <1>1, <2>1 DEF FileAndZeros
<1> QED
  BY <1>7, <1>8, <1>9 DEF KernelInPlace

(* When load_entire_kernel has succeeded, every segment of a file that      *)
(* could be loaded is in memory, its data first and then zeros, and nothing *)
(* else has changed: for any file whose segments fit, any division of it    *)
(* between the boot sector and the driver, and any machine.                 *)
THEOREM Placed == Spec => []KernelInPlace
<1>1. Init => HeadersMapped /\ FromDisk
  BY DEF Init, AhciInit, HeadersMapped, FromDisk, DiskNumbered, FilePart
<1>2. HeadersMapped /\ FromDisk => KernelInPlace
  BY InPlace DEF KernelInPlace
<1>3. IInv /\ HeadersMapped /\ FromDisk /\ [Next]_vars => HeadersMapped' /\ FromDisk'
  BY StepMapped, StepFromDisk DEF IInv
<1> QED
  BY InitIInv, StepIInv, <1>1, <1>2, <1>3, PTL DEF Spec
=============================================================================
