--------------------------- MODULE Qualification ---------------------------
(***************************************************************************)
(* Which laptops may become hosts: the gates of internal/join/hardware.go, *)
(* the rows of the pre-flight screen (internal/join/checks.go), which      *)
(* repeat the gates with a colour each, and which of the two the terminal  *)
(* UI goes by (internal/join/model.go).  Sizes are in tenths of a GB.      *)
(***************************************************************************)
EXTENDS Integers

(* GPU and driver are what nvidiaProbe finds; no GPU comes with driver 0.   *)
Hardware ==
  [OS : {"linux", "windows", "darwin"}, CPU : Nat, RAMGB : Nat, GPU : BOOLEAN,
   DriverMajor : Nat, DiskFreeGB : Nat, HasSudo : BOOLEAN, MasterOnline : BOOLEAN]

(* DefaultThresholds *)
MinCPU     == 8
MinRAMGB   == 160
MinDriver  == 535
WantDriver == 550
MinDiskGB  == 250

(* Qualify, its reason left out: the first gate that fails makes a Guest.   *)
Qualify(hw) ==
  IF /\ hw.OS # "darwin"
     /\ hw.CPU >= MinCPU
     /\ hw.RAMGB >= MinRAMGB
     /\ hw.GPU
     /\ hw.DriverMajor >= MinDriver
     /\ hw.DiskFreeGB >= MinDiskGB
     /\ hw.HasSudo
     /\ hw.MasterOnline
  THEN "Host" ELSE "Guest"

DriverBand(major) ==
  IF major < MinDriver THEN "red"
  ELSE IF major < WantDriver THEN "amber" ELSE "green"

Row(name, good) == [name |-> name, state |-> IF good THEN "green" ELSE "red"]

(* Mutant: the recommended driver is asked for, not the required one.       *)
CheckRows_AmberOnly(hw, hasMaster, online) ==
  IF hw.OS = "darwin" THEN {Row("OS", FALSE)}
  ELSE {Row("OS", TRUE), Row("CPU", hw.CPU >= MinCPU),
        Row("RAM", hw.RAMGB >= MinRAMGB), Row("GPU", hw.GPU),
        [name |-> "Driver", state |-> IF hw.DriverMajor < WantDriver
                                      THEN "amber" ELSE "green"],
        Row("Disk", hw.DiskFreeGB >= MinDiskGB), Row("Sudo", hw.HasSudo)}
       \cup {IF hasMaster THEN Row("Network", online) ELSE Row("Master", FALSE)}

(* The rows, in any order; hasMaster tells whether a master address is set. *)
CheckRows(hw, hasMaster, online) ==
  IF hw.OS = "darwin" THEN {Row("OS", FALSE)}
  ELSE {Row("OS", TRUE), Row("CPU", hw.CPU >= MinCPU),
        Row("RAM", hw.RAMGB >= MinRAMGB), Row("GPU", hw.GPU),
        [name |-> "Driver", state |-> DriverBand(hw.DriverMajor)],
        Row("Disk", hw.DiskFreeGB >= MinDiskGB), Row("Sudo", hw.HasSudo)}
       \cup {IF hasMaster THEN Row("Network", online) ELSE Row("Master", FALSE)}

(* handleKey's hasRed.                                                      *)
HasRed(rows) == \E r \in rows : r.state = "red"

=============================================================================
