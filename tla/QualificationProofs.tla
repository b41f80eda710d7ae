------------------------ MODULE QualificationProofs ------------------------
(***************************************************************************)
(* The pre-flight screen and the gates agree, whatever the hardware: the   *)
(* colours of CheckRows, which the UI goes by, and the verdict of Qualify, *)
(* which only the tests call, are two statements of one condition.         *)
(***************************************************************************)
EXTENDS Qualification, TLAPS

(* A machine as Qualify sees it once the probe of the master is done.       *)
Probed(hw, online) == [hw EXCEPT !.MasterOnline = online]

(* Only a driver below the required version is red: an amber one, required  *)
(* but not recommended, stops nobody (DriverBand).                          *)
LEMMA RedDriver ==
  ASSUME NEW major \in Nat
  PROVE  DriverBand(major) = "red" <=> major < MinDriver
BY DEF DriverBand, MinDriver, WantDriver

(* The rows of anything but a Mac, one by one.                              *)
LEMMA RedRows ==
  ASSUME NEW hw \in Hardware, hw.OS # "darwin",
         NEW hasMaster \in BOOLEAN, NEW online \in BOOLEAN
  PROVE  HasRed(CheckRows(hw, hasMaster, online)) <=>
           \/ hw.CPU < MinCPU \/ hw.RAMGB < MinRAMGB \/ ~hw.GPU
           \/ hw.DriverMajor < MinDriver
           \/ hw.DiskFreeGB < MinDiskGB \/ ~hw.HasSudo
           \/ ~hasMaster \/ ~online
<1> DEFINE rows == CheckRows(hw, hasMaster, online)
           driver == [name |-> "Driver", state |-> DriverBand(hw.DriverMajor)]
           net == IF hasMaster THEN Row("Network", online) ELSE Row("Master", FALSE)
<1>1. /\ hw.CPU \in Nat /\ hw.RAMGB \in Nat /\ hw.DriverMajor \in Nat
      /\ hw.DiskFreeGB \in Nat /\ hw.GPU \in BOOLEAN /\ hw.HasSudo \in BOOLEAN
  BY DEF Hardware
<1>2. ASSUME NEW name, NEW good \in BOOLEAN
      PROVE  Row(name, good).state = "red" <=> ~good
  BY DEF Row
<1>3. rows = {Row("OS", TRUE), Row("CPU", hw.CPU >= MinCPU),
              Row("RAM", hw.RAMGB >= MinRAMGB), Row("GPU", hw.GPU), driver,
              Row("Disk", hw.DiskFreeGB >= MinDiskGB), Row("Sudo", hw.HasSudo), net}
  BY DEF CheckRows
<1>4. HasRed(rows) <=>
        \/ Row("OS", TRUE).state = "red"
        \/ Row("CPU", hw.CPU >= MinCPU).state = "red"
        \/ Row("RAM", hw.RAMGB >= MinRAMGB).state = "red"
        \/ Row("GPU", hw.GPU).state = "red"
        \/ driver.state = "red"
        \/ Row("Disk", hw.DiskFreeGB >= MinDiskGB).state = "red"
        \/ Row("Sudo", hw.HasSudo).state = "red" \/ net.state = "red"
  <2> HIDE DEF rows, driver, net
  <2> QED BY <1>3 DEF HasRed
<1>5. /\ Row("OS", TRUE).state # "red"
      /\ Row("CPU", hw.CPU >= MinCPU).state = "red" <=> ~(hw.CPU >= MinCPU)
      /\ Row("RAM", hw.RAMGB >= MinRAMGB).state = "red" <=> ~(hw.RAMGB >= MinRAMGB)
      /\ Row("GPU", hw.GPU).state = "red" <=> ~hw.GPU
      /\ Row("Disk", hw.DiskFreeGB >= MinDiskGB).state = "red"
           <=> ~(hw.DiskFreeGB >= MinDiskGB)
      /\ Row("Sudo", hw.HasSudo).state = "red" <=> ~hw.HasSudo
  BY DEF Row
<1>6. driver.state = "red" <=> hw.DriverMajor < MinDriver
  BY <1>1, RedDriver
<1>7. net.state = "red" <=> ~hasMaster \/ ~online
  BY <1>2
<1> HIDE DEF rows, driver, net
<1>8. HasRed(rows) <=>
        \/ ~(hw.CPU >= MinCPU) \/ ~(hw.RAMGB >= MinRAMGB) \/ ~hw.GPU
        \/ hw.DriverMajor < MinDriver
        \/ ~(hw.DiskFreeGB >= MinDiskGB) \/ ~hw.HasSudo
        \/ ~hasMaster \/ ~online
  BY <1>4, <1>5, <1>6, <1>7
<1>9. QED BY <1>1, <1>8 DEF rows, MinCPU, MinRAMGB, MinDiskGB

(* The UI lets a machine past the checks screen exactly when Qualify, asked *)
(* with the outcome of the probe, would make it a Host (checks.go, 20-62,   *)
(* and hardware.go, 52-80).  The probe needs an address: no machine is      *)
(* online without one.                                                      *)
THEOREM RowsAgree ==
  ASSUME NEW hw \in Hardware, NEW hasMaster \in BOOLEAN, NEW online \in BOOLEAN,
         online => hasMaster
  PROVE  ~HasRed(CheckRows(hw, hasMaster, online))
           <=> Qualify(Probed(hw, online)) = "Host"
<1> DEFINE on == Probed(hw, online)
<1>1. /\ on.OS = hw.OS /\ on.CPU = hw.CPU /\ on.RAMGB = hw.RAMGB
      /\ on.GPU = hw.GPU /\ on.DriverMajor = hw.DriverMajor
      /\ on.DiskFreeGB = hw.DiskFreeGB /\ on.HasSudo = hw.HasSudo
      /\ on.MasterOnline = online
  BY DEF Hardware, Probed
<1>2. /\ hw.CPU \in Nat /\ hw.RAMGB \in Nat /\ hw.DriverMajor \in Nat
      /\ hw.DiskFreeGB \in Nat /\ hw.GPU \in BOOLEAN /\ hw.HasSudo \in BOOLEAN
  BY DEF Hardware
<1>3. CASE hw.OS = "darwin"
  <2>1. Row("OS", FALSE).state = "red"
    BY DEF Row
  <2>2. HasRed(CheckRows(hw, hasMaster, online))
    BY <1>3, <2>1 DEF HasRed, CheckRows
  <2>3. Qualify(on) # "Host"
    BY <1>1, <1>3 DEF Qualify
  <2>4. QED BY <2>2, <2>3
<1>4. CASE hw.OS # "darwin"
  <2>1. Qualify(on) = "Host" <=>
          /\ hw.CPU >= MinCPU /\ hw.RAMGB >= MinRAMGB /\ hw.GPU
          /\ hw.DriverMajor >= MinDriver
          /\ hw.DiskFreeGB >= MinDiskGB /\ hw.HasSudo /\ online
    <3> HIDE DEF on
    <3> QED BY <1>1, <1>4 DEF Qualify
  <2> HIDE DEF on
  <2>2. QED
    BY <1>2, <1>4, <2>1, RedRows DEF on, MinCPU, MinRAMGB, MinDiskGB, MinDriver
<1>5. QED BY <1>3, <1>4

=============================================================================
