------------------------------ MODULE ICDTests ------------------------------
(***************************************************************************)
(* The hardware as the acceptance tests of its interface control documents *)
(* (ICD) take it to be: at which address each point answers, which points  *)
(* the cartridges of a band have, and when the hardware refuses.  The      *)
(* tests keep tables of their own, which were written beside the tables of *)
(* the device classes.  Points are named as in Registers.                  *)
(*                                                                         *)
(* There are suites for the cartridges of bands 1, 2, 3, 6, 7 and 9.  In   *)
(* bands 1 and 2 the LNA stages are numbered 1 to 6; their suites, and the *)
(* supply, the CPDS and the FETIM, are not modelled.                       *)
(***************************************************************************)
EXTENDS Registers

SuiteBands == {3, 6, 7, 9}

(***************************************************************************)
(* Cold cartridge.                                                         *)
(***************************************************************************)
ColdCartTestOffset ==
    [ SIS_VOLTAGE |-> \h8, SIS_CURRENT |-> \h10, SIS_OPEN_LOOP |-> \h18,
      SIS_MAGNET_VOLTAGE |-> \h20, SIS_MAGNET_CURRENT |-> \h30,
      LNA_ENABLE |-> \h58, LNA1_DRAIN_VOLTAGE |-> \h40,
      LNA1_DRAIN_CURRENT |-> \h41, LNA1_GATE_VOLTAGE |-> \h42,
      LNA2_DRAIN_VOLTAGE |-> \h44, LNA2_DRAIN_CURRENT |-> \h45,
      LNA2_GATE_VOLTAGE |-> \h46, LNA3_DRAIN_VOLTAGE |-> \h48,
      LNA3_DRAIN_CURRENT |-> \h49, LNA3_GATE_VOLTAGE |-> \h4A,
      LNA_LED_ENABLE |-> \h100, SIS_HEATER_ENABLE |-> \h180,
      SIS_HEATER_CURRENT |-> \h1C0, CARTRIDGE_TEMP |-> \h880 ]

\* cartBaseRCA_m, the base of a band.
CartBase(band) == (band - 1) * 2^12

ColdCartTestAddress(band, p) ==
    CartBase(band) + ColdCartTestOffset[p[1]]
        + (IF p[1] = "CARTRIDGE_TEMP" THEN p[2] * \h10
           ELSE p[2] * \h400 + (IF p[3] = 2 THEN \h80 ELSE 0))

\* The second sideband is not tested in band 9.
Sidebands(band) == IF band = 9 THEN {1} ELSE {1, 2}

InSideband(names, sbs) == {p \in Points(Cross(names, PolSbs)) : p[3] \in sbs}

DrainTests(band) ==
    InSideband(<<"LNA1_DRAIN_VOLTAGE", "LNA2_DRAIN_VOLTAGE",
                 "LNA3_DRAIN_VOLTAGE">>, Sidebands(band))

GateTests(band) ==
    InSideband(<<"LNA1_GATE_VOLTAGE", "LNA2_GATE_VOLTAGE",
                 "LNA3_GATE_VOLTAGE">>, Sidebands(band))

\* No LED in bands 7 and 9.
EnableTests(band) ==
    InSideband(<<"LNA_ENABLE">>, Sidebands(band))
    \cup (IF band \in {7, 9} THEN {} ELSE Points(Cross(<<"LNA_LED_ENABLE">>, Pols)))

\* Bands 3 and 4 have no magnets, and bands 6 and 9 one for each polarization.
MagnetSidebands(band) ==
    IF band \in {3, 4} THEN {} ELSE IF band \in {6, 9} THEN {1} ELSE {1, 2}

Heaters(band, name) ==
    IF band \in {3, 4} THEN {} ELSE Points(Cross(<<name>>, Pols))

SISReadTests(band) ==
    InSideband(<<"SIS_CURRENT">>, Sidebands(band))
    \cup InSideband(<<"SIS_MAGNET_VOLTAGE">>, MagnetSidebands(band))
    \cup Heaters(band, "SIS_HEATER_CURRENT")

SISSetTests(band) ==
    InSideband(<<"SIS_VOLTAGE", "SIS_OPEN_LOOP">>, Sidebands(band))
    \cup InSideband(<<"SIS_MAGNET_CURRENT">>, MagnetSidebands(band))
    \cup Heaters(band, "SIS_HEATER_ENABLE")

TempTests == Points(Cross(<<"CARTRIDGE_TEMP">>, UpTo(5)))

ColdCartTests(band) ==
    IF band \notin SuiteBands THEN {}
    ELSE DrainTests(band) \cup GateTests(band) \cup EnableTests(band)
         \cup SISReadTests(band) \cup SISSetTests(band) \cup TempTests

(***************************************************************************)
(* STANDBY2 of band 6: on entering it the cold electronics go off, and     *)
(* while it lasts they can be read and not commanded.  Each test tries     *)
(* some of the points it is about.                                         *)
(***************************************************************************)
StandbyBand == 6

LNAHeld ==
    Points(Cross(<<"LNA_ENABLE">> \o LNADrains, PolSbs))

LEDHeld == Points(Cross(<<"LNA_LED_ENABLE">>, Pols))

SISHeld == Points(Cross(<<"SIS_OPEN_LOOP", "SIS_VOLTAGE">>, PolSbs))

MagnetHeld == Points(Cross(<<"SIS_MAGNET_CURRENT">>, PolSbs))

HeaterHeld == Points(Cross(<<"SIS_HEATER_ENABLE">>, Pols))

HeldInStandby == LNAHeld \cup LEDHeld \cup SISHeld \cup MagnetHeld \cup HeaterHeld

\* Is off after STANDBY2 is entered.
ColdElectronics == LNAHeld \cup LEDHeld \cup SISHeld \cup MagnetHeld

(***************************************************************************)
(* Warm cartridge assembly.                                                *)
(***************************************************************************)
WCATestOffset ==
    [ YTO_COARSE_TUNE |-> \h800, PHOTOMIXER_ENABLE |-> \h810,
      PHOTOMIXER_VOLTAGE |-> \h814, PHOTOMIXER_CURRENT |-> \h818,
      PLL_LOCK_DETECT_VOLTAGE |-> \h820, PLL_CORRECTION_VOLTAGE |-> \h821,
      PLL_ASSEMBLY_TEMP |-> \h822, PLL_YTO_HEATER_CURRENT |-> \h823,
      PLL_REF_TOTAL_POWER |-> \h824, PLL_IF_TOTAL_POWER |-> \h825,
      PLL_UNLOCK_DETECT_LATCH |-> \h827, PLL_CLEAR_UNLOCK_DETECT_LATCH |-> \h828,
      PLL_LOOP_BANDWIDTH_SELECT |-> \h829, PLL_SIDEBAND_LOCK_POL_SELECT |-> \h82A,
      PLL_NULL_LOOP_INTEGRATOR |-> \h82B, AMC_GATE_A_VOLTAGE |-> \h830,
      AMC_DRAIN_A_VOLTAGE |-> \h831, AMC_DRAIN_A_CURRENT |-> \h832,
      AMC_GATE_B_VOLTAGE |-> \h833, AMC_DRAIN_B_VOLTAGE |-> \h834,
      AMC_DRAIN_B_CURRENT |-> \h835, AMC_MULTIPLIER_D_COUNTS |-> \h836,
      AMC_GATE_E_VOLTAGE |-> \h837, AMC_DRAIN_E_VOLTAGE |-> \h838,
      AMC_DRAIN_E_CURRENT |-> \h839, AMC_MULTIPLIER_D_CURRENT |-> \h83A,
      AMC_SUPPLY_VOLTAGE_5V |-> \h83B, PA_GATE_VOLTAGE |-> \h840,
      PA_DRAIN_VOLTAGE |-> \h841, PA_DRAIN_CURRENT |-> \h842,
      PA_SUPPLY_VOLTAGE_3V |-> \h848, PA_SUPPLY_VOLTAGE_5V |-> \h84C ]

\* The second power amplifier is 4 above the first.
WCATestAddress(band, p) == CartBase(band) + WCATestOffset[p[1]] + 4 * p[2]

WCAReadTests ==
    Points(Plain(<<"PHOTOMIXER_VOLTAGE", "PHOTOMIXER_CURRENT",
                   "PLL_LOCK_DETECT_VOLTAGE", "PLL_CORRECTION_VOLTAGE",
                   "PLL_ASSEMBLY_TEMP", "PLL_YTO_HEATER_CURRENT",
                   "PLL_REF_TOTAL_POWER", "PLL_IF_TOTAL_POWER",
                   "AMC_GATE_A_VOLTAGE", "AMC_DRAIN_A_VOLTAGE",
                   "AMC_DRAIN_A_CURRENT", "AMC_GATE_B_VOLTAGE",
                   "AMC_DRAIN_B_VOLTAGE", "AMC_DRAIN_B_CURRENT",
                   "AMC_GATE_E_VOLTAGE", "AMC_DRAIN_E_VOLTAGE",
                   "AMC_DRAIN_E_CURRENT", "AMC_MULTIPLIER_D_COUNTS",
                   "AMC_MULTIPLIER_D_CURRENT", "AMC_SUPPLY_VOLTAGE_5V",
                   "PA_SUPPLY_VOLTAGE_5V">>)
           \o Cross(<<"PA_DRAIN_CURRENT">>, Pols))

\* The latch that PLL_CLEAR_UNLOCK_DETECT_LATCH clears is not read.
WCASetTests ==
    Points(Plain(<<"YTO_COARSE_TUNE", "PHOTOMIXER_ENABLE",
                   "PLL_LOOP_BANDWIDTH_SELECT", "PLL_SIDEBAND_LOCK_POL_SELECT",
                   "PLL_NULL_LOOP_INTEGRATOR">>)
           \o Cross(<<"PA_GATE_VOLTAGE", "PA_DRAIN_VOLTAGE">>, Pols))

WCATests(band) ==
    IF band \in SuiteBands \cup {1} THEN WCAReadTests \cup WCASetTests ELSE {}

\* The command that switches a cartridge on, from which the fixture of every
\* cartridge starts.
CartPowerAddress(band) == (band - 1) * 2^4 + \hA00C

(***************************************************************************)
(* Cryostat.                                                               *)
(***************************************************************************)
CryostatTestOffset ==
    [ CRYOSTAT_TEMP |-> 0, BACKING_PUMP_ENABLE |-> \h34,
      TURBO_PUMP_ENABLE |-> \h38, TURBO_PUMP_STATE |-> \h39,
      TURBO_PUMP_SPEED |-> \h3A, GATE_VALVE_STATE |-> \h3C,
      SOLENOID_VALVE_STATE |-> \h40, VACUUM_CRYOSTAT_PRES |-> \h44,
      VACUUM_PORT_PRES |-> \h45, VACUUM_GAUGE_ENABLE |-> \h46,
      VACUUM_GAUGE_STATE |-> \h47, SUPPLY_CURRENT_230V |-> \h48 ]

CryostatTestAddress(p) == \hC000 + CryostatTestOffset[p[1]] + 4 * p[2]

CryostatTemps == Points(Cross(<<"CRYOSTAT_TEMP">>, UpTo(12)))

\* Refuses commands while the backing pump is off.
RefusedUnpumped == Points(Plain(<<"TURBO_PUMP_ENABLE">>))

\* Reads as an unknown value, flagged as blocked, while the backing pump is
\* off; and so does the current.
UnknownUnpumped ==
    RefusedUnpumped
    \cup Points(Plain(<<"TURBO_PUMP_STATE", "TURBO_PUMP_SPEED",
                        "SOLENOID_VALVE_STATE">>))

CurrentUnpumped == Points(Plain(<<"SUPPLY_CURRENT_230V">>))

VacuumReadTests ==
    Points(Plain(<<"GATE_VALVE_STATE", "VACUUM_CRYOSTAT_PRES",
                   "VACUUM_PORT_PRES", "VACUUM_GAUGE_STATE">>))

VacuumSetTests ==
    Points(Plain(<<"BACKING_PUMP_ENABLE", "TURBO_PUMP_ENABLE",
                   "VACUUM_GAUGE_ENABLE">>))

\* Opened and closed behind running pumps.
ValveTests == Points(Plain(<<"GATE_VALVE_STATE", "SOLENOID_VALVE_STATE">>))

CryostatTests ==
    CryostatTemps \cup UnknownUnpumped \cup CurrentUnpumped
    \cup VacuumReadTests \cup VacuumSetTests \cup ValveTests

(***************************************************************************)
(* IF switch, LPR, compressor.                                             *)
(***************************************************************************)
IFSwitchTestOffset ==
    [ TEMP_SERVO_ENABLE |-> 0, ATTENUATION |-> 1, ASSEMBLY_TEMP |-> 2,
      SWITCH_CARTRIDGE |-> \h10 ]

IFSwitchTestAddress(p) ==
    \hB000 + IFSwitchTestOffset[p[1]] + 4 * p[2] + (IF p[3] = 2 THEN 8 ELSE 0)

\* The band, the attenuations and the servos; a temperature is tested with
\* its servo on and off.
IFSwitchTests ==
    Points(Plain(<<"SWITCH_CARTRIDGE">>)
           \o Cross(<<"ATTENUATION", "TEMP_SERVO_ENABLE", "ASSEMBLY_TEMP">>, PolSbs))

LPRTestOffset ==
    [ LPR_TEMPERATURE_0 |-> 0, LPR_TEMPERATURE_1 |-> \h10,
      OPTICAL_SWITCH_PORT |-> \h20, OPTICAL_SWITCH_SHUTTER |-> \h22,
      OPTICAL_SWITCH_FORCE_SHUTTER |-> \h24, OPTICAL_SWITCH_STATE |-> \h26,
      OPTICAL_SWITCH_BUSY |-> \h28, EDFA_LASER_PUMP_TEMPERATURE |-> \h30,
      EDFA_LASER_DRIVE_CURRENT |-> \h31, EDFA_LASER_PHOTODETECT_CURRENT |-> \h32,
      EDFA_PHOTODETECT_CURRENT |-> \h34, EDFA_PHOTODETECT_POWER |-> \h36,
      EDFA_MODULATION_INPUT |-> \h38 ]

LPRTests ==
    Points(Plain(<<"OPTICAL_SWITCH_STATE", "OPTICAL_SWITCH_BUSY",
                   "LPR_TEMPERATURE_0", "LPR_TEMPERATURE_1",
                   "EDFA_PHOTODETECT_POWER", "EDFA_LASER_PUMP_TEMPERATURE",
                   "EDFA_LASER_DRIVE_CURRENT", "EDFA_LASER_PHOTODETECT_CURRENT",
                   "EDFA_PHOTODETECT_CURRENT", "OPTICAL_SWITCH_PORT",
                   "EDFA_MODULATION_INPUT", "OPTICAL_SWITCH_SHUTTER",
                   "OPTICAL_SWITCH_FORCE_SHUTTER">>))

\* AUX_1 and AUX_2, PRESSURE, and the alarms.
CompressorTestOffset ==
    [ GET_TEMP |-> 1, GET_RET_PRESSURE |-> 5, GET_AUX_2 |-> 6,
      GET_SUPPLY_PRESSURE |-> 7, GET_PRESSURE_ALARM |-> 8,
      GET_TEMP_ALARM |-> 9 ]

CompressorTests ==
    Points(Cross(<<"GET_TEMP">>, UpTo(3))
           \o Plain(<<"GET_RET_PRESSURE", "GET_AUX_2", "GET_SUPPLY_PRESSURE",
                      "GET_PRESSURE_ALARM", "GET_TEMP_ALARM">>))

(***************************************************************************)
(* All of it.                                                              *)
(***************************************************************************)
\* The points of a device that have a test.
TestsOf(d) ==
    CASE d[1] = "ColdCart" -> ColdCartTests(d[2])
      [] d[1] = "WCA" -> WCATests(d[2])
      [] d[1] = "PowerModule" -> Points(Plain(<<"ENABLE_MODULE">>))
      [] d[1] = "Cryostat" -> CryostatTests
      [] d[1] = "IFSwitch" -> IFSwitchTests
      [] d[1] = "LPR" -> LPRTests
      [] d[1] = "Compressor" -> CompressorTests
      [] OTHER -> {}

\* The register that answers for a point that has a test.
TestedRegister(d, p) ==
    CASE d[1] = "ColdCart" -> <<"FEMC", ColdCartTestAddress(d[2], p)>>
      [] d[1] = "WCA" -> <<"FEMC", WCATestAddress(d[2], p)>>
      [] d[1] = "PowerModule" -> <<"FEMC", CartPowerAddress(d[2])>>
      [] d[1] = "Cryostat" -> <<"FEMC", CryostatTestAddress(p)>>
      [] d[1] = "IFSwitch" -> <<"FEMC", IFSwitchTestAddress(p)>>
      [] d[1] = "LPR" -> <<"FEMC", \hD000 + LPRTestOffset[p[1]]>>
      [] d[1] = "Compressor" -> <<"Compressor", CompressorTestOffset[p[1]] + p[2]>>

=============================================================================
