----------------------------- MODULE Registers -----------------------------
(***************************************************************************)
(* The register sets of the hardware: the tables of the *ImplBase classes, *)
(* with what ColdCartImpl overrides.  For each class of device, the        *)
(* relative CAN address (RCA) of every point, the order in which its       *)
(* monitor thread reads them, and which of them the host commands.         *)
(*                                                                         *)
(* A device is <<class, n>>: n is the port of a cartridge or power module, *)
(* and the band of a cold cartridge (a cartridge sits at the port of its   *)
(* band), 0 elsewhere.  A point is <<name, i, sb>>: name is the offset the *)
(* class declares, i a polarization, sensor or laser, sb a sideband or 0.  *)
(***************************************************************************)
EXTENDS Integers, Sequences

\* The points of each name at each place <<i, sb>>, place by place.
Cross(names, places) ==
    LET n == Len(names)
    IN  [k \in 1..(n * Len(places)) |->
            <<names[((k - 1) % n) + 1]>> \o places[((k - 1) \div n) + 1]]

Plain(names) == Cross(names, << <<0, 0>> >>)
Pols == << <<0, 0>>, <<1, 0>> >>
PolSbs == << <<0, 1>>, <<0, 2>>, <<1, 1>>, <<1, 2>> >>
UpTo(last) == [k \in 1..(last + 1) |-> <<k - 1, 0>>]
Points(list) == {list[k] : k \in DOMAIN list}

(***************************************************************************)
(* Warm cartridge assembly.                                                *)
(***************************************************************************)
WCAOffset ==
    [ YTO_COARSE_TUNE |-> \h800, PHOTOMIXER_ENABLE |-> \h810,
      PHOTOMIXER_VOLTAGE |-> \h814, PHOTOMIXER_CURRENT |-> \h818,
      PLL_LOCK_DETECT_VOLTAGE |-> \h820, PLL_CORRECTION_VOLTAGE |-> \h821,
      PLL_ASSEMBLY_TEMP |-> \h822, PLL_YTO_HEATER_CURRENT |-> \h823,
      PLL_REF_TOTAL_POWER |-> \h824, PLL_IF_TOTAL_POWER |-> \h825,
      PLL_UNLOCK_DETECT_LATCH |-> \h827,
      PLL_CLEAR_UNLOCK_DETECT_LATCH |-> \h828,
      PLL_LOOP_BANDWIDTH_SELECT |-> \h829,
      PLL_SIDEBAND_LOCK_POL_SELECT |-> \h82A,
      PLL_NULL_LOOP_INTEGRATOR |-> \h82B,
      AMC_GATE_A_VOLTAGE |-> \h830, AMC_DRAIN_A_VOLTAGE |-> \h831,
      AMC_DRAIN_A_CURRENT |-> \h832, AMC_GATE_B_VOLTAGE |-> \h833,
      AMC_DRAIN_B_VOLTAGE |-> \h834, AMC_DRAIN_B_CURRENT |-> \h835,
      AMC_MULTIPLIER_D_COUNTS |-> \h836, AMC_GATE_E_VOLTAGE |-> \h837,
      AMC_DRAIN_E_VOLTAGE |-> \h838, AMC_DRAIN_E_CURRENT |-> \h839,
      AMC_MULTIPLIER_D_CURRENT |-> \h83A, AMC_SUPPLY_VOLTAGE_5V |-> \h83B,
      PA_GATE_VOLTAGE |-> \h840, PA_DRAIN_VOLTAGE |-> \h841,
      PA_DRAIN_CURRENT |-> \h842, PA_SUPPLY_VOLTAGE_3V |-> \h848,
      PA_SUPPLY_VOLTAGE_5V |-> \h84C, PA_HAS_TELEDYNE_CHIP |-> \h850,
      PA_TELEDYNE_COLLECTOR |-> \h851 ]

WCAAddress(port, p) ==
    (port - 1) * \h1000 + WCAOffset[p[1]]
        + p[2] * (IF p[1] = "PA_TELEDYNE_COLLECTOR" THEN 1 ELSE 4)

WCARegistry ==
    Plain(<<"PHOTOMIXER_VOLTAGE", "PHOTOMIXER_CURRENT",
            "PLL_LOCK_DETECT_VOLTAGE", "PLL_CORRECTION_VOLTAGE",
            "PLL_REF_TOTAL_POWER", "PLL_IF_TOTAL_POWER",
            "AMC_GATE_A_VOLTAGE", "AMC_DRAIN_A_VOLTAGE",
            "AMC_DRAIN_A_CURRENT", "AMC_GATE_B_VOLTAGE",
            "AMC_DRAIN_B_VOLTAGE", "AMC_DRAIN_B_CURRENT",
            "AMC_GATE_E_VOLTAGE", "AMC_DRAIN_E_VOLTAGE",
            "AMC_DRAIN_E_CURRENT">>)
    \o Cross(<<"PA_GATE_VOLTAGE", "PA_DRAIN_VOLTAGE", "PA_DRAIN_CURRENT">>, Pols)
    \o Plain(<<"AMC_MULTIPLIER_D_CURRENT", "AMC_SUPPLY_VOLTAGE_5V",
               "PA_SUPPLY_VOLTAGE_3V", "PA_SUPPLY_VOLTAGE_5V",
               "PLL_ASSEMBLY_TEMP", "PLL_YTO_HEATER_CURRENT">>)

\* Cases 1 and 2 of monitorAction.
WCAPhases ==
    << Plain(<<"PLL_UNLOCK_DETECT_LATCH", "YTO_COARSE_TUNE",
               "PLL_NULL_LOOP_INTEGRATOR">>),
       Plain(<<"AMC_MULTIPLIER_D_COUNTS", "PHOTOMIXER_ENABLE",
               "PLL_LOOP_BANDWIDTH_SELECT", "PLL_SIDEBAND_LOCK_POL_SELECT">>) >>

\* All that is read while minimalMonitoring_m.
WCAMinimal ==
    Points(Plain(<<"PLL_UNLOCK_DETECT_LATCH", "PLL_LOCK_DETECT_VOLTAGE",
                   "PLL_CORRECTION_VOLTAGE", "PHOTOMIXER_CURRENT",
                   "PLL_REF_TOTAL_POWER", "PLL_IF_TOTAL_POWER",
                   "PLL_ASSEMBLY_TEMP", "PLL_NULL_LOOP_INTEGRATOR">>))

\* Points that have an accessor and no place in monitorAction.
WCAUnscheduled ==
    Points(Plain(<<"PA_HAS_TELEDYNE_CHIP">>)
           \o Cross(<<"PA_TELEDYNE_COLLECTOR">>, Pols))

WCACommands ==
    Points(Plain(<<"YTO_COARSE_TUNE", "PHOTOMIXER_ENABLE",
                   "PLL_CLEAR_UNLOCK_DETECT_LATCH", "PLL_LOOP_BANDWIDTH_SELECT",
                   "PLL_SIDEBAND_LOCK_POL_SELECT", "PLL_NULL_LOOP_INTEGRATOR",
                   "AMC_DRAIN_B_VOLTAGE", "AMC_MULTIPLIER_D_COUNTS",
                   "AMC_GATE_E_VOLTAGE", "AMC_DRAIN_E_VOLTAGE",
                   "PA_HAS_TELEDYNE_CHIP">>)
           \o Cross(<<"PA_GATE_VOLTAGE", "PA_DRAIN_VOLTAGE",
                      "PA_TELEDYNE_COLLECTOR">>, Pols))

\* The point whose register a control function writes: paHasTeledyneChip(bool)
\* passes the name of another point to SYNCCMD.
WCAWrites(p) ==
    IF p = <<"PA_HAS_TELEDYNE_CHIP", 0, 0>> THEN <<"PA_DRAIN_VOLTAGE", 1, 0>>
    ELSE p

(***************************************************************************)
(* Cold cartridge.                                                         *)
(***************************************************************************)
ColdCartOffset ==
    [ CARTRIDGE_TEMP |-> \h880, SIS_VOLTAGE |-> \h8, SIS_CURRENT |-> \h10,
      SIS_OPEN_LOOP |-> \h18, SIS_MAGNET_VOLTAGE |-> \h20,
      SIS_MAGNET_CURRENT |-> \h30, LNA_ENABLE |-> \h58,
      LNA1_DRAIN_VOLTAGE |-> \h40, LNA1_DRAIN_CURRENT |-> \h41,
      LNA1_GATE_VOLTAGE |-> \h42, LNA2_DRAIN_VOLTAGE |-> \h44,
      LNA2_DRAIN_CURRENT |-> \h45, LNA2_GATE_VOLTAGE |-> \h46,
      LNA3_DRAIN_VOLTAGE |-> \h48, LNA3_DRAIN_CURRENT |-> \h49,
      LNA3_GATE_VOLTAGE |-> \h4A, LNA_LED_ENABLE |-> \h100,
      SIS_HEATER_ENABLE |-> \h180, SIS_HEATER_CURRENT |-> \h1C0 ]

\* i is a sensor of CARTRIDGE_TEMP, else a polarization.
ColdCartAddress(port, p) ==
    (port - 1) * \h1000 + ColdCartOffset[p[1]]
        + p[2] * (IF p[1] = "CARTRIDGE_TEMP" THEN \h10 ELSE \h400)
        + (IF p[3] = 2 THEN \h80 ELSE 0)

LNADrains ==
    <<"LNA1_DRAIN_VOLTAGE", "LNA1_DRAIN_CURRENT", "LNA2_DRAIN_VOLTAGE",
      "LNA2_DRAIN_CURRENT", "LNA3_DRAIN_VOLTAGE", "LNA3_DRAIN_CURRENT">>

ColdCartRegistry ==
    Cross(<<"SIS_VOLTAGE">>, PolSbs) \o Cross(<<"SIS_CURRENT">>, PolSbs)
    \o Cross(<<"SIS_MAGNET_VOLTAGE", "SIS_MAGNET_CURRENT">>, PolSbs)
    \o Cross(<<"LNA1_DRAIN_VOLTAGE", "LNA1_DRAIN_CURRENT", "LNA1_GATE_VOLTAGE",
               "LNA2_DRAIN_VOLTAGE", "LNA2_DRAIN_CURRENT", "LNA2_GATE_VOLTAGE",
               "LNA3_DRAIN_VOLTAGE", "LNA3_DRAIN_CURRENT",
               "LNA3_GATE_VOLTAGE">>, PolSbs)
    \o Cross(<<"SIS_HEATER_CURRENT">>, Pols)
    \o Cross(<<"CARTRIDGE_TEMP">>, UpTo(5))

ColdCartPhases ==
    << Cross(<<"SIS_OPEN_LOOP">>, PolSbs), Cross(<<"LNA_ENABLE">>, PolSbs),
       Cross(<<"LNA_LED_ENABLE">>, Pols) >>

\* What the cartridge of a band has: hasSIS, hasMagnet, hasLED and the rest.
\* The value of a point that is absent is 0 without a transaction.
Fitted(band, p) ==
    /\ p[3] = 2 => band <= 8
    /\ p[1] \in {"SIS_VOLTAGE", "SIS_CURRENT", "SIS_OPEN_LOOP",
                 "SIS_HEATER_CURRENT"} => band >= 3
    /\ p[1] \in {"SIS_MAGNET_VOLTAGE", "SIS_MAGNET_CURRENT"} =>
           band >= 5 /\ (p[3] = 2 => band # 6)
    /\ p[1] \in {"LNA3_DRAIN_VOLTAGE", "LNA3_DRAIN_CURRENT",
                 "LNA3_GATE_VOLTAGE"} => (p[3] = 2 => band > 1)
    /\ p[1] = "LNA_LED_ENABLE" => band \in {1, 3, 6}

\* The control functions of ColdCartImpl: the drains of a sideband that is
\* absent are commanded all the same, except those of the third stage, and
\* band 6 commands the magnet coil it does not read.
ColdCartCommands(band) ==
    {p \in Points(Cross(LNADrains, PolSbs)) :
        /\ p[1] \in {"LNA3_DRAIN_VOLTAGE", "LNA3_DRAIN_CURRENT"}
        /\ p[3] = 2 => band > 1}
    \cup Points(Cross(SubSeq(LNADrains, 1, 4), PolSbs))
    \cup {p \in Points(Cross(<<"SIS_VOLTAGE", "SIS_OPEN_LOOP", "LNA_ENABLE">>,
                             PolSbs) \o Cross(<<"LNA_LED_ENABLE">>, Pols)) :
             Fitted(band, p)}
    \cup {p \in Points(Cross(<<"SIS_MAGNET_CURRENT">>, PolSbs)) :
             band >= 5 /\ (p[3] = 2 => band <= 8)}
    \cup {p \in Points(Cross(<<"SIS_HEATER_ENABLE">>, Pols)) : band >= 3}

(***************************************************************************)
(* Power module, IF switch, LPR.                                           *)
(***************************************************************************)
PowerModuleOffset ==
    [ CURRENT_P6V |-> 0, VOLTAGE_P6V |-> 1, CURRENT_N6V |-> 2,
      VOLTAGE_N6V |-> 3, CURRENT_P15V |-> 4, VOLTAGE_P15V |-> 5,
      CURRENT_N15V |-> 6, VOLTAGE_N15V |-> 7, CURRENT_N24V |-> 8,
      VOLTAGE_P24V |-> 9, CURRENT_P8V |-> 10, VOLTAGE_P8V |-> 11,
      ENABLE_MODULE |-> 12 ]

PowerModuleAddress(port, p) ==
    (port - 1) * \h10 + \hA000 + PowerModuleOffset[p[1]]

PowerModuleRegistry ==
    Plain(<<"VOLTAGE_P6V", "CURRENT_P6V", "VOLTAGE_N6V", "CURRENT_N6V",
            "VOLTAGE_P15V", "CURRENT_P15V", "VOLTAGE_N15V", "CURRENT_N15V",
            "VOLTAGE_P24V", "CURRENT_N24V", "VOLTAGE_P8V", "CURRENT_P8V">>)

PowerModulePhases == << Plain(<<"ENABLE_MODULE">>) >>

IFSwitchOffset ==
    [ TEMP_SERVO_ENABLE |-> 0, ATTENUATION |-> 1, ASSEMBLY_TEMP |-> 2,
      SWITCH_CARTRIDGE |-> \h10 ]

IFSwitchAddress(p) ==
    \hB000 + IFSwitchOffset[p[1]] + 4 * p[2] + (IF p[3] = 2 THEN 8 ELSE 0)

IFSwitchRegistry == Cross(<<"ASSEMBLY_TEMP">>, PolSbs)

IFSwitchPhases ==
    << Plain(<<"SWITCH_CARTRIDGE">>) \o Cross(<<"ATTENUATION">>, PolSbs)
       \o Cross(<<"TEMP_SERVO_ENABLE">>, PolSbs) >>

LPROffset ==
    [ LPR_TEMPERATURE_0 |-> 0, LPR_TEMPERATURE_1 |-> \h10,
      OPTICAL_SWITCH_PORT |-> \h20, OPTICAL_SWITCH_SHUTTER |-> \h22,
      OPTICAL_SWITCH_FORCE_SHUTTER |-> \h24, OPTICAL_SWITCH_STATE |-> \h26,
      OPTICAL_SWITCH_BUSY |-> \h28, EDFA_LASER_PUMP_TEMPERATURE |-> \h30,
      EDFA_LASER_DRIVE_CURRENT |-> \h31, EDFA_LASER_PHOTODETECT_CURRENT |-> \h32,
      EDFA_PHOTODETECT_CURRENT |-> \h34, EDFA_PHOTODETECT_POWER |-> \h36,
      EDFA_MODULATION_INPUT |-> \h38 ]

LPRAddress(p) == \hD000 + LPROffset[p[1]]

LPRRegistry ==
    Plain(<<"LPR_TEMPERATURE_0", "LPR_TEMPERATURE_1",
            "EDFA_LASER_PUMP_TEMPERATURE", "EDFA_LASER_DRIVE_CURRENT",
            "EDFA_LASER_PHOTODETECT_CURRENT", "EDFA_PHOTODETECT_CURRENT",
            "EDFA_PHOTODETECT_POWER", "EDFA_MODULATION_INPUT">>)

LPRPhases ==
    << Plain(<<"OPTICAL_SWITCH_PORT", "OPTICAL_SWITCH_SHUTTER",
               "OPTICAL_SWITCH_STATE", "OPTICAL_SWITCH_BUSY">>) >>

LPRCommands ==
    Points(Plain(<<"OPTICAL_SWITCH_PORT", "OPTICAL_SWITCH_SHUTTER",
                   "OPTICAL_SWITCH_FORCE_SHUTTER", "EDFA_MODULATION_INPUT">>))

(***************************************************************************)
(* Cryostat and FETIM.                                                     *)
(***************************************************************************)
CryostatOffset ==
    [ CRYOSTAT_TEMP |-> 0, BACKING_PUMP_ENABLE |-> \h34,
      TURBO_PUMP_ENABLE |-> \h38, TURBO_PUMP_STATE |-> \h39,
      TURBO_PUMP_SPEED |-> \h3A, GATE_VALVE_STATE |-> \h3C,
      SOLENOID_VALVE_STATE |-> \h40, VACUUM_CRYOSTAT_PRES |-> \h44,
      VACUUM_PORT_PRES |-> \h45, VACUUM_GAUGE_ENABLE |-> \h46,
      VACUUM_GAUGE_STATE |-> \h47, SUPPLY_CURRENT_230V |-> \h48 ]

CryostatAddress(p) == \hC000 + CryostatOffset[p[1]] + 4 * p[2]

CryostatRegistry ==
    Cross(<<"CRYOSTAT_TEMP">>, UpTo(12))
    \o Plain(<<"VACUUM_CRYOSTAT_PRES", "VACUUM_PORT_PRES",
               "SUPPLY_CURRENT_230V">>)

\* Case 1 of monitorAction falls through to case 2: one phase.
CryostatPhases ==
    << Plain(<<"BACKING_PUMP_ENABLE", "TURBO_PUMP_ENABLE", "TURBO_PUMP_STATE",
               "TURBO_PUMP_SPEED", "GATE_VALVE_STATE", "SOLENOID_VALVE_STATE",
               "VACUUM_GAUGE_ENABLE", "VACUUM_GAUGE_STATE">>) >>

CryostatCommands ==
    Points(Plain(<<"BACKING_PUMP_ENABLE", "TURBO_PUMP_ENABLE",
                   "GATE_VALVE_STATE", "SOLENOID_VALVE_STATE",
                   "VACUUM_GAUGE_ENABLE">>))

\* Points whose value is not 0 before it has been read: the state of a valve
\* is unknown, ...
CryostatStartsSet == Points(Plain(<<"GATE_VALVE_STATE", "SOLENOID_VALVE_STATE">>))

FETIMOffset ==
    [ INT_TEMP |-> 0, FLOW_SENS |-> 8, SINGLE_FAIL |-> \h10,
      GLITCH_VALUE |-> \h20, GLITCH_CNT_TRIG |-> \h22, MULT_FAIL |-> \h24,
      INT_TEMP_OOR |-> \h28, FLOW_OOR |-> \h2C, DELAY_TRIG |-> \h30,
      SHUTDOWN_TRIG |-> \h34, EXT_TEMP |-> \h40, EXT_TEMP_OOR |-> \h44,
      HE2_PRESS |-> \h50, HE2_PRESS_OOR |-> \h54, FE_STATUS |-> \h58,
      INTRLK_STATUS |-> \h60, CABLE_STATUS |-> \h68, DEWAR_N2_FILL |-> \h80 ]

FETIMAddress(p) ==
    \hE000 + FETIMOffset[p[1]]
        + p[2] * (CASE p[1] = "INT_TEMP" -> 1 [] p[1] = "FLOW_SENS" -> 4
                    [] OTHER -> 8)

FETIMRegistry ==
    Cross(<<"INT_TEMP">>, UpTo(4)) \o Cross(<<"EXT_TEMP">>, UpTo(1))
    \o Cross(<<"FLOW_SENS">>, UpTo(1)) \o Plain(<<"HE2_PRESS", "GLITCH_VALUE">>)

FETIMPhases ==
    << Plain(<<"INT_TEMP_OOR">>) \o Cross(<<"EXT_TEMP_OOR">>, UpTo(1))
       \o Plain(<<"FLOW_OOR", "HE2_PRESS_OOR">>),
       Plain(<<"SINGLE_FAIL", "MULT_FAIL", "GLITCH_CNT_TRIG", "DELAY_TRIG",
               "SHUTDOWN_TRIG">>),
       Plain(<<"FE_STATUS", "INTRLK_STATUS", "CABLE_STATUS">>) >>

\* ... and what guards the front end is taken to have tripped.
FETIMStartsSet ==
    Points(Cross(<<"EXT_TEMP_OOR">>, UpTo(1))
           \o Plain(<<"INT_TEMP_OOR", "FLOW_OOR", "HE2_PRESS_OOR", "SINGLE_FAIL",
                      "MULT_FAIL", "GLITCH_CNT_TRIG", "INTRLK_STATUS", "CABLE_STATUS">>))

(***************************************************************************)
(* The LO reference test module and the compressor: CAN nodes of their     *)
(* own, without a registry; what monitorAction reads in one pass is one    *)
(* phase.  i is a laser.                                                   *)
(***************************************************************************)
LORTMOffset ==
    [ AMBSI_NUM_ERRORS |-> \h30001, AMBSI_NUM_TRANSACTIONS |-> \h30002,
      GET_AMBIENT_TEMPERATURE |-> \h30003, SYSTEM_GET_STATUS |-> \h1100,
      SYSTEM_GET_ERROR |-> \h1101, SYSTEM_GET_WARNING |-> \h1102,
      SIGNAL_LASER_BIAS_MON |-> \h1500, SIGNAL_TEMP_INTEG_OUT_MON |-> \h1504,
      SIGNAL_LASER_TEMP_MON |-> \h1508, SIGNAL_LASER_TEC_I_MON |-> \h150C,
      SIGNAL_LASER_POW_MON |-> \h1510, SIGNAL_PHMIX_BIAS_MON |-> \h1514,
      SIGNAL_LASER_SLOW_CORR_MON |-> \h1518, SIGNAL_RF_AGC_GAIN_MON |-> \h1519,
      SIGNAL_RF_POW_MON_34DB |-> \h151A, SIGNAL_EXTERN_THERM_MON |-> \h151B,
      SIGNAL_INTERN_THERM_MON |-> \h151C, LASER_GET_STATUS |-> \h203C,
      LASER_ISRC_ENABLE |-> \h2008, LASER_FREQUENCY |-> \h2050,
      PHASELOCK_GET_STATUS |-> \h3020, PHASELOCK_GET_SELECTED_LASER |-> \h3034,
      PHASELOCK_GET_SELECTED_BAND |-> \h3035 ]

LORTMAddress(p) == LORTMOffset[p[1]] + p[2]

\* The point whose register an accessor reads: LaserTempMon3 and
\* LaserTempMon4 pass the offset of LaserTempMon1.
LORTMReads(p) ==
    IF p[1] = "SIGNAL_LASER_TEMP_MON" /\ p[2] \in {2, 3}
    THEN <<"SIGNAL_LASER_TEMP_MON", 0, 0>> ELSE p

\* Every 5 s, and every 30 s.
LORTMPhases ==
    << Plain(<<"SYSTEM_GET_STATUS", "SYSTEM_GET_ERROR", "SYSTEM_GET_WARNING",
               "PHASELOCK_GET_STATUS", "PHASELOCK_GET_SELECTED_LASER",
               "PHASELOCK_GET_SELECTED_BAND">>)
       \o Cross(<<"SIGNAL_LASER_BIAS_MON">>, UpTo(3))
       \o Cross(<<"SIGNAL_LASER_TEMP_MON">>, UpTo(3))
       \o Plain(<<"SIGNAL_LASER_SLOW_CORR_MON">>)
       \o Cross(<<"LASER_GET_STATUS">>, UpTo(3)),
       Plain(<<"AMBSI_NUM_ERRORS", "AMBSI_NUM_TRANSACTIONS",
               "GET_AMBIENT_TEMPERATURE">>)
       \o Cross(<<"SIGNAL_LASER_TEC_I_MON">>, UpTo(3))
       \o Cross(<<"SIGNAL_LASER_POW_MON">>, UpTo(3))
       \o Cross(<<"SIGNAL_PHMIX_BIAS_MON">>, UpTo(3))
       \o Plain(<<"SIGNAL_RF_AGC_GAIN_MON", "SIGNAL_RF_POW_MON_34DB",
                  "SIGNAL_EXTERN_THERM_MON", "SIGNAL_INTERN_THERM_MON">>) >>

LORTMUnscheduled ==
    Points(Cross(<<"SIGNAL_TEMP_INTEG_OUT_MON", "LASER_ISRC_ENABLE",
                   "LASER_FREQUENCY">>, UpTo(3)))

LORTMCommands ==
    Points(Cross(<<"LASER_ISRC_ENABLE">>, UpTo(3))
           \o Cross(<<"LASER_FREQUENCY">>, << <<1, 0>>, <<2, 0>>, <<3, 0>> >>))

\* Their functions clear the value before they ask for it.
LORTMStatus ==
    Points(Plain(<<"AMBSI_NUM_ERRORS", "AMBSI_NUM_TRANSACTIONS",
                   "GET_AMBIENT_TEMPERATURE", "SYSTEM_GET_STATUS",
                   "PHASELOCK_GET_STATUS">>))

CompressorOffset ==
    [ GET_TEMP |-> 1, GET_RET_PRESSURE |-> 5, GET_AUX_2 |-> 6,
      GET_SUPPLY_PRESSURE |-> 7, GET_PRESSURE_ALARM |-> 8,
      GET_TEMP_ALARM |-> 9, GET_DRIVE_INDICATION |-> 10,
      GET_ICCU_STATUS_ERROR |-> 11, GET_ICCU_CABLE_DETECT_ERROR |-> 12,
      GET_FETIM_STATUS_ERROR |-> 13, GET_FETIM_CABLE_ERROR |-> 14,
      GET_INTERLOCK_OVERRIDE |-> 15, GET_ECU_TYPE |-> 16,
      GET_FAULT_STATUS_ERROR |-> 17, GET_TIME_SINCE_LAST_POWER_ON |-> 19,
      GET_TIME_SINCE_LAST_POWER_OFF |-> 20 ]

CompressorAddress(p) == CompressorOffset[p[1]] + p[2]

\* The ECU type is read once, at the first pass.
CompressorPhases ==
    << Cross(<<"GET_TEMP">>, UpTo(3))
       \o Plain(<<"GET_RET_PRESSURE", "GET_AUX_2", "GET_SUPPLY_PRESSURE",
                  "GET_PRESSURE_ALARM", "GET_TEMP_ALARM",
                  "GET_DRIVE_INDICATION", "GET_ICCU_STATUS_ERROR",
                  "GET_ICCU_CABLE_DETECT_ERROR", "GET_FETIM_STATUS_ERROR",
                  "GET_FETIM_CABLE_ERROR", "GET_INTERLOCK_OVERRIDE",
                  "GET_FAULT_STATUS_ERROR", "GET_TIME_SINCE_LAST_POWER_ON",
                  "GET_TIME_SINCE_LAST_POWER_OFF">>) >>

=============================================================================
