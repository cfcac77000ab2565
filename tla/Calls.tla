------------------------------- MODULE Calls -------------------------------
(* The calls that the LabVIEW library exports and what stands between them  *)
(* and the objects they end at.  An export tests that its module is valid   *)
(* and that the port is a port; the method it forwards to tests that the    *)
(* cartridge exists, is enabled and has the half that is wanted, or that    *)
(* the subsystem was configured; then it dereferences a pointer.            *)
(* Of each call this module keeps the objects that are tested and the       *)
(* objects that are used; Sessions says which exist.                        *)
(* The exports that are in no table use no module's object                  *)
(* (getSoftwareVersion, getDataPath, sigSrcGetNextConfiguration,            *)
(* subscribeForEvents, getNextEvent, getNextEventSeqNo, TestSocketClient)   *)
(* or are actions of Sessions (the initializations and shutdowns).          *)
EXTENDS Naturals, Integers

\* What a call tests before it goes on, and what it then uses without test.
Call(checks, uses) == [checks |-> checks, uses |-> uses]

CartOn == {"cartridge", "enabled"}
WCAOn  == CartOn \cup {"WCA"}
CCAOn  == CartOn \cup {"CCA"}

\* ca -> method(...): the CartAssembly and what the method does not test.
Assembly(checks) == Call(checks, {"cartridge"})
WCACall == Call(WCAOn, {"cartridge", "WCA"})
CCACall == Call(CCAOn, {"cartridge", "CCA"})

Slot(s) == Call({s}, {s})

-----------------------------------------------------------------------------
(* FrontEndImpl: monitoring data, each from the half that measures it.      *)

MonitorCalls ==
  [ cartGetMonitorYTO         |-> Assembly(CartOn),
    cartGetMonitorPhotomixer  |-> WCACall,
    cartGetMonitorPLL         |-> WCACall,
    cartGetMonitorAMC         |-> WCACall,
    cartGetMonitorPA          |-> WCACall,
    cartGetMonitorTemp        |-> CCACall,
    cartGetMonitorSIS         |-> CCACall,
    cartGetMonitorLNA         |-> CCACall,
    cartGetMonitorAux         |-> CCACall,
    cartGetLastHeaterCurrents |-> CCACall ]

(* FrontEndImpl: tuning.  getLocked is the one that does not ask for a WCA; *)
(* adjustPLL and adjustYTO of CartAssembly rely on the test made here.      *)
TuningCalls ==
  [ cartSetLockingStrategy   |-> WCACall,
    cartSetLOFrequency       |-> Assembly(WCAOn),
    cartSetCenterLOFrequency |-> Assembly(WCAOn),
    cartGetLOFrequency       |-> WCACall,
    cartLockPLL              |-> Assembly(WCAOn),
    cartGetLocked            |-> Call(CartOn, {"cartridge", "WCA"}),
    cartAdjustPLL            |-> WCACall,
    cartAdjustYTO            |-> WCACall,
    cartNullPLLIntegrator    |-> Assembly(WCAOn),
    cartGetNullPLLIntegrator |-> Assembly(WCAOn) ]

(* FrontEndImpl: the bias of the cold cartridge; CartAssembly tests again.  *)
BiasCalls ==
  [ cartSetLNABias         |-> Assembly(CCAOn),
    cartSetEnableLNABias   |-> Assembly(CCAOn),
    cartGetEnableLNABias   |-> Assembly(CCAOn),
    cartSetSISBias         |-> Assembly(CCAOn),
    cartGetEnableSISBias   |-> Assembly(CCAOn),
    cartSetSISMagnet       |-> Assembly(CCAOn),
    cartGetEnableSISMagnet |-> Assembly(CCAOn),
    cartGetSISMagnet       |-> Assembly(CCAOn) ]

(* FrontEndImpl: the LO power amplifiers.                                   *)
PowerAmpCalls ==
  [ cartSetLOPowerAmps        |-> Assembly(WCAOn),
    cartGetLOPowerAmpsSetting |-> WCACall,
    cartGetEnableLOPowerAmps  |-> Assembly(WCAOn),
    cartAdjustLOPowerAmps     |-> Assembly(WCAOn \cup CCAOn),
    cartSetEnableLO           |-> WCACall,
    cartSetLOPower            |-> WCACall ]

(* FrontEndImpl: what the optimizer is told and asked.                      *)
OptimizeCalls ==
  [ cartOptimizeIFPower      |-> Assembly(WCAOn \cup CCAOn),
    cartClearOptimizedResult |-> Assembly({"cartridge"}),
    cartGetOptimizedResult   |-> Assembly({"cartridge"}),
    cartSetIFPower           |-> Assembly(CartOn),
    cartSetVJVD              |-> Assembly(CartOn),
    cartGetVJVD              |-> Assembly(CartOn),
    cartSetAMC               |-> Assembly(WCAOn) ]

(* FrontEndImpl: the measurements.  CartAssembly::measureIVCurve relies on  *)
(* the test made here, and the data of a port are read without any.         *)
MeasureCalls ==
  [ cartMeasureFineLOSweep   |-> Assembly(CCAOn),
    cartMeasureIVCurve       |-> CCACall,
    cartMeasureIJvsSISMagnet |-> Assembly(CCAOn),
    cartMeasureIFPowerVsVJ   |-> Assembly(CCAOn),
    cartMeasureIFPowerVsVD   |-> Assembly(CCAOn),
    cartMixerDeflux          |-> Assembly(CCAOn),
    cartAbortMeasurement     |-> Assembly(CartOn),
    cartGetXYData            |-> Assembly({}) ]

(* FrontEndImpl: what is switched on and off.                               *)
EnableCalls ==
  [ cartSetEnableLNALEDs    |-> Assembly(CCAOn),
    cartSetEnableSISHeaters |-> Assembly(CCAOn),
    cartSetEnablePhotomixer |-> Assembly(WCAOn),
    cartGetEnablePhotomixer |-> Assembly(WCAOn) ]

(* FrontEndImpl: power distribution and IF switch.                          *)
SwitchCalls ==
  [ powerGetMonitorModule      |-> Call({"cpds"}, {}),
    ifSwitchGetMonitor         |-> Slot("ifSwitch"),
    ifSwitchSetAttenuation     |-> Slot("ifSwitch"),
    ifSwitchSetEnableTempServo |-> Slot("ifSwitch") ]

(* FrontEndImpl: cryostat.                                                  *)
CryostatCalls ==
  [ cryostatGetMonitor            |-> Slot("cryostat"),
    cryostatSetEnableBackingPump  |-> Slot("cryostat"),
    cryostatSetEnableTurboPump    |-> Slot("cryostat"),
    cryostatSetGateValveState     |-> Slot("cryostat"),
    cryostatSetSolenoidValveState |-> Slot("cryostat"),
    cryostatSetEnableVacuumGauge  |-> Slot("cryostat"),
    cryostatSetEnableCryoPumping  |-> Slot("cryostat"),
    cryostatStartStopPlot         |-> Slot("cryostat") ]

(* FrontEndImpl: interlock and LO photonic receiver.  Without a receiver    *)
(* its switch is taken for set, the other calls fail.                       *)
OpticsCalls ==
  [ fetimGetMonitor                |-> Slot("fetim"),
    fetimSetTriggerDewarN2Fill     |-> Slot("fetim"),
    lprGetMonitor                  |-> Slot("lpr"),
    lprSetOpticalSwitchPort        |-> Slot("lpr"),
    lprSetOpticalSwitchShutter     |-> Slot("lpr"),
    lprSetOpticalSwitchForceShutter|-> Slot("lpr"),
    lprSetEDFAModulationInput      |-> Slot("lpr") ]

(* FrontEndImpl: the power of a cartridge and the observing port; the       *)
(* containers test the port.                                                *)
PowerCalls ==
  [ FESetCartridgeOff         |-> Assembly({"cartridge"}),
    FESetCartridgeOn          |-> Assembly({"cartridge"}),
    FESetCartridgeStandby2    |-> Assembly({"cartridge"}),
    FESetCartridgeObserving   |-> Assembly(CartOn),
    FEClearCartridgeObserving |-> Call({}, {}),
    FEGetCartridgeState       |-> Assembly({"cartridge"}),
    FEGetNumCartridgesOn      |-> Call({}, {}),
    cartPauseMonitor          |-> Assembly({"cartridge"}) ]

(* FrontEndImpl: the health check, for which the database stands between.   *)
HealthCalls ==
  [ FEStartHealthCheck             |-> Call({}, {}),
    cartHealthCheck                |-> Call(WCAOn, {"cartridge", "WCA"}),
    cartHealthCheckSaveIFPowerData |-> Assembly({"cartridge"}),
    FEFinishHealthCheck            |-> Call({}, {}) ]

(* The configuration.                                                       *)
ConfigurationCalls ==
  [ FELoadConfiguration  |-> Call({}, {}),
    FEGetConfiguredBands |-> Call({}, {}) ]

(* FrontEndImpl answers these itself.                                       *)
ControllerCalls ==
  [ FEMCExit |-> Call({}, {}), FEGetConfigSN |-> Call({}, {}),
    FEMCGetAMBSIInfo |-> Call({}, {}), FEMCGetAMBSITemperature |-> Call({}, {}),
    FEMCGetFirmwareInfo |-> Call({}, {}), FEMCGetESNText |-> Call({}, {}),
    FEMCRescanESNs |-> Call({}, {}), FEMCGetNumErrors |-> Call({}, {}),
    FEMCFlushErrors |-> Call({}, {}), FEMCGetNextError |-> Call({}, {}),
    FEMCSetFEMode |-> Call({}, {}) ]

-----------------------------------------------------------------------------
(* A negative port means the signal source: these exports say so and go to  *)
(* SignalSourceImpl.  The other exports with a port pass -1 on, and the     *)
(* container finds no cartridge there.                                      *)
PowerExports ==
  {"FESetCartridgeOff", "FESetCartridgeOn", "FEGetCartridgeState",
   "cartPauseMonitor"}

TuningExports ==
  {"cartSetLockingStrategy", "cartSetLOFrequency", "cartGetLOFrequency",
   "cartLockPLL", "cartGetLocked", "cartAdjustPLL", "cartAdjustYTO"}

BiasExports ==
  {"cartNullPLLIntegrator"}

PowerAmpExports ==
  {"cartSetLOPowerAmps", "cartGetLOPowerAmpsSetting", "cartSetEnableLO",
   "cartSetLOPower"}

AMCExports == {"cartSetAMC"}

EnableExports == {"cartSetEnablePhotomixer"}

MonitorExports ==
  {"cartGetMonitorYTO", "cartGetMonitorPhotomixer", "cartGetMonitorPLL",
   "cartGetMonitorAMC", "cartGetMonitorPA"}

(* SignalSourceImpl: monitoring data of its one assembly, which has no cold *)
(* cartridge.                                                               *)
SourceMonitorCalls ==
  [ cartGetMonitorYTO        |-> Assembly({"cartridge"}),
    cartGetMonitorPhotomixer |-> Call({"cartridge", "WCA"}, {"cartridge", "WCA"}),
    cartGetMonitorPLL        |-> Call({"cartridge", "WCA"}, {"cartridge", "WCA"}),
    cartGetMonitorAMC        |-> Call({"cartridge", "WCA"}, {"cartridge", "WCA"}),
    cartGetMonitorPA         |-> Call({"cartridge", "WCA"}, {"cartridge", "WCA"}) ]

(* SignalSourceImpl: power, pause and tuning.                               *)
SourceTuningCalls ==
  [ FESetCartridgeOff        |-> Assembly({"cartridge"}),
    FESetCartridgeOn         |-> Assembly({"cartridge"}),
    FEGetCartridgeState      |-> Assembly({"cartridge"}),
    cartPauseMonitor         |-> Assembly({"cartridge"}),
    cartSetLockingStrategy   |-> WCACall,
    cartSetLOFrequency       |-> Assembly(WCAOn),
    cartGetLOFrequency       |-> WCACall,
    cartLockPLL              |-> Assembly(WCAOn),
    cartGetLocked            |-> WCACall,
    cartAdjustPLL            |-> WCACall,
    cartAdjustYTO            |-> WCACall ]

(* SignalSourceImpl: the rest.                                              *)
SourceBiasCalls ==
  [ cartNullPLLIntegrator     |-> Assembly(WCAOn),
    cartSetLOPowerAmps        |-> Assembly(WCAOn),
    cartGetLOPowerAmpsSetting |-> WCACall,
    cartSetEnableLO           |-> WCACall,
    cartSetLOPower            |-> WCACall,
    cartSetAMC                |-> Assembly(WCAOn),
    cartSetEnablePhotomixer   |-> Assembly(WCAOn) ]

-----------------------------------------------------------------------------
(* The exports of the LORTM, the compressor and the signal source that use  *)
(* the module's object.  All but the last three of the LORTM also test the  *)
(* pointer.                                                                 *)
LORTMCalls ==
  [ c \in {"LORTMGetFirmwareInfo", "LORTMGetAMBSIInfo", "LORTMGetAmbientTemperature",
           "LORTMResetAMBSI", "LORTMResetDevice", "LORTMSystemManualModeRequest",
           "LORTMSystemStandbyModeRequest", "LORTMSystemLoadAllParameters",
           "LORTMSystemSaveAllParameters", "LORTMGetErrorList", "LORTMSystemClearErrors",
           "LORTMGetSystemState", "LORTMGetInterlockStatus", "LORTMGetPhaselockStatus",
           "LORTMGetTuningReady", "LORTMGetRFInputReady"} |-> Call({"module"}, {"module"}) ]

LORTMTuningCalls ==
  [ LORTMPhaseLockTuningInit     |-> Call({"module"}, {"module"}),
    LORTMPhaseLockTuningFinalize |-> Call({"module"}, {"module"}),
    LORTMPhaseLockGetTuning      |-> Call({"module"}, {"module"}),
    LORTMGetMonitorStatus        |-> Call({"module"}, {"module"}),
    LORTMGetMonitorLasers        |-> Call({"module"}, {"module"}),
    LORTMGetMonitorOther         |-> Call({"module"}, {"module"}),
    LORTMLaserEnable             |-> Call({}, {"module"}),
    LORTMLaserSetFrequency       |-> Call({}, {"module"}),
    LORTMLaserCalibrationSelect  |-> Call({}, {"module"}) ]

CompressorCalls ==
  [ c \in {"CompressorGetAMBSIInfo", "CompressorGetAMBSITemperature",
           "CompressorGetSWRevisionLevel", "CompressorGetECUType",
           "CompressorGetInterlockOverride", "CompressorSetRemoteDrive",
           "CompressorSetRemoteReset", "CompressorSetFaultLatchReset",
           "CompressorGetMonitorData"} |-> Call({"module"}, {"module"}) ]

(* sigSrcGetBand tests its own pointer to the WCA.                          *)
SigSrcCalls ==
  [ sigSrcLoadConfiguration |-> Call({}, {}), sigSrcEnableMonitoring |-> Call({}, {}),
    sigSrcGetBand |-> Call({"WCA"}, {"WCA"}),
    sigSrcExit |-> Call({}, {}), sigSrcIsErrorStop |-> Call({}, {}),
    sigSrcGetAMBSIInfo |-> Call({}, {}), sigSrcGetAMBSITemperature |-> Call({}, {}),
    sigSrcGetFirmwareInfo |-> Call({}, {}), sigSrcGetNumCartridgesOn |-> Call({}, {}) ]

-----------------------------------------------------------------------------
(* The calls that use an object they do not ask for: getLocked on a bare    *)
(* cold cartridge, the data of a port that holds none, and the two that     *)
(* load a configuration into a module whether it has an object or not.      *)
Unguarded == {"cartGetLocked", "cartGetXYData", "FELoadConfiguration",
              "sigSrcLoadConfiguration"}

(* A call of module m reaches the module's object, then what its tests let  *)
(* it reach.                                                                *)
Reaching(calls, names) == { [calls[c] EXCEPT !.uses = @ \cup {"module"}] : c \in names }

All(calls)     == Reaching(calls, DOMAIN calls)
Guarded(calls) == Reaching(calls, DOMAIN calls \ Unguarded)

FrontEndCalls ==
  Guarded(MonitorCalls) \cup Guarded(TuningCalls) \cup Guarded(BiasCalls) \cup
  Guarded(PowerAmpCalls) \cup Guarded(OptimizeCalls) \cup Guarded(MeasureCalls) \cup
  Guarded(EnableCalls) \cup Guarded(SwitchCalls) \cup Guarded(CryostatCalls) \cup
  Guarded(OpticsCalls) \cup Guarded(PowerCalls) \cup Guarded(HealthCalls) \cup
  Guarded(ConfigurationCalls) \cup Guarded(ControllerCalls)

SourceCalls ==
  Reaching(SourceMonitorCalls, MonitorExports) \cup
  Reaching(SourceTuningCalls, PowerExports \cup TuningExports) \cup
  Reaching(SourceBiasCalls, BiasExports \cup PowerAmpExports \cup AMCExports \cup EnableExports)

CallsOf(m) ==
  CASE m = "FE"         -> FrontEndCalls
    [] m = "SigSrc"     -> SourceCalls \cup Guarded(SigSrcCalls)
    [] m = "LORTM"      -> All(LORTMCalls) \cup All(LORTMTuningCalls)
    [] m = "Compressor" -> All(CompressorCalls)
=============================================================================
