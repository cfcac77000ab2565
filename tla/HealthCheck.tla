---------------------------- MODULE HealthCheck ----------------------------
(***************************************************************************)
(* How the results of the health check, of the fine LO sweep and of the    *)
(* cool-down plot get into the database: FrontEndImpl, CartHealthCheck,    *)
(* MeasureFineLOSweep, CryostatImpl and ThermalLogger on FrontEndDatabase, *)
(* FEICDataBase and MySQLConnection; and the bias that CartHealthCheck     *)
(* prepares and later records.                                             *)
(*                                                                         *)
(* All of them share one connection without a lock.  A query is one step,  *)
(* a SELECT that a function makes before its first INSERT is part of it,   *)
(* and any query may fail.  What stands in the database before, and what   *)
(* other stations write, is arbitrary: a header that is looked for is      *)
(* found or not.                                                           *)
(***************************************************************************)
EXTENDS Naturals, Sequences, FiniteSets

CONSTANTS
    Ports,          \* ports with a WCA in them, each the port of its band
    WithCCA,        \* those that have a cold cartridge as well
    Statuses,       \* data statuses that the host asks for
    empty,          \* the tables of the configuration that have no row
    MaxJobs         \* bound: threads that are at work at once

Tables == {"LNA01", "LNA11", "LNA02", "LNA12", "Mixer", "Magnet"}

ASSUME PortsAssumption == Ports \subseteq 1..10
ASSUME FittedAssumption == WithCCA \subseteq Ports
ASSUME StatusesAssumption == Statuses \subseteq {"HEALTH_CHECK", "COLD_PAS"}
ASSUME TablesAssumption == empty \subseteq Tables
ASSUME JobsAssumption == MaxJobs \in Nat \ {0}

\* What the cold cartridge of a band has: bands 9 and 10 one sideband only,
\* bands 1 and 2 no mixers, bands 1 to 4 no magnets.
hasSb2(band) == band <= 8
hasSIS(band) == band >= 3
hasMagnet(band) == band >= 5

VARIABLES
    job,            \* job[j]: what thread j has to do, see IdleJob
    id,             \* id[j]: the header that thread j holds on to
    hc,             \* hcStarted_m, hcDataStatus_m
    record,         \* recordCoolDownPlot_m
    astray          \* history: rows that stand under a header of another kind

healthVars == <<job, id, hc, record, astray>>

Host == <<"host", 0>>
Log == <<"log", 0>>
Check(p) == <<"check", p>>
Sweep(p) == <<"sweep", p>>
Jobs == {Host, Log} \cup {Check(p) : p \in Ports} \cup {Sweep(p) : p \in Ports}

-----------------------------------------------------------------------------
(* Test data: the type of a header and whether it is of one band or of the *)
(* whole front end.  The component it names is looked up, and left out of  *)
(* the header when it is not found.                                        *)

insertCryostatData == "CRYOSTATTEMPS"
insertIfSwitchData == "IFSWITCHTEMPS"
insertLPRMonitorData == "LPR_WARMHEALTH"
PowerModuleData == "CPDS_MONITOR"
PhotomixerData == "PHOTOMIXER_WARMHEALTH"
FLOOGDistHealthData == "FLOOGDIST"
insertAMCMonitorData == "WCA_AMC_BIAS"
insertPAMonitorData == "WCA_PA_BIAS"
insertPLLMonitorData == "WCA_PLL_BIAS"
insertCartTempData == "CCA_TEMPSENSORS"
LNAMonitorData == "CCA_LNA_BIAS"
SISMonitorData == "CCA_SIS_BIAS"
insertIVCurveData == "IV_CURVE"
insertIFTotalPowerData == "IFTOTALPOWER"
insertYFactorData == "YFACTOR"
FineLOSweepData == "FINE_LO_SWEEP"
CooldownData == "CRYOSTAT_COOLDOWN"
Banded == {insertAMCMonitorData, insertPAMonitorData, insertPLLMonitorData,
           insertCartTempData, LNAMonitorData, SISMonitorData, insertIVCurveData,
           insertIFTotalPowerData, insertYFactorData, FineLOSweepData}

\* A header, as far as its rows depend on it, and what stands for one:
\* an invalid ID, and an ID that was read after another thread's INSERT.
Invalid == [type |-> "invalid", band |-> 0, status |-> "none"]
Lost == [type |-> "lost", band |-> 0, status |-> "none"]
Header(data, band, status) ==
    [type |-> data, band |-> IF data \in Banded THEN band ELSE 0,
     status |-> status]

\* What a thread does: Insert creates a header of its own and the rows under
\* it; Find and Create leave a header in id, Row puts rows under it.  Anew,
\* id is reset first.
Insert(data) == <<[do |-> "insert", data |-> data, anew |-> FALSE]>>
Find(data, anew) == <<[do |-> "find", data |-> data, anew |-> anew]>>
Create(data, anew) == <<[do |-> "create", data |-> data, anew |-> anew]>>
Row(data) == <<[do |-> "row", data |-> data]>>
Then(call) == <<[do |-> call]>>

\* The rest of its work, how far it has come with the first of it, the header
\* of an Insert, what it files the data under, and the LO frequency for which
\* a health check has set the bias.
IdleJob == [todo |-> <<>>, stage |-> "look", local |-> Invalid,
            band |-> 0, status |-> "COLD_PAI", freqLO |-> "old"]

Busy == {j \in Jobs : job[j].todo # <<>>}
Op(j) == Head(job[j].todo)
Holder(data, j) == IF data = CooldownData THEN Log ELSE j
HeaderFor(j) == Header(Op(j).data, job[j].band, job[j].status)
MayStart(j) == j \notin Busy /\ Cardinality(Busy \cup {j}) <= MaxJobs

\* The jobs after an INSERT of j, which mysql_insert_id now answers for, on
\* behalf of whoever asks.
Overtaken(j, jobs) ==
    [k \in Jobs |-> IF k # j /\ jobs[k].stage = "made"
                    THEN [jobs[k] EXCEPT !.stage = "overtaken"] ELSE jobs[k]]

\* The jobs after the first operation of j.
Advanced(j) == [job EXCEPT ![j] =
    IF Len(@.todo) = 1 THEN IdleJob
    ELSE [@ EXCEPT !.todo = Tail(job[j].todo), !.stage = "look", !.local = Invalid]]
Advance(j) == job' = Advanced(j)

\* testDataHeaderId_m of a sweep and headerId_m of the cryostat are members;
\* a local one is gone at the end of the job.
Kept(j) == IF Len(job[j].todo) = 1 /\ j[1] \in {"host", "check"}
           THEN [id EXCEPT ![j] = Invalid] ELSE id
Holding(j, header) ==
    IF Len(job[j].todo) = 1 /\ j[1] = "check" THEN Kept(j)
    ELSE [id EXCEPT ![Holder(Op(j).data, j)] = header]

HealthInit ==
    /\ job = [j \in Jobs |-> IdleJob]
    /\ id = [j \in Jobs |-> Invalid]
    /\ hc = [started |-> FALSE, status |-> "unknown"]
    /\ record = FALSE
    /\ astray = {}

-----------------------------------------------------------------------------
(* The database.                                                            *)

Creating == {"insert", "find", "create"}

\* Not connected, or isValidConfigId is false of what getConfigId found: the
\* caller keeps what it has.
ReturnEarly(j) ==
    /\ Op(j).do \in Creating /\ job[j].stage = "look"
    /\ id' = IF Op(j).anew THEN Holding(j, Invalid) ELSE Kept(j)
    /\ Advance(j)
    /\ UNCHANGED <<astray, hc, record>>

\* findTestDataHeader: the latest of the headers of this type and status.
FindHeader(j) ==
    /\ Op(j).do = "find" /\ job[j].stage = "look"
    /\ id' = Holding(j, HeaderFor(j))
    /\ Advance(j)
    /\ UNCHANGED <<astray, hc, record>>

\* The INSERT of createTestDataHeader, or that of the sub-header of a sweep,
\* which needs a valid header.  It may fail.
InsertHeader(j) ==
    /\ job[j].stage = "look"
    /\ \/ Op(j).do \in Creating
       \/ Op(j).do = "sub" /\ id[j] # Invalid
    /\ \/ /\ job' = Overtaken(j, [job EXCEPT ![j].stage = "made"])
          /\ UNCHANGED id
       \/ /\ id' = IF Op(j).do \in {"insert", "sub"} THEN Kept(j)
                   ELSE Holding(j, Invalid)
          /\ Advance(j)
    /\ UNCHANGED <<astray, hc, record>>

\* getLastInsertID: of this connection, whoever inserted.
LastInsertID(j) ==
    /\ job[j].stage \in {"made", "overtaken"}
    /\ LET h == IF job[j].stage = "overtaken" THEN Lost
                ELSE IF Op(j).do = "sub" THEN id[j] ELSE HeaderFor(j)
       IN IF Op(j).do \in {"insert", "sub"}
          THEN /\ job' = [job EXCEPT ![j].stage = "rows", ![j].local = h]
               /\ UNCHANGED id
          ELSE /\ id' = Holding(j, h)
               /\ Advance(j)
    /\ UNCHANGED <<astray, hc, record>>

Target(j) == IF job[j].stage = "rows" THEN job[j].local
                                      ELSE id[Holder(Op(j).data, j)]

\* The INSERT of the rows.  Nothing is done with an invalid header.
InsertRows(j) ==
    /\ Op(j).do = "row" \/ job[j].stage = "rows"
    /\ \/ /\ Target(j) # Invalid
          /\ job' = Overtaken(j, Advanced(j))
          /\ astray' = IF Target(j) \in {Lost, HeaderFor(j)} THEN astray
                       ELSE astray \cup {<<HeaderFor(j), Target(j)>>}
       \/ Advance(j) /\ UNCHANGED astray
    /\ id' = Kept(j)
    /\ UNCHANGED <<hc, record>>

SkipSub(j) ==
    /\ Op(j).do = "sub" /\ job[j].stage = "look" /\ id[j] = Invalid
    /\ Advance(j)
    /\ UNCHANGED <<id, astray, hc, record>>

-----------------------------------------------------------------------------
(* What the threads do.                                                     *)

HealthCheckJob ==
    Insert(insertCryostatData) \o Insert(insertIfSwitchData)
    \o Insert(insertLPRMonitorData) \o Then("started")

PowerModuleJob(p, freqLO) ==
    Find(PowerModuleData, TRUE) \o Row(PowerModuleData)
    \o <<[do |-> "check", port |-> p, freqLO |-> freqLO]>>

\* Mutant: the header of the FLOOG distributor is not forgotten.
WCAJobUnreset ==
    Insert(insertAMCMonitorData) \o Insert(insertPAMonitorData)
    \o Find(FLOOGDistHealthData, TRUE)
    \o Insert(insertPLLMonitorData) \o Row(FLOOGDistHealthData)
    \o Find(PhotomixerData, FALSE) \o Row(PhotomixerData)

\* CartHealthCheck::optimizeAction.
WCAJob ==
    Insert(insertAMCMonitorData) \o Insert(insertPAMonitorData)
    \o Find(FLOOGDistHealthData, TRUE)
    \o Insert(insertPLLMonitorData) \o Row(FLOOGDistHealthData)
    \o Find(PhotomixerData, TRUE) \o Row(PhotomixerData)

ColdCartJob(p) ==
    Insert(insertCartTempData)
    \o Create(LNAMonitorData, TRUE) \o Row(LNAMonitorData)
    \o Create(SISMonitorData, TRUE)
    \o (IF hasSIS(p) THEN Row(SISMonitorData) ELSE <<>>)

\* An I-V curve with the LO on, and one with the LO off.
CurvesJob ==
    Insert(insertIVCurveData) \o Insert(insertIVCurveData)

CheckJob(p, cold) ==
    WCAJob
    \o (IF p \in WithCCA THEN ColdCartJob(p) ELSE <<>>)
    \o (IF p \in WithCCA /\ hasSIS(p) /\ cold THEN CurvesJob ELSE <<>>)

IFPowerJob(yFactor) ==
    Insert(insertIFTotalPowerData)
    \o (IF yFactor THEN Insert(insertYFactorData) ELSE <<>>)

\* MeasureFineLOSweep::optimizeAction: a sub-header for each polarization.
SweepJob(pols) ==
    Create(FineLOSweepData, FALSE)
    \o [i \in 1..pols |-> [do |-> "sub", data |-> FineLOSweepData]]

PlotJob == Create(CooldownData, TRUE) \o Then("plot")

-----------------------------------------------------------------------------
(* The bias that a health check sets, and records.                          *)

\* One table for each polarization and sideband.
LNATables(p) == IF hasSb2(p) THEN <<"LNA01", "LNA02", "LNA11", "LNA12">>
                ELSE <<"LNA01", "LNA11">>

\* Mutant: of the first polarization nothing is set.
setLNABiasPol1(p) == {"LNA11", "LNA12"} \ empty

\* setLNABias: the tables in their order, up to the first that is empty.
setLNABias(p) ==
    LET t == LNATables(p)
    IN {t[i] : i \in {n \in DOMAIN t : \A m \in 1..n : t[m] \notin empty}}

setSISBias(p) == IF hasSIS(p) THEN {"Mixer"} \ empty ELSE {}
setSISMagnet(p) == IF hasMagnet(p) THEN {"Magnet"} \ empty ELSE {}

\* CartHealthCheck::prepare: the settings it makes, for the frequency that the
\* LO has then: the center of the band, if it could be tuned to it.
prepare(p) ==
    IF p \notin WithCCA THEN {}
    ELSE setLNABias(p) \cup setSISBias(p) \cup setSISMagnet(p)

Applied(p, x) == IF x \in prepare(p) THEN job[Check(p)].freqLO ELSE "old"

\* The settings that go with the rows of an LNA or SIS: the worker looks them
\* up anew, at its own LO frequency.
RecordedTables(p) ==
    CASE Op(Check(p)).data = LNAMonitorData ->
              {LNATables(p)[i] : i \in DOMAIN LNATables(p)}
      [] Op(Check(p)).data = SISMonitorData -> {"Mixer", "Magnet"}
      [] OTHER -> {}
Recorded(x) == IF x \in empty THEN "zero" ELSE "center"

-----------------------------------------------------------------------------
(* Host calls, one at a time.                                               *)

Begin(j, todo, band, status) ==
    job' = [job EXCEPT ![j] =
              IF todo = <<>> THEN IdleJob
              ELSE [IdleJob EXCEPT !.todo = todo, !.band = band, !.status = status]]

\* Cryostat temperatures out of range end the health check before it has
\* begun.
startHealthCheck(status) ==
    /\ MayStart(Host)
    /\ \E inRange \in BOOLEAN :
         /\ hc' = [hc EXCEPT !.status = status]
         /\ Begin(Host, IF inRange THEN HealthCheckJob ELSE <<>>, 0, status)
    /\ UNCHANGED <<id, astray, record>>

\* The host waits for EVENT_CARTHC_DONE before it checks the cartridge again.
cartHealthCheck(p) ==
    /\ MayStart(Host) /\ {Check(p), Sweep(p)} \cap Busy = {}
    /\ hc.started
    /\ \E freqLO \in {"center", "none"} :
         Begin(Host, PowerModuleJob(p, freqLO), p, hc.status)
    /\ UNCHANGED <<id, astray, hc, record>>

cartHealthCheckSaveIFPowerData(p) ==
    /\ MayStart(Host)
    /\ hc.started
    /\ \E yFactor \in IF hc.status = "COLD_PAS" THEN {TRUE} ELSE BOOLEAN :
         Begin(Host, IFPowerJob(yFactor), p, hc.status)
    /\ UNCHANGED <<id, astray, hc, record>>

finishHealthCheck ==
    /\ Host \notin Busy
    /\ hc' = [started |-> FALSE, status |-> "unknown"]
    /\ UNCHANGED <<job, id, astray, record>>

\* The mixer bias is where the sweep put it back, not where it was recorded.
measureFineLOSweep(p) ==
    /\ p \in WithCCA /\ hasSIS(p)
    /\ Host \notin Busy /\ MayStart(Sweep(p)) /\ Check(p) \notin Busy
    /\ \E pols \in {1, 2} : Begin(Sweep(p), SweepJob(pols), p, "COLD_PAI")
    /\ UNCHANGED <<id, astray, hc, record>>

startCooldownPlot ==
    /\ MayStart(Host)
    /\ Begin(Host, PlotJob, 0, "COLD_PAI")
    /\ UNCHANGED <<id, astray, hc, record>>

stopCooldownPlot ==
    /\ Host \notin Busy
    /\ id' = [id EXCEPT ![Log] = Invalid]
    /\ record' = FALSE
    /\ UNCHANGED <<job, astray, hc>>

\* The steps of host and workers that are not queries.
Started(j) ==
    /\ Op(j).do = "started"
    /\ hc' = [hc EXCEPT !.started = TRUE]
    /\ Advance(j)
    /\ UNCHANGED <<id, astray, record>>

\* hcReceiverIsCold_m is what the cryostat's temperatures were.
StartCheck(j) ==
    /\ Op(j).do = "check"
    /\ \E cold \in BOOLEAN :
         job' = [Advanced(j) EXCEPT
                   ![Check(Op(j).port)] =
                      [IdleJob EXCEPT !.todo = CheckJob(Op(j).port, cold),
                                      !.band = Op(j).port,
                                      !.freqLO = Op(j).freqLO,
                                      !.status = job[j].status]]
    /\ UNCHANGED <<id, astray, hc, record>>

\* The sub-header of the plot is inserted, whatever became of its header.
StartPlot(j) ==
    /\ Op(j).do = "plot"
    /\ \/ record' = TRUE /\ job' = Overtaken(j, Advanced(j))
       \/ Advance(j) /\ UNCHANGED record
    /\ UNCHANGED <<id, astray, hc>>

\* ThermalLogger, once in its interval.
appendThermalLog ==
    /\ record /\ MayStart(Log)
    /\ job' = [job EXCEPT ![Log] = [IdleJob EXCEPT !.todo = Row(CooldownData)]]
    /\ UNCHANGED <<id, astray, hc, record>>

Calls ==
    \/ \E status \in Statuses : startHealthCheck(status)
    \/ \E p \in Ports :
         \/ cartHealthCheck(p) \/ cartHealthCheckSaveIFPowerData(p)
         \/ measureFineLOSweep(p)
    \/ finishHealthCheck \/ startCooldownPlot \/ stopCooldownPlot

Work(j) ==
    /\ j \in Busy
    /\ \/ ReturnEarly(j) \/ FindHeader(j) \/ InsertHeader(j)
       \/ LastInsertID(j) \/ InsertRows(j) \/ SkipSub(j)
       \/ Started(j) \/ StartCheck(j) \/ StartPlot(j)

HealthNext == Calls \/ appendThermalLog \/ \E j \in Jobs : Work(j)

HealthSpec == HealthInit /\ [][HealthNext]_healthVars

-----------------------------------------------------------------------------
(* Properties.                                                              *)

\* Every row stands under a header of its type, band and data status,
\* whatever queries fail: unless another thread inserted something between
\* the INSERT of a header and the reading of its ID.
RowsAreFiled == astray = {}

\* The LNA, mixer and magnet settings that a health check records are those
\* it made: unless the LO could not be tuned to the frequency it records, or
\* the configuration lacks the table, or one that was to be set before it, or
\* lists magnet currents for a band that has no magnets.
RecordedIsApplied ==
    \A p \in Ports :
        Check(p) \in Busy /\ Op(Check(p)).do = "row" =>
            \A x \in RecordedTables(p) :
                \/ Applied(p, x) = Recorded(x)
                \/ job[Check(p)].freqLO = "none"
                \/ x \in empty
                \/ x = "Magnet" /\ ~hasMagnet(p)
                \/ \E m, n \in DOMAIN LNATables(p) :
                     m < n /\ LNATables(p)[m] \in empty /\ LNATables(p)[n] = x
=============================================================================
