------------------------------- MODULE Sysmon -------------------------------
(***************************************************************************)
(* titan-sysmon: SysmonController, which samples the machine once a second.    *)
(* The model's second is one sample.  Frequencies, load, disks, fans and the    *)
(* histories of the graphs are left out.  The machine (`box`) is external; the   *)
(* daemon's file, of which the label is used, is the module Telemetry's.       *)
(***************************************************************************)
EXTENDS Integers, SequencesExt

CONSTANTS
  CoreSets,     \* the sets of cores that may be online
  SensorSets,   \* [cpu, amd, other, zone, nvidia]: degrees, 0 for none; `other` is the
                \* hottest of the remaining hwmon chips, `zone` of the thermal zones
  Memories,     \* [avg10, swap]: the pressure in percent, and the swap in use, 0 for no swap
  MaxShifts     \* bound on changes of the machine

VARIABLES
  box,      \* the cores online and busy, their ticks in /proc/stat, sensors, memory, daemon's label
  mon,      \* the members
  shifts

sysmonVars == <<box, mon, shifts>>

\* A tick counter has 64 bits in the code; differences are unsigned.
Word == 4

-----------------------------------------------------------------------------
\* The parts of sample(), on the members m and the machine b

\* The lines cpuN of /proc/stat: the cores that are online, in order.
CoreLines(b) == [k \in 1..Cardinality(b.online) |-> b.ticks[SetToSortSeq(b.online, <)[k]]]

\* A percentage of the ticks since p.
UsageSince(now, p) ==
  LET dt == (now.total - p.total) % Word
      di == (now.idle - p.idle) % Word
  IN IF dt = 0 THEN 0 ELSE Max({0, (100 * (dt - di)) \div dt})

\* Cores are told apart by their line; what was read is kept for the next sample when there
\* are as many lines as in the first.
SampleCpu(m, b) ==
  LET lines == CoreLines(b)
      prev  == IF m.prev = <<>> THEN lines ELSE m.prev
      n     == Min({Len(lines), Len(prev)})
  IN IF ~m.seeded THEN [m EXCEPT !.prev = prev, !.seeded = TRUE]
     ELSE [m EXCEPT !.bars = [k \in 1..n |-> UsageSince(lines[k], prev[k])],
                    !.prev = IF Len(lines) = Len(prev) THEN lines ELSE prev]

PressureLabel(avg10) ==
  IF avg10 >= 40 THEN "CRITICAL" ELSE IF avg10 >= 20 THEN "HIGH"
  ELSE IF avg10 >= 5 THEN "ELEVATED" ELSE "NORMAL"

\* No swap leaves the numbers of the last one.
SampleMemory(m, b) ==
  [m EXCEPT !.swap = IF b.memory.swap > 0 THEN b.memory.swap ELSE m.swap,
            !.label = PressureLabel(b.memory.avg10)]

\* hwmon knows the processor and AMD cards, and its chips all count for the highest; the
\* thermal zones only when it has none.
SampleThermal(m, b) ==
  LET hwmon == Max({b.sensors.cpu, b.sensors.amd, b.sensors.other})
  IN [m EXCEPT !.cpuTemp = b.sensors.cpu, !.gpuTemp = b.sensors.amd,
               !.highest = IF hwmon > 0 THEN hwmon ELSE b.sensors.zone]

\* nvidia-smi's temperature counts when hwmon had none of a card.
SampleGpu(m, b) ==
  IF m.gpuTemp = 0 /\ b.sensors.nvidia > 0
  THEN [m EXCEPT !.gpuTemp = b.sensors.nvidia, !.highest = Max({m.highest, b.sensors.nvidia})]
  ELSE m

SampleThmLabel(m, b) == IF b.thm = "none" THEN m ELSE [m EXCEPT !.label = b.thm]

\* sample() with the cards looked at before hwmon.
SampledCardsFirst(m, b) ==
  SampleThmLabel(SampleThermal(SampleGpu(SampleMemory(SampleCpu(m, b), b), b), b), b)

Sampled(m, b) ==
  SampleThmLabel(SampleGpu(SampleThermal(SampleMemory(SampleCpu(m, b), b), b), b), b)

-----------------------------------------------------------------------------
\* Actions

FirstMembers == [seeded |-> FALSE, prev |-> <<>>, bars |-> <<>>, swap |-> 0, label |-> "NORMAL",
                 cpuTemp |-> 0, gpuTemp |-> 0, highest |-> 0]

\* The constructor samples once.
SysmonInit ==
  /\ \E cores \in CoreSets, s \in SensorSets, mem \in Memories :
       box = [online |-> cores, busy |-> {}, ticks |-> [c \in UNION CoreSets |-> [total |-> 0, idle |-> 0]],
              sensors |-> s, memory |-> mem, thm |-> "none"]
  /\ mon = Sampled(FirstMembers, box)
  /\ shifts = 0

\* A second, and the timer.
Sample ==
  LET Ticked(c) == IF c \notin box.online THEN box.ticks[c]
                   ELSE [total |-> (box.ticks[c].total + 1) % Word,
                         idle |-> IF c \in box.busy THEN box.ticks[c].idle
                                  ELSE (box.ticks[c].idle + 1) % Word]
  IN /\ box' = [box EXCEPT !.ticks = [c \in DOMAIN @ |-> Ticked(c)]]
     /\ mon' = Sampled(mon, box')
     /\ UNCHANGED shifts

Shifts(changed) ==
  /\ shifts < MaxShifts /\ shifts' = shifts + 1
  /\ changed # box /\ box' = changed
  /\ UNCHANGED mon

SysmonNext ==
  \/ Sample
  \/ \E cores \in CoreSets : Shifts([box EXCEPT !.online = cores])
  \/ \E cores \in SUBSET UNION CoreSets : Shifts([box EXCEPT !.busy = cores])
  \/ \E s \in SensorSets : Shifts([box EXCEPT !.sensors = s])
  \/ \E mem \in Memories : Shifts([box EXCEPT !.memory = mem])
  \/ \E label \in {"none", "HIGH"} : Shifts([box EXCEPT !.thm = label])

\* The timer of the event loop.
SysmonFairness == WF_sysmonVars(Sample)

SysmonSpec == SysmonInit /\ [][SysmonNext]_sysmonVars /\ SysmonFairness

-----------------------------------------------------------------------------
\* Properties

\* With as many cores as at the start the bars are what each core does; the label is the
\* daemon's when it has one; the card's temperature is hwmon's, and nvidia-smi's when hwmon
\* knows no card; and the temperature the status is of is what a sensor says now, and no
\* cooler than the temperatures shown beside it or than any chip of hwmon (the parts of
\* sample, in their order).
SampleFits ==
  /\ Cardinality(box.online) = Len(mon.prev) =>
       mon.bars = [k \in 1..Len(mon.prev) |->
                     IF SetToSortSeq(box.online, <)[k] \in box.busy THEN 100 ELSE 0]
  /\ mon.label = IF box.thm # "none" THEN box.thm ELSE PressureLabel(box.memory.avg10)
  /\ mon.gpuTemp = IF box.sensors.amd > 0 THEN box.sensors.amd ELSE box.sensors.nvidia
  /\ mon.highest \in {box.sensors[s] : s \in DOMAIN box.sensors}
  /\ mon.highest >= Max({mon.cpuTemp, mon.gpuTemp, box.sensors.other})
  /\ box.memory.swap > 0 => mon.swap = box.memory.swap
=============================================================================
