------------------------------ MODULE Pressure ------------------------------
(***************************************************************************)
(* compute_pressure(): the pressure level of one reading of /proc/meminfo   *)
(* and /proc/pressure/memory.  Every threshold is a whole number of         *)
(* percents and every comparison is < or >= against one, so the integer     *)
(* parts of the percentages decide.                                         *)
(***************************************************************************)
EXTENDS HwmTypes

\* free is MemInfo::free_pct(); psi says whether PSIStats is valid, some and
\* full are its avg10 values.
Reading == [free : 0..100, psi : BOOLEAN, some : 0..100, full : 0..100]

\* Variant: the line for HIGH is missing.
FallbackPressureLax(r) == IF r.free < 25 THEN CRITICAL ELSE NORMAL

\* Without PSI: no MODERATE, and each RAM bound counts one level more.
FallbackPressure(r) ==
  IF r.free < 25 THEN CRITICAL ELSE IF r.free < 50 THEN HIGH ELSE NORMAL

PsiPressure(r) ==
  IF r.full >= 15 \/ r.some >= 40 THEN CRITICAL
  ELSE IF r.some >= 20 \/ r.free < 25 THEN HIGH
  ELSE IF r.some >= 5 \/ r.free < 50 THEN MODERATE
  ELSE NORMAL

ComputePressure(r) ==
  IF r.free < 15 THEN CRITICAL
  ELSE IF r.psi THEN PsiPressure(r)
  ELSE FallbackPressure(r)

\* s is no better than r: no more free memory, and stalls at least as bad.  A
\* reading that lost PSI compares with one that had it and saw no stalls.
NoBetter(r, s) ==
  /\ s.free <= r.free
  /\ \/ r.psi = s.psi /\ s.some >= r.some /\ s.full >= r.full
     \/ r.psi /\ ~s.psi /\ r.some = 0 /\ r.full = 0
=============================================================================
