---------------------------- MODULE GranularRound ----------------------------
(***************************************************************************)
(* Rounding to a granule, as mapped files and file stores round sizes.     *)
(***************************************************************************)
EXTENDS Integers

\* The greatest multiple of the granularity up to datum; 0 when there are no granules.
GranularRoundDown(datum, granularity) ==
  IF datum < 1 \/ granularity < 1 THEN 0 ELSE (datum \div granularity) * granularity

\* The next multiple of the granularity: a whole granule also for 0.
GranularRoundUp(datum, granularity) ==
  GranularRoundDown(datum, granularity)
  + IF datum = 0 \/ datum % granularity # 0 THEN granularity ELSE 0
=============================================================================
