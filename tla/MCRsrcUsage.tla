----------------------------- MODULE MCRsrcUsage -----------------------------
(***************************************************************************)
(* RsrcUsage with a record of which of the two descriptions in the         *)
(* comments of RsrcUsage.cpp its steps have kept so far.                   *)
(***************************************************************************)
EXTENDS RsrcUsage

VARIABLE kept

MCCounted == {"user_cpu_time", "messages_received"}

Descriptions == {"AbsentMarked", "SameStructureZero"}

DescribedInit == UsageInit /\ kept = Descriptions

\* A description that one step does not keep is not kept any more.
DescribedNext ==
  /\ UsageNext
  /\ kept' = kept \ ((IF AbsentMarked THEN {} ELSE {"AbsentMarked"}) \cup
                     (IF SameStructureZero THEN {} ELSE {"SameStructureZero"}))

DescribedSpec == DescribedInit /\ [][DescribedNext]_<<usageVars, kept>>

\* The comments of RsrcUsage.cpp on what the members of an object are: those that the
\* system lacks are marked (line 762), and those of a difference that is put into its
\* own start are zero (line 1032).  A behaviour that keeps neither violates this.
DescriptionKept == kept # {}
=============================================================================
