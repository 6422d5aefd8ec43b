-------------------------------- MODULE Tools --------------------------------
(***************************************************************************)
(* Every tool beside the service: one behaviour is one job of any of them. *)
(* They run in processes of their own and hand each other files, so there  *)
(* is nothing they could interleave on but the files somebody replaces     *)
(* under them.                                                             *)
(***************************************************************************)
EXTENDS ProviderCall, HardCases, Readiness, FaultSuite, Batches, RegressionLoop,
        OtlpBody, Commands, ToolTrajectory, Calibration

Init ==
  \/ ProviderInit \/ MiningInit \/ ReadinessInit \/ FaultsInit \/ BatchesInit
  \/ RegressionInit \/ BodyInit \/ CommandInit
  \/ TrajectoryInit \/ CalibrationInit

Ended == job.pc = "ended" /\ UNCHANGED job

Next ==
  \/ ProviderNext \/ MiningNext \/ ReadinessNext \/ FaultsNext \/ BatchesNext
  \/ RegressionNext \/ BodyNext \/ CommandSteps \/ GiveAgain
  \/ TrajectorySteps \/ ReviewQueue \/ CalibrationNext
  \/ Ended

\* What the program does on its own, once the others it waits for have answered:
\* a provider is asked under a client timeout, but nobody has to replace an
\* artifact, to review a queue, to give a command again or to send another chunk
\* of a body.
ProgramSteps ==
  \/ ProviderNext \/ MiningNext \/ FaultsNext \/ BatchesNext \/ RegressionNext
  \/ AuditReport \/ CheckDigest \/ CheckContent \/ Decide
  \/ ReadHeaders \/ InflateBody \/ KeepBody \/ ParseBody
  \/ CommandSteps \/ TrajectorySteps \/ CalibrationNext

Spec == Init /\ [][Next]_job /\ WF_job(ProgramSteps)

-----------------------------------------------------------------------------
\* Both comparisons, of batches and of benchmark reports, promote a candidate
\* only with the evidence their reports name as reasons.
PromotionsDoNotRegress == BatchPromotionsHold /\ RegressionPromotionsHold

\* Every job comes to an end, with an answer, a report or an error, whatever a
\* provider answers, whatever buckets there are to mine and whatever is
\* replaced or cannot be written; a body may be waited for forever.
JobsEnd == job.pc # "ended" ~> job.pc = "ended" \/ Running("body", "stream")
=============================================================================
