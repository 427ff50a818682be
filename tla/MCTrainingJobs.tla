---------------------------- MODULE MCTrainingJobs ----------------------------
EXTENDS TrainingJobs

Sets == {{"get"}, {"cancel", "deleteDataset"}, {"deleteJob", "deleteDataset"}}
=============================================================================
