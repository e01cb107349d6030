SPECIFICATION FairArbSpec
INVARIANT BuzzerAgrees
PROPERTY EdgeSounds ReportHeals
