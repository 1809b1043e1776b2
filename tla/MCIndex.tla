------------------------------ MODULE MCIndex -------------------------------
(* The two files that say which series there are, for TLC: each behaviour is one of
   SeriesPartition and TSIPartition, as picked in MCInit; the other's variables stay as
   they are. *)
EXTENDS Naturals, Sequences, TLC

CONSTANTS
    Keys, Callers, SegmentSize, CompactThreshold, MaxEntries, MaxFaults, MaxRestarts,
    Ids, Creators, Droppers, MaxLogFileSize, Levels, MaxOps

VARIABLES
    part,
    log, sSeq, index, compaction, sDisabled, sCall, faults, sRestarts, given, deleted, sFlawed,
    disk, files, active, seq, set, comps, disabled, leaked, closer, call, ops, restarts, panic, flawed

seriesVars == <<log, sSeq, index, compaction, sDisabled, sCall, faults, sRestarts, given, deleted, sFlawed>>
tsiVars == <<disk, files, active, seq, set, comps, disabled, leaked, closer, call, ops, restarts, panic, flawed>>

SeriesFile == INSTANCE SeriesPartition WITH
    seq <- sSeq, disabled <- sDisabled, call <- sCall, restarts <- sRestarts, flawed <- sFlawed
TSI == INSTANCE TSIPartition

MCInit == part \in {"series file", "tsi"} /\ SeriesFile!Init /\ TSI!Init

MCNext ==
    \/ part = "series file" /\ SeriesFile!Next /\ UNCHANGED <<part, tsiVars>>
    \/ part = "tsi" /\ TSI!Next /\ UNCHANGED <<part, seriesVars>>

MCSpec == MCInit /\ [][MCNext]_<<part, seriesVars, tsiVars>>

Symmetry == {p @@ q : p \in Permutations(Keys), q \in Permutations(Callers)}

\* A series keeps the id it was given until that id is deleted
\* (SeriesPartition.CreateSeriesListIfNotExists, Compact and Open).
IdsKept == SeriesFile!IdsKept

\* A deleted id stays deleted, through compactions and restarts (DeleteSeriesID).
DeletedStay == SeriesFile!DeletedStay

\* No id is logged for two insertions (openSegments).
NotReused == SeriesFile!NotReused

\* The existence set is what Open would build from the files of the manifest
\* (Partition.buildSeriesSet, compactLogFile and compactToLevel).
SetIsRebuilt == TSI!SetIsRebuilt

\* A series that exists is found through its measurement (FileSet.Measurement).
Listed == TSI!Listed

\* The files of a compaction stay together until it replaces them (FileSet.MustReplace).
Together == TSI!Together
=============================================================================
