---------------------------- MODULE MCDownloader ----------------------------
\* Small instances of Downloader for TLC.
EXTENDS Downloader, TLC

\* Identifiers and keys are interchangeable: Job::new draws them at random.
Symmetry == Permutations(JobId) \cup Permutations(Key)
=============================================================================
