-------------------------- MODULE MCBackupPipeline --------------------------
(* Small instances of BackupPipeline: files that share chunks with each      *)
(* other and with the index, and files that change under the run.            *)
EXTENDS BackupPipeline

CONSTANTS a, b, c, d, w1, w2, u1, u2

\* Two files of three chunks, the second of which may lose one; b is in both.
Overlapping == <<{<<a, b>>}, {<<b, c, d>>, <<c, d>>}>>

\* Files that may lose or gain a chunk between the walk and the read.
Changing == <<{<<a>>, <<a, b>>}, {<<b>>, <<b, c>>}>>

Plain == [dryRun |-> FALSE, maxBytes |-> 0,
          chunkWorkers |-> ChunkWorkers, uploadWorkers |-> {u1}]
JustPlain == {Plain}
PlainAndLimited ==
    {Plain, [Plain EXCEPT !.chunkWorkers = {w1}, !.uploadWorkers = UploadWorkers],
     [Plain EXCEPT !.dryRun = TRUE, !.maxBytes = 4, !.chunkWorkers = {w1}]}
=============================================================================
