------------------------ MODULE MC_LedgerPipeline ------------------------
(* Instances of LedgerPipeline for TLC. *)
EXTENDS LedgerPipelineInv, TLC

Perms == Permutations(Producers) \cup Permutations(EventIds) \cup Permutations(Hashes)

Conf(m, dl, fs) == [mode |-> m, deadLetter |-> dl, faults |-> fs]

\* The WAL modes with every failure that is recorded or refused.
WalConfigs ==
    {Conf("durable", TRUE, {"ledger_append", "checkpoint_write"}),
     Conf("durable", TRUE, {"wal_append", "block_seal"}),
     Conf("strict", TRUE, {"ledger_append", "checkpoint_write", "wal_append", "block_seal"})}

\* Overflow of the queue, two producers.
SpillConfigs == {Conf("durable", TRUE, {})}

\* Best effort, failing dead letters and WAL scans: what still must end.
LiveConfigs ==
    {Conf("durable", TRUE, {}), Conf("durable", FALSE, {"wal_scan"}),
     Conf("best_effort", TRUE, {"ledger_append", "dead_letter_write"}),
     Conf("strict", TRUE, {"checkpoint_write"})}

BestEffortConfigs == {Conf("best_effort", TRUE, {})}

\* A disk that takes neither ledger entries nor dead letters.
FullDiskConfigs == {Conf("durable", TRUE, {"ledger_append", "dead_letter_write"})}

=============================================================================
